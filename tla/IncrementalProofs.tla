-------------------------- MODULE IncrementalProofs --------------------------
(***************************************************************************)
(* Theorems about Incremental, for any table, any number of changes, runs   *)
(* and faults, any batch size and checkpoint period.                        *)
(***************************************************************************)
EXTENDS Incremental, FiniteSetTheorems, TLAPS

\* No buffered row is lost: RECORD output has none.
Dependable == LoseBuffered => Modes \subseteq {"record"}

-----------------------------------------------------------------------------
(* The inductive invariant.                                                 *)

\* Row p, as the table has it, is at the target under version v, as far as
\* replication key k tells.
Got(p, k, v) == target[p].ver = v /\ (k = "updated" => target[p].at = rows[p].at)

\* Row p has a value of bookmark b's key, and it is smaller than b's.
Behind(p, b) == rows[p][b.key] # 0 /\ rows[p][b.key] < b.value

\* Values of a replication key that rows have.
Latest(k) == IF k = "id" THEN clock ELSE now

\* What the table had when a row on its way was read, it still has; or it was
\* written since, under a value no earlier than every one that the bookmark may take.
Current(r) ==
  /\ r.pk \in Live /\ r.key = rows[r.pk][key]
  /\ key = "updated" => r.at = rows[r.pk].at
Rewritten(p) ==
  /\ rows[p].at > since
  /\ rows[p][key] # 0 => /\ rows[p][key] >= bm.value
                         /\ \A q \in todo : rows[p][key] >= q.key

\* The value and the version of a bookmark are of the past.
WellFormed(b) ==
  /\ b.version <= versions
  /\ b.key # "none" => b.value <= Latest(b.key)
  /\ b.value # 0 => b.version # 0 /\ b.key # "none"

\* Values, positions and versions are of the past.
Bounded ==
  /\ \A p \in Pks : /\ rows[p].id <= clock /\ rows[p].updated <= now /\ rows[p].at <= clock
                    /\ target[p].ver <= versions
  /\ now # 0 /\ since <= clock
  /\ WellFormed(saved) /\ WellFormed(bm)
  /\ \A r \in todo : r.key <= Latest(key)

\* The bookmark of the run and the one that was emitted.
Marks ==
  /\ pc = "off" => bm = saved
  /\ pc # "off" => /\ bm.key = key /\ bm.version # 0
                   /\ saved.version \in {0, bm.version}
                   /\ saved.key = key => saved.value <= bm.value
  /\ exit = 0 => pc = "off" /\ saved.key # "none"
  /\ LoseBuffered => mode = "record"

\* One row of a primary key is on its way.
OneEach == \A r, q \in todo \cup buffer : r.pk = q.pk => r = q

\* The rows on their way come in the order of the replication key.
RowsOK ==
  /\ OneEach
  /\ \A r \in todo : r.key >= bm.value
  /\ \A r \in todo \cup buffer : r.pk \in Live => Current(r) \/ Rewritten(r.pk)
  /\ \A r \in todo \cup buffer :
       /\ r.pk \in Live /\ saved.key = "updated" /\ Behind(r.pk, saved)
       => r.at = rows[r.pk].at
  /\ pc # "rows" \/ mode = "record" => buffer = {}
  /\ pc \notin {"rows", "state"} => todo = {}

\* A row has to be at the target, or on its way, once the bookmark has passed it or
\* will have after the rows of the query; and after the query has started, if it has
\* not been written since the run did.
Due(p) ==
  \/ Behind(p, bm)
  \/ rows[p][key] # 0 /\ \E q \in todo : rows[p][key] < q.key
  \/ pc # "execute" /\ rows[p].at <= since /\ Within(p, bm)

Covered ==
  pc # "off" =>
    \A p \in Live : Due(p) =>
      Got(p, key, bm.version) \/ \E r \in todo \cup buffer : r.pk = p /\ Current(r)

\* What the emitted bookmark promises.
Promised ==
  saved.value # 0 => \A p \in Live : Behind(p, saved) => Got(p, saved.key, saved.version)

\* What a run that reached its end has done.
Complete ==
  exit = 0 =>
    \A p \in Live : Within(p, saved) /\ rows[p].at <= since => Has(p, saved.key)

IInv == TypeOK /\ Bounded /\ Marks /\ RowsOK /\ Covered /\ Promised /\ Complete

-----------------------------------------------------------------------------
(* The operators of Incremental.                                            *)

RowOnItsWay == [pk : Pks, key : Nat, at : Nat]
TargetTable == [Pks -> [ver : Nat, at : Nat]]

\* A batch with one row for each key reaches the target row by row.
LEMMA DeliverRows ==
  ASSUME NEW R \in SUBSET RowOnItsWay, NEW t \in TargetTable, bm.version \in Nat,
         \A r, q \in R : r.pk = q.pk => r = q
  PROVE  /\ Deliver(t, R) \in TargetTable
         /\ \A r \in R : Deliver(t, R)[r.pk] = [ver |-> bm.version, at |-> r.at]
         /\ \A p \in Pks : (\A r \in R : r.pk # p) => Deliver(t, R)[p] = t[p]
<1>1. ASSUME NEW p \in Pks, NEW r \in R, r.pk = p
      PROVE  (CHOOSE q \in R : q.pk = p) = r
  BY <1>1
<1>2. \A r \in R : r.pk \in Pks /\ r.at \in Nat
  BY DEF RowOnItsWay
<1>3. \A r \in R : Deliver(t, R)[r.pk] = [ver |-> bm.version, at |-> r.at]
  BY <1>1, <1>2 DEF Deliver
<1>4. \A p \in Pks : (\A r \in R : r.pk # p) => Deliver(t, R)[p] = t[p]
  BY DEF Deliver
<1>5. ASSUME NEW p \in Pks PROVE Deliver(t, R)[p] \in [ver : Nat, at : Nat]
  <2>1. ASSUME NEW r \in R, r.pk = p PROVE Deliver(t, R)[p] \in [ver : Nat, at : Nat]
    <3>1. Deliver(t, R)[p] = [ver |-> bm.version, at |-> r.at]
      BY <2>1, <1>3
    <3> QED
      BY <3>1, <1>2
  <2>2. ASSUME \A r \in R : r.pk # p PROVE Deliver(t, R)[p] \in [ver : Nat, at : Nat]
    <3>1. Deliver(t, R)[p] = t[p]
      BY <2>2, <1>4
    <3> QED
      BY <3>1 DEF TargetTable
  <2> QED
    BY <2>1, <2>2
<1> QED
  BY <1>3, <1>4, <1>5 DEF Deliver, TargetTable

LEMMA ActivateVersionRows ==
  ASSUME NEW t \in TargetTable, NEW v \in Nat
  PROVE  /\ ActivateVersion(t, v) \in TargetTable
         /\ \A p \in Pks : t[p].ver = v => ActivateVersion(t, v)[p] = t[p]
         /\ \A p \in Pks : ActivateVersion(t, v)[p].ver \in {0, v}
<1>1. \A p \in Pks : ActivateVersion(t, v)[p] = IF t[p].ver = v THEN t[p] ELSE [ver |-> 0, at |-> 0]
  BY DEF ActivateVersion, Absent
<1>2. ActivateVersion(t, v) \in TargetTable
  BY DEF ActivateVersion, Absent, TargetTable
<1> QED
  BY <1>1, <1>2

\* No more rows are on their way than there are keys.
LEMMA RowsFinite ==
  ASSUME NEW R \in SUBSET RowOnItsWay, \A r, q \in R : r.pk = q.pk => r = q
  PROVE  IsFiniteSet(R)
<1> DEFINE f == [r \in R |-> r.pk]
<1>1. f \in Injection(R, Pks)
  BY DEF Injection, IsInjective, RowOnItsWay
<1> QED
  BY <1>1, FS_Injection, IncrementalAssumption

\* A row has a number under either key.
LEMMA KeyTypes ==
  ASSUME TypeOK, NEW p \in Pks
  PROVE  /\ rows[p].id \in Nat /\ rows[p].updated \in Nat /\ rows[p].at \in Nat
         /\ rows[p]["id"] = rows[p].id /\ rows[p]["updated"] = rows[p].updated
         /\ \A k \in {"id", "updated"} : rows[p][k] \in Nat
  BY DEF TypeOK

LEMMA Bounds ==
  /\ 0 \in 0 .. StatePeriod - 1 /\ 0 \in 0 .. MAX_SYNC_RETRIES - 1
  /\ \A n \in Nat : (n + 1) % StatePeriod \in 0 .. StatePeriod - 1
<1>1. StatePeriod \in Nat \ {0} /\ MAX_SYNC_RETRIES \in Nat \ {0}
  BY IncrementalAssumption
<1> QED
  BY <1>1

-----------------------------------------------------------------------------
(* Types.                                                                   *)

LEMMA TypeInit == Init => TypeOK
<1> SUFFICES ASSUME Init PROVE TypeOK
  OBVIOUS
<1>1. key \in {"id", "updated"} /\ mode \in {"record", "jsonl", "arrow"} /\ now \in Nat
  BY IncrementalAssumption DEF Init
<1>2. saved \in Bookmark /\ bm \in Bookmark
  BY DEF Init, NoBookmark, Bookmark
<1>3. rows \in [Pks -> [id : Nat, updated : Nat, at : Nat]] /\ target \in [Pks -> [ver : Nat, at : Nat]]
  BY DEF Init, NoRow, Absent
<1> QED
  BY <1>1, <1>2, <1>3, Bounds DEF Init, TypeOK

LEMMA TypeStop ==
  ASSUME TypeOK, NEW status \in {0, 1}, NEW b \in Bookmark, Stop(status, b), faults' \in Nat
  PROVE  TypeOK'
  BY Bounds DEF TypeOK, Stop, serverVars, configVars

\* A write leaves every other row alone, and the row it writes has the latest values
\* of both keys, or none, or is an old row that keeps its id.
LEMMA WriteFacts ==
  ASSUME TypeOK, ServerNext
  PROVE  \E p \in Pks :
           /\ \A q \in Pks : q # p => rows'[q] = rows[q] /\ (q \in Live' <=> q \in Live)
           /\ rows' \in [Pks -> [id : Nat, updated : Nat, at : Nat]]
           /\ p \in Live' => /\ rows'[p].at = clock + 1
                             /\ rows'[p].updated = 0 \/ rows'[p].updated \in {now, now + 1}
                             /\ rows'[p].id = clock + 1 \/ (p \in Live /\ rows'[p].id = rows[p].id)
           /\ p \notin Live' => rows'[p] = NoRow
           /\ clock' = clock + 1 /\ now' \in {now, now + 1} /\ rows'[p].updated <= now'
           /\ UNCHANGED <<key, mode, saved, target, pc, exit, since, versions, bm, todo, buffer, count, checkpoint,
                          attempt, faults>>
<1> DEFINE Facts(p) ==
           /\ \A q \in Pks : q # p => rows'[q] = rows[q] /\ (q \in Live' <=> q \in Live)
           /\ rows' \in [Pks -> [id : Nat, updated : Nat, at : Nat]]
           /\ p \in Live' => /\ rows'[p].at = clock + 1
                             /\ rows'[p].updated = 0 \/ rows'[p].updated \in {now, now + 1}
                             /\ rows'[p].id = clock + 1 \/ (p \in Live /\ rows'[p].id = rows[p].id)
           /\ p \notin Live' => rows'[p] = NoRow
           /\ clock' = clock + 1 /\ now' \in {now, now + 1} /\ rows'[p].updated <= now'
           /\ UNCHANGED <<key, mode, saved, target, pc, exit, since, versions, bm, todo, buffer, count, checkpoint,
                          attempt, faults>>
<1>1. ASSUME NEW p \in Pks, NEW t \in Nat, NEW row \in [id : Nat, updated : Nat, at : Nat], Write(p, t, row)
      PROVE  /\ \A q \in Pks : q # p => rows'[q] = rows[q] /\ (q \in Live' <=> q \in Live)
             /\ rows' \in [Pks -> [id : Nat, updated : Nat, at : Nat]] /\ rows'[p] = row
             /\ (p \in Live' <=> row # NoRow)
             /\ clock' = clock + 1 /\ now' = (IF t = 0 THEN now ELSE t)
             /\ UNCHANGED <<key, mode, saved, target, pc, exit, since, versions, bm, todo, buffer, count, checkpoint,
                            attempt, faults>>
  <2>1. rows' = [rows EXCEPT ![p] = row] /\ rows \in [Pks -> [id : Nat, updated : Nat, at : Nat]]
    BY <1>1 DEF Write, TypeOK
  <2>2. rows'[p] = row /\ \A q \in Pks : q # p => rows'[q] = rows[q]
    BY <2>1
  <2>3. rows' \in [Pks -> [id : Nat, updated : Nat, at : Nat]]
    BY <2>1
  <2> QED
    BY <1>1, <2>2, <2>3 DEF Write, Live, configVars, queryVars
<1>2. now \in Nat /\ clock \in Nat
  BY DEF TypeOK
<1>3. ASSUME NEW p \in Pks, Delete(p) PROVE Facts(p)
  BY <1>1, <1>2, <1>3 DEF Delete, NoRow
<1>4. ASSUME NEW p \in Pks, NEW t \in {0, now, now + 1}, Insert(p, t) PROVE Facts(p)
  <2>1. [id |-> clock + 1, updated |-> t, at |-> clock + 1] \in [id : Nat, updated : Nat, at : Nat]
    BY <1>2
  <2> QED
    BY <1>1, <1>2, <1>4, <2>1 DEF Insert, NoRow
<1>5. ASSUME NEW p \in Pks, NEW t \in {now, now + 1}, Update(p, t) PROVE Facts(p)
  <2> DEFINE row == [rows[p] EXCEPT !.updated = t, !.at = clock + 1]
  <2>1. rows[p] \in [id : Nat, updated : Nat, at : Nat]
    BY DEF TypeOK
  <2>2. row \in [id : Nat, updated : Nat, at : Nat] /\ row.id = rows[p].id /\ row.updated = t /\ row.at = clock + 1
    <3>1. t \in Nat /\ clock + 1 \in Nat
      BY <1>2, <1>5
    <3> QED
      BY <2>1, <3>1
  <2>3. row # NoRow
    <3>1. NoRow.at = 0 /\ row.at # 0
      BY <1>2, <2>2 DEF NoRow
    <3> QED
      BY <3>1
  <2>4. Write(p, t, row) /\ p \in Live
    BY <1>5 DEF Update
  <2> HIDE DEF row
  <2> QED
    BY <1>1, <1>2, <1>5, <2>2, <2>3, <2>4
<1>6. \E p \in Pks : Facts(p)
  BY <1>3, <1>4, <1>5 DEF ServerNext
<1> QED
  BY <1>6

LEMMA TypeFetchRows ==
  ASSUME TypeOK, OneEach, FetchRows
  PROVE  TypeOK'
<1>1. PICK C \in SUBSET todo :
        /\ todo' = todo \ C
        /\ checkpoint' = Completes(C)
        /\ IF mode = "record" \/ checkpoint'
           THEN Emit(C)
           ELSE target' = target /\ buffer' = buffer \cup C
        /\ \E r \in C : bm' = [bm EXCEPT !.value = r.key]
  BY DEF FetchRows
<1>2. /\ C \in SUBSET RowOnItsWay /\ buffer \cup C \in SUBSET RowOnItsWay
      /\ target \in TargetTable /\ bm \in Bookmark /\ bm.version \in Nat
  BY DEF TypeOK, RowOnItsWay, TargetTable, Bookmark
<1>3. bm' \in Bookmark
  <2>1. PICK r \in C : bm' = [bm EXCEPT !.value = r.key]
    BY <1>1
  <2>2. r.key \in Nat
    BY <1>2 DEF RowOnItsWay
  <2> QED
    BY <1>2, <2>1, <2>2 DEF Bookmark
<1>4. \A r, q \in buffer \cup C : r.pk = q.pk => r = q
  BY DEF OneEach
<1>5. Deliver(target, buffer \cup C) \in TargetTable
  BY <1>2, <1>4, DeliverRows
<1>6. target' \in TargetTable /\ buffer' \subseteq RowOnItsWay
  BY <1>1, <1>2, <1>5 DEF Emit
<1>7. count' \in 0 .. StatePeriod - 1
  BY Bounds DEF FetchRows, TypeOK
<1>8. checkpoint' \in BOOLEAN
  <2>1. CASE mode = "record"
    BY <1>1, <2>1, Zenon DEF Completes
  <2>2. CASE mode # "record"
    <3>1. Cardinality(buffer \cup C) \in Nat /\ BatchSize \in Nat
      BY <1>2, <1>4, RowsFinite, FS_CardinalityType, IncrementalAssumption
    <3>2. checkpoint' = (Cardinality(buffer \cup C) >= BatchSize)
      BY <1>1, <2>2, Zenon DEF Completes
    <3> QED
      BY <3>1, <3>2
  <2> QED
    BY <2>1, <2>2
<1> QED
  BY <1>1, <1>2, <1>3, <1>6, <1>7, <1>8 DEF FetchRows, TypeOK, serverVars, configVars, RowOnItsWay, TargetTable

LEMMA StartRunBookmark ==
  ASSUME TypeOK, StartRun
  PROVE  /\ bm' \in Bookmark /\ bm'.key = key
         /\ bm'.value = IF saved.key = key THEN saved.value ELSE 0
         /\ bm'.version = IF saved.version # 0 THEN saved.version ELSE versions + 1
         /\ versions' = IF bm'.version > versions THEN bm'.version ELSE versions
         /\ target' = ActivateVersion(target, bm'.version)
<1>1. bm' = [KeyBookmark(saved) EXCEPT !.version = StreamVersion(saved)]
  BY DEF StartRun
<1>2. saved \in Bookmark /\ key \in {"id", "updated"} /\ versions \in Nat
  BY DEF TypeOK
<1>3. /\ KeyBookmark(saved) \in Bookmark /\ KeyBookmark(saved).key = key
      /\ KeyBookmark(saved).value = IF saved.key = key THEN saved.value ELSE 0
  BY <1>2 DEF KeyBookmark, Bookmark
<1>4. StreamVersion(saved) = (IF saved.version # 0 THEN saved.version ELSE versions + 1) /\ StreamVersion(saved) \in Nat
  BY <1>2 DEF StreamVersion, Bookmark
<1>5. bm' \in Bookmark /\ bm'.key = key /\ bm'.value = KeyBookmark(saved).value /\ bm'.version = StreamVersion(saved)
  BY <1>1, <1>3, <1>4 DEF Bookmark
<1> QED
  BY <1>3, <1>4, <1>5 DEF StartRun

LEMMA TypeStep ==
  ASSUME TypeOK, OneEach, [Next]_vars
  PROVE  TypeOK'
<1>1. CASE ServerNext
  BY <1>1, WriteFacts DEF TypeOK
<1>2. CASE ChangeKey
  BY <1>2 DEF ChangeKey, TypeOK, serverVars, queryVars
<1>3. CASE StartRun
  <2>1. bm' \in Bookmark /\ bm'.version \in Nat /\ versions' \in Nat
    BY <1>3, StartRunBookmark DEF Bookmark, TypeOK
  <2>2. target' \in [Pks -> [ver : Nat, at : Nat]]
    <3>1. target' = ActivateVersion(target, bm'.version) /\ target \in TargetTable
      BY <1>3, StartRunBookmark DEF TypeOK, TargetTable
    <3> QED
      BY <2>1, <3>1, ActivateVersionRows DEF TargetTable
  <2> QED
    BY <1>3, <2>1, <2>2, Bounds DEF StartRun, TypeOK, serverVars, configVars, queryVars
<1>4. CASE Execute
  <2>1. todo' \subseteq [pk : Pks, key : Nat, at : Nat]
    BY <1>4, KeyTypes DEF Execute, Selected, Live, TypeOK
  <2> QED
    BY <1>4, <2>1, Bounds DEF Execute, TypeOK, serverVars, configVars
<1>5. CASE FetchRows
  BY <1>5, TypeFetchRows
<1>6. CASE EmitState
  BY <1>6 DEF EmitState, TypeOK, serverVars, configVars, queryVars
<1>7. CASE EndQuery
  <2>1. buffer \cup {} \in SUBSET RowOnItsWay /\ \A r, q \in buffer \cup {} : r.pk = q.pk => r = q
    BY DEF TypeOK, OneEach, RowOnItsWay
  <2>2. target' = Deliver(target, buffer \cup {}) /\ target \in TargetTable /\ bm.version \in Nat
    BY <1>7 DEF EndQuery, Emit, TypeOK, TargetTable, Bookmark
  <2>3. target' \in TargetTable
    BY <2>1, <2>2, DeliverRows
  <2> QED
    BY <1>7, <2>3 DEF EndQuery, Emit, TypeOK, serverVars, configVars, TargetTable
<1>8. CASE ExitState
  BY <1>8, TypeStop DEF ExitState, TypeOK
<1>9. CASE ConnectionLost
  <2>1. CASE MayRetry
    <3>1. attempt' \in 0 .. MAX_SYNC_RETRIES - 1
      BY <1>9, <2>1, IncrementalAssumption DEF ConnectionLost, MayRetry, TypeOK
    <3>2. faults' \in Nat
      BY <1>9 DEF ConnectionLost, TypeOK
    <3> QED
      <4>1. /\ pc' = "execute" /\ todo' = {} /\ buffer' = {} /\ count' = 0 /\ checkpoint' = FALSE
            /\ UNCHANGED <<serverVars, configVars, saved, target, exit, since, versions, bm>>
        BY <1>9, <2>1 DEF ConnectionLost
      <4>2. UNCHANGED <<rows, now, clock, key, mode>>
        BY <4>1 DEF serverVars, configVars
      <4> QED
        BY <3>1, <3>2, <4>1, <4>2, Bounds DEF TypeOK
  <2>2. CASE ~MayRetry
    BY <1>9, <2>2, TypeStop DEF ConnectionLost, TypeOK
  <2> QED
    BY <2>1, <2>2
<1>10. CASE Crash
  BY <1>10, TypeStop DEF Crash, TypeOK
<1>11. CASE UNCHANGED vars
  BY <1>11 DEF TypeOK, vars, serverVars, configVars, queryVars
<1> QED
  BY <1>1, <1>2, <1>3, <1>4, <1>5, <1>6, <1>7, <1>8, <1>9, <1>10, <1>11 DEF Next, RunStep

LEMMA OneEachStep ==
  ASSUME TypeOK, OneEach, [Next]_vars
  PROVE  OneEach'
<1>1. todo' \cup buffer' \subseteq todo \cup buffer \/ Execute
  <2>1. ServerNext => UNCHANGED <<todo, buffer>>
    BY WriteFacts
  <2> QED
    BY <2>1 DEF Next, RunStep, ChangeKey, StartRun, FetchRows, Emit, EmitState, EndQuery, ExitState, ConnectionLost,
                Crash, Stop, vars, queryVars
<1>2. CASE todo' \cup buffer' \subseteq todo \cup buffer
  BY <1>2 DEF OneEach
<1>3. CASE Execute
  BY <1>3 DEF Execute, OneEach
<1> QED
  BY <1>1, <1>2, <1>3

-----------------------------------------------------------------------------
(* The steps preserve the invariant.                                        *)

Rest == Bounded /\ Marks /\ RowsOK /\ Covered /\ Promised /\ Complete

\* A write gives a row values that no bookmark has passed, or keeps its id.
LEMMA ServerKeeps ==
  ASSUME IInv, ServerNext
  PROVE  Rest'
<1>1. PICK p \in Pks :
        /\ \A q \in Pks : q # p => rows'[q] = rows[q] /\ (q \in Live' <=> q \in Live)
        /\ rows' \in [Pks -> [id : Nat, updated : Nat, at : Nat]]
        /\ p \in Live' => /\ rows'[p].at = clock + 1
                          /\ rows'[p].updated = 0 \/ rows'[p].updated \in {now, now + 1}
                          /\ rows'[p].id = clock + 1 \/ (p \in Live /\ rows'[p].id = rows[p].id)
        /\ p \notin Live' => rows'[p] = NoRow
        /\ clock' = clock + 1 /\ now' \in {now, now + 1} /\ rows'[p].updated <= now'
        /\ UNCHANGED <<key, mode, saved, target, pc, exit, since, versions, bm, todo, buffer, count, checkpoint,
                       attempt, faults>>
  BY WriteFacts DEF IInv
<1>2. /\ clock \in Nat /\ now \in Nat \ {0} /\ since \in Nat /\ since <= clock /\ key \in {"id", "updated"}
      /\ saved \in Bookmark /\ bm \in Bookmark
      /\ todo \cup buffer \subseteq RowOnItsWay /\ \A r \in todo : r.key <= Latest(key)
  BY DEF IInv, TypeOK, Bounded, RowOnItsWay
<1>3. \A k \in {"id", "updated"} : Latest(k) \in Nat /\ Latest(k)' \in Nat /\ Latest(k) <= Latest(k)'
  BY <1>1, <1>2 DEF Latest
<1>4. /\ \A q \in Pks : \A k \in {"id", "updated"} : rows[q][k] \in Nat /\ rows'[q][k] \in Nat
      /\ \A q \in Pks : rows[q].at \in Nat /\ rows'[q].at \in Nat
  BY <1>1, KeyTypes DEF IInv
<1>5. ASSUME p \in Live', NEW k \in {"id", "updated"}
      PROVE  \/ rows'[p][k] = 0
             \/ rows'[p][k] >= Latest(k)
             \/ k = "id" /\ p \in Live /\ rows'[p][k] = rows[p][k]
  <2>1. CASE k = "updated"
    BY <1>1, <1>2, <1>5, <2>1 DEF Latest
  <2>2. CASE k = "id"
    BY <1>1, <1>2, <1>5, <2>2 DEF Latest
  <2> QED
    BY <2>1, <2>2
<1>6. Live \subseteq Pks /\ Live' \subseteq Pks
  BY DEF Live
<1> DEFINE Known(b) == /\ b.key # "none" => b.key \in {"id", "updated"} /\ b.value <= Latest(b.key)
                       /\ b.value \in Nat
                       /\ b.value # 0 => b.key # "none"
<1>7. Known(saved) /\ Known(bm)
  BY <1>2 DEF IInv, Bounded, WellFormed, Bookmark
<1>8. Bounded'
  <2>1. \A q \in Pks : rows'[q].id <= clock' /\ rows'[q].updated <= now' /\ rows'[q].at <= clock'
    <3>1. \A q \in Pks : rows[q].id <= clock /\ rows[q].updated <= now /\ rows[q].at <= clock
      BY DEF IInv, Bounded
    <3>2. \A q \in Pks : rows[q].id \in Nat /\ rows[q].updated \in Nat /\ rows[q].at \in Nat
      BY KeyTypes DEF IInv
    <3>3. p \notin Live' => rows'[p].id = 0 /\ rows'[p].updated = 0 /\ rows'[p].at = 0
      BY <1>1 DEF NoRow
    <3> QED
      BY <1>1, <1>2, <3>1, <3>2, <3>3
  <2>2. ASSUME NEW b \in Bookmark, WellFormed(b)
        PROVE  /\ b.version <= versions /\ b.value # 0 => b.version # 0 /\ b.key # "none"
               /\ b.key # "none" => b.value <= (IF b.key = "id" THEN clock' ELSE now')
    BY <1>1, <1>2, <2>2 DEF WellFormed, Latest, Bookmark
  <2>4. WellFormed(saved)' /\ WellFormed(bm)'
    <3>1. WellFormed(saved) /\ WellFormed(bm)
      BY DEF IInv, Bounded
    <3> QED
      BY <1>1, <1>2, <2>2, <3>1 DEF WellFormed, Latest
  <2>3. \A r \in todo : r.key <= Latest(key)'
    <3>1. Latest(key) \in Nat /\ Latest(key)' \in Nat /\ Latest(key) <= Latest(key)'
      BY <1>1, <1>2 DEF Latest
    <3>2. \A r \in todo : r.key \in Nat /\ r.key <= Latest(key)
      BY <1>2 DEF RowOnItsWay
    <3> QED
      BY <3>1, <3>2
  <2> QED
    BY <1>1, <1>2, <2>1, <2>3, <2>4 DEF IInv, Bounded
<1>9. Marks'
  BY <1>1 DEF IInv, Marks
<1>10. ASSUME NEW b, Known(b), b.value # 0, p \in Live', rows'[p][b.key] # 0, rows'[p][b.key] < b.value
       PROVE  b.key = "id" /\ p \in Live /\ rows'[p][b.key] = rows[p][b.key]
  <2>1. b.key \in {"id", "updated"} /\ b.value <= Latest(b.key) /\ b.value \in Nat
    BY <1>10
  <2>2. ~(rows'[p][b.key] >= Latest(b.key))
    BY <1>3, <1>4, <1>10, <2>1
  <2> QED
    BY <1>5, <1>10, <2>1, <2>2
<1>11. \A r \in todo \cup buffer : r.pk \in Pks /\ r.key \in Nat
  BY <1>2 DEF RowOnItsWay
<1>12. RowsOK'
  <2>1. ASSUME NEW r \in todo \cup buffer, r.pk \in Live'
        PROVE  Current(r)' \/ Rewritten(r.pk)'
    <3>1. CASE r.pk # p
      <4>1. Current(r) \/ Rewritten(r.pk)
        BY <1>1, <1>11, <2>1, <3>1 DEF IInv, RowsOK
      <4> QED
        BY <1>1, <1>11, <2>1, <3>1, <4>1 DEF Current, Rewritten
    <3>2. CASE r.pk = p
      <4>1. rows'[p].at > since
        BY <1>1, <1>2, <2>1, <3>2
      <4>2. CASE rows'[p][key] = 0
        BY <1>1, <3>2, <4>1, <4>2 DEF Rewritten
      <4>3. CASE rows'[p][key] >= Latest(key)
        <5>1. rows'[p][key] \in Nat /\ Latest(key) \in Nat /\ bm.value \in Nat
          BY <1>2, <1>3, <1>4, <1>7
        <5>2. pc = "off" \/ bm.value <= Latest(key)
          BY <1>2, <1>7 DEF IInv, Marks
        <5>3. pc = "off" => todo \cup buffer = {}
          BY DEF IInv, RowsOK
        <5>4. rows'[p][key] >= bm.value /\ \A q \in todo : rows'[p][key] >= q.key
          BY <1>2, <1>11, <2>1, <4>3, <5>1, <5>2, <5>3
        <5> QED
          BY <1>1, <3>2, <4>1, <5>4 DEF Rewritten
      <4>4. CASE key = "id" /\ p \in Live /\ rows'[p][key] = rows[p][key]
        <5>1. Current(r) \/ Rewritten(p)
          BY <3>2, <4>4 DEF IInv, RowsOK
        <5>2. CASE Current(r)
          BY <1>1, <2>1, <3>2, <4>4, <5>2 DEF Current
        <5>3. CASE Rewritten(p)
          BY <1>1, <3>2, <4>1, <4>4, <5>3 DEF Rewritten
        <5> QED
          BY <5>1, <5>2, <5>3
      <4> QED
        BY <1>2, <1>5, <2>1, <3>2, <4>2, <4>3, <4>4
    <3> QED
      BY <3>1, <3>2
  <2>2. ASSUME NEW r \in todo \cup buffer, r.pk \in Live', saved.key = "updated",
               rows'[r.pk]["updated"] # 0, rows'[r.pk]["updated"] < saved.value
        PROVE  r.at = rows'[r.pk].at
    <3>1. r.pk # p
      <4>1. saved.value # 0
        BY <1>4, <1>6, <1>7, <2>2
      <4> QED
        BY <1>7, <1>10, <2>2, <4>1
    <3>2. r.pk \in Live /\ rows'[r.pk] = rows[r.pk]
      BY <1>1, <1>11, <2>2, <3>1
    <3> QED
      BY <2>2, <3>2 DEF IInv, RowsOK, Behind
  <2>3. \A r \in todo' \cup buffer' : r.pk \in Live' => Current(r)' \/ Rewritten(r.pk)'
    BY <1>1, <2>1
  <2>4. \A r \in todo' \cup buffer' :
          r.pk \in Live' /\ saved'.key = "updated" /\ Behind(r.pk, saved)' => r.at = rows'[r.pk].at
    BY <1>1, <2>2 DEF Behind
  <2> QED
    BY <1>1, <2>3, <2>4 DEF IInv, RowsOK, OneEach
<1>13. Covered'
  <2>1. SUFFICES ASSUME pc # "off", NEW q \in Live', Due(q)'
                 PROVE  Got(q, key, bm.version)' \/ \E r \in todo' \cup buffer' : r.pk = q /\ Current(r)'
    BY <1>1 DEF Covered
  <2>2. bm.key = key
    BY <2>1 DEF IInv, Marks
  <2>3. CASE q # p
    <3>1. q \in Live /\ rows'[q] = rows[q]
      BY <1>1, <1>6, <2>1, <2>3
    <3>2. Due(q)
      BY <1>1, <2>1, <3>1 DEF Due, Behind, Within
    <3>3. Got(q, key, bm.version) \/ \E r \in todo \cup buffer : r.pk = q /\ Current(r)
      BY <2>1, <3>1, <3>2 DEF IInv, Covered
    <3> QED
      BY <1>1, <2>1, <3>1, <3>3 DEF Got, Current
  <2>4. CASE q = p
    <3>1. ~(rows'[p].at <= since)
      BY <1>1, <1>2, <2>1, <2>4
    <3>2. rows'[p][key] # 0 /\ (rows'[p][key] < bm.value \/ \E r \in todo : rows'[p][key] < r.key)
      BY <1>1, <2>1, <2>2, <2>4, <3>1 DEF Due, Behind
    <3>3. rows'[p][key] < Latest(key)
      <4>1. bm.value <= Latest(key) /\ bm.value \in Nat /\ Latest(key) \in Nat /\ rows'[p][key] \in Nat
        BY <1>2, <1>3, <1>4, <1>7, <2>2
      <4> QED
        BY <1>2, <1>11, <3>2, <4>1
    <3>4. key = "id" /\ p \in Live /\ rows'[p][key] = rows[p][key]
      BY <1>2, <1>3, <1>4, <1>5, <2>1, <2>4, <3>2, <3>3
    <3>5. Due(p)
      BY <2>2, <3>2, <3>4 DEF Due, Behind
    <3>6. Got(p, key, bm.version) \/ \E r \in todo \cup buffer : r.pk = p /\ Current(r)
      BY <2>1, <3>4, <3>5 DEF IInv, Covered
    <3> QED
      BY <1>1, <2>1, <2>4, <3>4, <3>6 DEF Got, Current
  <2> QED
    BY <2>3, <2>4
<1>14. Promised'
  <2>1. SUFFICES ASSUME saved.value # 0, NEW q \in Live', rows'[q][saved.key] # 0, rows'[q][saved.key] < saved.value
                 PROVE  Got(q, saved.key, saved.version)'
    BY <1>1 DEF Promised, Behind
  <2>2. CASE q # p
    <3>1. q \in Live /\ rows'[q] = rows[q]
      BY <1>1, <1>6, <2>1, <2>2
    <3>2. Got(q, saved.key, saved.version)
      BY <2>1, <3>1 DEF IInv, Promised, Behind
    <3> QED
      BY <1>1, <3>1, <3>2 DEF Got
  <2>3. CASE q = p
    <3>1. saved.key = "id" /\ p \in Live /\ rows'[p][saved.key] = rows[p][saved.key]
      BY <1>7, <1>10, <2>1, <2>3
    <3>2. Got(p, saved.key, saved.version)
      BY <2>1, <2>3, <3>1 DEF IInv, Promised, Behind
    <3> QED
      BY <1>1, <2>3, <3>1, <3>2 DEF Got
  <2> QED
    BY <2>2, <2>3
<1>15. Complete'
  <2>1. SUFFICES ASSUME exit = 0, NEW q \in Live', Within(q, saved)', rows'[q].at <= since
                 PROVE  Has(q, saved.key)'
    BY <1>1 DEF Complete
  <2>2. q # p
    BY <1>1, <1>2, <2>1
  <2>3. q \in Live /\ rows'[q] = rows[q]
    BY <1>1, <1>6, <2>1, <2>2
  <2>4. Has(q, saved.key)
    BY <1>1, <2>1, <2>3 DEF IInv, Complete, Within
  <2> QED
    BY <1>1, <2>3, <2>4 DEF Has
<1> QED
  BY <1>8, <1>9, <1>12, <1>13, <1>14, <1>15 DEF Rest

\* The types that the arguments below keep using.
LEMMA Types ==
  ASSUME IInv
  PROVE  /\ key \in {"id", "updated"} /\ versions \in Nat /\ clock \in Nat /\ now \in Nat /\ since \in Nat
         /\ saved.key \in {"none", "id", "updated"} /\ saved.value \in Nat /\ saved.version \in Nat
         /\ bm.key \in {"none", "id", "updated"} /\ bm.value \in Nat /\ bm.version \in Nat
         /\ saved \in Bookmark /\ bm \in Bookmark /\ target \in TargetTable
         /\ todo \subseteq RowOnItsWay /\ buffer \subseteq RowOnItsWay
         /\ \A r \in todo \cup buffer : r.pk \in Pks /\ r.key \in Nat /\ r.at \in Nat
         /\ \A p \in Pks : rows[p][key] \in Nat /\ rows[p].at \in Nat
         /\ Live \subseteq Pks
<1>1. /\ key \in {"id", "updated"} /\ versions \in Nat /\ clock \in Nat /\ now \in Nat /\ since \in Nat
      /\ saved \in Bookmark /\ bm \in Bookmark /\ target \in TargetTable
      /\ todo \subseteq RowOnItsWay /\ buffer \subseteq RowOnItsWay
  BY DEF IInv, TypeOK, RowOnItsWay, TargetTable
<1>2. \A r \in todo \cup buffer : r.pk \in Pks /\ r.key \in Nat /\ r.at \in Nat
  BY <1>1 DEF RowOnItsWay
<1>3. \A p \in Pks : rows[p][key] \in Nat /\ rows[p].at \in Nat
  BY <1>1, KeyTypes DEF IInv
<1> QED
  BY <1>1, <1>2, <1>3 DEF Bookmark, Live

\* A row that has to be at the target has not been rewritten since it was read.
LEMMA DueIsCurrent ==
  ASSUME IInv, pc # "off", NEW r \in todo \cup buffer, r.pk \in Live, Due(r.pk)
  PROVE  Current(r)
<1>1. bm.key = key
  BY DEF IInv, Marks
<1>2. Current(r) \/ Rewritten(r.pk)
  BY DEF IInv, RowsOK
<1>3. ASSUME Rewritten(r.pk) PROVE FALSE
  <2>1. /\ rows[r.pk][key] \in Nat /\ rows[r.pk].at \in Nat /\ since \in Nat /\ bm.value \in Nat
        /\ \A q \in todo : q.key \in Nat
    BY Types
  <2> QED
    BY <1>1, <1>3, <2>1 DEF Rewritten, Due, Behind
<1> QED
  BY <1>2, <1>3

\* A row behind the bookmark of the run is at the target once no batch is buffered.
LEMMA BehindIsGot ==
  ASSUME IInv, pc # "off", buffer = {}, NEW p \in Live, Behind(p, bm)
  PROVE  Got(p, key, bm.version)
<1>1. bm.key = key
  BY DEF IInv, Marks
<1>2. Got(p, key, bm.version) \/ \E r \in todo : r.pk = p /\ Current(r)
  BY DEF IInv, Covered, Due
<1>3. ASSUME NEW r \in todo, r.pk = p, Current(r) PROVE FALSE
  <2>1. r.key >= bm.value /\ r.key = rows[p][key] /\ rows[p][key] < bm.value
    BY <1>1, <1>3 DEF IInv, RowsOK, Current, Behind
  <2>2. r.key \in Nat /\ bm.value \in Nat
    BY Types
  <2> QED
    BY <2>1, <2>2
<1> QED
  BY <1>2, <1>3

\* Rows that reach the target: what had to be there stays, or is still on its way.
LEMMA EmitRows ==
  ASSUME IInv, pc # "off", NEW R \in SUBSET (todo \cup buffer), target' = Deliver(target, R)
  PROVE  /\ \A p \in Live : Due(p) => \/ /\ target'[p].ver = bm.version
                                         /\ key = "updated" => target'[p].at = rows[p].at
                                      \/ \E r \in (todo \cup buffer) \ R : r.pk = p /\ Current(r)
         /\ saved.value # 0 =>
              \A p \in Live : Behind(p, saved) => /\ target'[p].ver = saved.version
                                                  /\ saved.key = "updated" => target'[p].at = rows[p].at
         /\ \A p \in Pks : target'[p].ver <= versions
<1>1. /\ target' \in TargetTable
      /\ \A r \in R : target'[r.pk] = [ver |-> bm.version, at |-> r.at]
      /\ \A p \in Pks : (\A r \in R : r.pk # p) => target'[p] = target[p]
  <2>1. /\ R \in SUBSET RowOnItsWay /\ target \in TargetTable /\ bm.version \in Nat
        /\ \A r, q \in R : r.pk = q.pk => r = q
    BY Types DEF IInv, RowsOK, OneEach
  <2> QED
    BY <2>1, DeliverRows, ZenonT(30)
<1>2. ASSUME NEW p \in Live, Due(p)
      PROVE  \/ /\ target'[p].ver = bm.version
                /\ key = "updated" => target'[p].at = rows[p].at
             \/ \E r \in (todo \cup buffer) \ R : r.pk = p /\ Current(r)
  <2>1. CASE \E r \in R : r.pk = p
    <3>1. PICK r \in R : r.pk = p
      BY <2>1
    <3>2. Current(r)
      BY <1>2, <3>1, DueIsCurrent
    <3>3. target'[p] = [ver |-> bm.version, at |-> r.at]
      BY <1>1, <3>1
    <3> QED
      BY <3>1, <3>2, <3>3 DEF Current
  <2>2. CASE \A r \in R : r.pk # p
    <3>1. target'[p] = target[p]
      BY <1>1, <2>2 DEF Live
    <3>2. Got(p, key, bm.version) \/ \E r \in todo \cup buffer : r.pk = p /\ Current(r)
      BY <1>2 DEF IInv, Covered
    <3> QED
      BY <2>2, <3>1, <3>2 DEF Got
  <2> QED
    BY <2>1, <2>2
<1>3. ASSUME saved.value # 0, NEW p \in Live, Behind(p, saved)
      PROVE  /\ target'[p].ver = saved.version
             /\ saved.key = "updated" => target'[p].at = rows[p].at
  <2>1. CASE \E r \in R : r.pk = p
    <3>1. PICK r \in R : r.pk = p
      BY <2>1
    <3>2. saved.key = "updated" => r.at = rows[p].at
      BY <1>3, <3>1 DEF IInv, RowsOK
    <3>3. target'[p] = [ver |-> bm.version, at |-> r.at]
      BY <1>1, <3>1
    <3>4. saved.version = bm.version
      BY <1>3 DEF IInv, Bounded, WellFormed, Marks
    <3> QED
      BY <3>2, <3>3, <3>4
  <2>2. CASE \A r \in R : r.pk # p
    <3>1. target'[p] = target[p]
      BY <1>1, <2>2 DEF Live
    <3> QED
      BY <1>3, <3>1 DEF IInv, Promised, Got
  <2> QED
    BY <2>1, <2>2
<1>4. ASSUME NEW p \in Pks PROVE target'[p].ver <= versions
  <2>1. CASE \E r \in R : r.pk = p
    <3>1. PICK r \in R : r.pk = p
      BY <2>1
    <3>2. target'[p] = [ver |-> bm.version, at |-> r.at]
      BY <1>1, <3>1
    <3>3. target'[p].ver = bm.version
      BY <3>2
    <3> QED
      BY <3>3 DEF IInv, Bounded, WellFormed
  <2>2. CASE \A r \in R : r.pk # p
    BY <1>1, <2>2 DEF IInv, Bounded
  <2> QED
    BY <2>1, <2>2
<1> QED
  BY <1>2, <1>3, <1>4

\* Between two runs no row is on its way, under any key.
LEMMA ChangeKeyKeeps ==
  ASSUME IInv, ChangeKey
  PROVE  Rest'
<1>1. /\ pc = "off" /\ todo = {} /\ buffer = {}
      /\ UNCHANGED <<rows, now, clock, mode, saved, target, pc, exit, since, versions, bm, todo, buffer>>
  BY DEF IInv, RowsOK, ChangeKey, serverVars, queryVars
<1>2. Bounded'
  BY <1>1 DEF IInv, Bounded, WellFormed, Latest
<1>3. Marks' /\ RowsOK' /\ Covered'
  BY <1>1 DEF IInv, Marks, RowsOK, OneEach, Covered
<1>4. Promised' /\ Complete'
  BY <1>1 DEF IInv, Promised, Complete, Behind, Got, Within, Has, Live
<1> QED
  BY <1>2, <1>3, <1>4 DEF Rest

\* The run takes the promise of the bookmark over: its version is the one that the
\* target keeps.
LEMMA StartRunKeeps ==
  ASSUME IInv, StartRun
  PROVE  Rest'
<1>1. /\ pc = "off" /\ todo = {} /\ buffer = {} /\ bm = saved
      /\ pc' = "execute" /\ exit' = 1 /\ since' = clock
      /\ UNCHANGED <<rows, now, clock, key, mode, saved, todo, buffer>>
  BY DEF IInv, RowsOK, Marks, StartRun, serverVars, configVars, queryVars
<1>2. /\ bm'.key = key
      /\ bm'.value = IF saved.key = key THEN saved.value ELSE 0
      /\ bm'.version = IF saved.version # 0 THEN saved.version ELSE versions + 1
      /\ versions' = IF bm'.version > versions THEN bm'.version ELSE versions
      /\ target' = ActivateVersion(target, bm'.version)
  BY StartRunBookmark DEF IInv
<1>3. /\ key \in {"id", "updated"} /\ versions \in Nat /\ clock \in Nat /\ now \in Nat
      /\ saved.value \in Nat /\ saved.version \in Nat /\ target \in TargetTable
  BY Types
<1>4. bm'.version \in Nat \ {0} /\ versions' \in Nat /\ versions <= versions' /\ bm'.version <= versions'
  BY <1>2, <1>3
<1>5. /\ \A p \in Pks : target[p].ver = bm'.version => target'[p] = target[p]
      /\ \A p \in Pks : target'[p].ver \in {0, bm'.version}
  BY <1>2, <1>3, <1>4, ActivateVersionRows
<1>6. WellFormed(saved)
  BY DEF IInv, Bounded
<1>7. Bounded'
  <2>1. WellFormed(saved)'
    BY <1>1, <1>3, <1>4, <1>6 DEF WellFormed, Latest
  <2>2. WellFormed(bm)'
    BY <1>1, <1>2, <1>3, <1>4, <1>6 DEF WellFormed, Latest
  <2>3. \A p \in Pks : target'[p].ver <= versions'
    BY <1>4, <1>5
  <2>4. since' <= clock'
    BY <1>1, <1>3
  <2> QED
    BY <1>1, <2>1, <2>2, <2>3, <2>4 DEF IInv, Bounded
<1>8. Marks'
  BY <1>1, <1>2, <1>3, <1>4 DEF IInv, Marks
<1>9. RowsOK'
  BY <1>1 DEF RowsOK, OneEach
<1>10. ASSUME NEW p \in Live, saved.value # 0, Behind(p, saved)
       PROVE  Got(p, saved.key, saved.version) /\ saved.version = bm'.version /\ target'[p] = target[p]
  BY <1>2, <1>5, <1>6, <1>10 DEF IInv, Promised, Got, WellFormed, Live
<1>11. Live' = Live
  BY <1>1 DEF Live
<1>12. Covered'
  <2>1. SUFFICES ASSUME NEW p \in Live, Due(p)'
                 PROVE  Got(p, key, bm.version)'
    BY <1>11 DEF Covered
  <2>2. rows[p][key] # 0 /\ rows[p][key] < bm'.value
    BY <1>1, <1>2, <2>1 DEF Due, Behind
  <2>3. saved.key = key /\ saved.value = bm'.value /\ saved.value # 0
    <3>1. rows[p][key] \in Nat
      BY Types
    <3> QED
      BY <1>2, <1>3, <2>2, <3>1
  <2> QED
    BY <1>1, <1>10, <2>2, <2>3 DEF Got, Behind
<1>13. Promised'
  BY <1>1, <1>10, <1>11 DEF Promised, Got, Behind
<1>14. Complete'
  BY <1>1 DEF Complete
<1> QED
  BY <1>7, <1>8, <1>9, <1>12, <1>13, <1>14 DEF Rest

\* The query selects every row that the bookmark has not passed.
LEMMA ExecuteKeeps ==
  ASSUME IInv, Execute
  PROVE  Rest'
<1>1. /\ pc = "execute" /\ todo = {} /\ buffer = {} /\ pc' = "rows" /\ buffer' = {} /\ bm.key = key
      /\ todo' = {[pk |-> p, key |-> rows[p][key], at |-> rows[p].at] : p \in Selected}
      /\ UNCHANGED <<rows, now, clock, key, mode, saved, target, exit, since, versions, bm>>
  BY DEF IInv, RowsOK, Marks, Execute, serverVars, configVars
<1>2. Live' = Live /\ Selected \subseteq Live
  BY <1>1 DEF Live, Selected
<1>3. \A r \in todo' : r.pk \in Selected /\ r.key = rows[r.pk][key] /\ r.at = rows[r.pk].at
  BY <1>1
<1>4. ASSUME NEW p \in Selected
      PROVE  \E r \in todo' : r.pk = p /\ r.key = rows[p][key] /\ r.at = rows[p].at
  <2>1. [pk |-> p, key |-> rows[p][key], at |-> rows[p].at] \in todo'
    BY <1>1
  <2> QED
    BY <2>1
<1>5. \A p \in Pks : rows[p][key] \in Nat /\ rows[p][key] <= Latest(key)
  <2>1. \A p \in Pks : rows[p].id <= clock /\ rows[p].updated <= now
    BY DEF IInv, Bounded
  <2> QED
    BY <2>1, Types, KeyTypes DEF IInv, Latest
<1>6. Bounded'
  <2>1. \A r \in todo' : r.key <= Latest(key)
    BY <1>2, <1>3, <1>5 DEF Live
  <2> QED
    BY <1>1, <2>1 DEF IInv, Bounded, WellFormed, Latest
<1>7. Marks'
  BY <1>1 DEF IInv, Marks
<1>8. \A r \in todo' : Current(r)'
  BY <1>1, <1>2, <1>3 DEF Current
<1>9. RowsOK'
  <2>1. \A r, q \in todo' : r.pk = q.pk => r = q
    BY <1>1
  <2>2. \A r \in todo' : r.key >= bm.value
    BY <1>2, <1>3, <1>5, Types DEF Selected
  <2> QED
    BY <1>1, <1>3, <1>8, <2>1, <2>2 DEF RowsOK, OneEach
<1>10. Covered'
  <2>1. SUFFICES ASSUME NEW p \in Live, Due(p)', p \notin Selected
                 PROVE  Got(p, key, bm.version)
    BY <1>1, <1>2, <1>4, <1>8 DEF Covered, Got
  <2>2. bm.value # 0 /\ rows[p][key] < bm.value
    BY <1>5, <2>1, Types DEF Selected, Live
  <2>3. rows[p][key] # 0
    BY <1>1, <2>1, <2>2 DEF Due, Behind, Within
  <2> QED
    BY <1>1, <2>2, <2>3, BehindIsGot DEF Behind
<1>11. Promised' /\ Complete'
  BY <1>1 DEF IInv, Promised, Complete, Behind, Got, Within, Has, Live
<1> QED
  BY <1>6, <1>7, <1>9, <1>10, <1>11 DEF Rest

\* The bookmark moves to the last of the rows that were written: the rows still to
\* come have no smaller value of the key.
LEMMA FetchRowsKeeps ==
  ASSUME IInv, FetchRows
  PROVE  Rest'
<1>1. PICK C \in SUBSET todo :
        /\ Fetched(C)
        /\ todo' = todo \ C
        /\ checkpoint' = Completes(C)
        /\ IF mode = "record" \/ checkpoint'
           THEN Emit(C)
           ELSE target' = target /\ buffer' = buffer \cup C
        /\ \E r \in C : /\ \A q \in C : q.key <= r.key
                        /\ bm' = [bm EXCEPT !.value = r.key]
  BY DEF FetchRows
<1>2. PICK last \in C : (\A q \in C : q.key <= last.key) /\ bm' = [bm EXCEPT !.value = last.key]
  BY <1>1
<1>3. /\ pc = "rows" /\ pc' = (IF checkpoint' THEN "state" ELSE "rows") /\ bm.key = key /\ bm.version # 0 /\ exit # 0
      /\ UNCHANGED <<rows, now, clock, key, mode, saved, exit, since, versions>>
  BY DEF IInv, Marks, FetchRows, serverVars, configVars
<1>4. Live' = Live
  BY <1>3 DEF Live
<1>5. /\ last \in todo /\ last.key \in Nat /\ bm.value \in Nat /\ saved.value \in Nat /\ key \in {"id", "updated"}
      /\ clock \in Nat /\ now \in Nat
      /\ \A r \in todo \cup buffer : r.key \in Nat
      /\ \A p \in Live : rows[p][key] \in Nat
  BY <1>1, <1>2, Types
<1>6. /\ bm'.key = key /\ bm'.version = bm.version /\ bm'.value = last.key
      /\ bm.value <= last.key /\ last.key <= Latest(key)
  <2>1. bm'.key = bm.key /\ bm'.version = bm.version /\ bm'.value = last.key
    BY <1>2, Types DEF Bookmark
  <2> QED
    BY <1>3, <1>5, <2>1 DEF IInv, RowsOK, Bounded
<1>7. todo' \subseteq todo /\ todo' \cup buffer' \subseteq todo \cup buffer
  BY <1>1 DEF Emit
<1>8. \A r \in todo' : last.key <= r.key
  BY <1>1, <1>2 DEF Fetched
<1>9. /\ \A p \in Live : Due(p) => Got(p, key, bm.version)' \/ \E r \in todo' \cup buffer' : r.pk = p /\ Current(r)
      /\ saved.value # 0 => \A p \in Live : Behind(p, saved) => Got(p, saved.key, saved.version)'
      /\ \A p \in Pks : target'[p].ver <= versions
  <2>1. CASE mode = "record" \/ checkpoint'
    <3>1. target' = Deliver(target, buffer \cup C) /\ buffer' = {} /\ buffer \cup C \in SUBSET (todo \cup buffer)
      BY <1>1, <2>1 DEF Emit
    <3>2. (todo \cup buffer) \ (buffer \cup C) \subseteq todo'
      BY <1>1
    <3>3. /\ \A p \in Live : Due(p) => \/ /\ target'[p].ver = bm.version
                                          /\ key = "updated" => target'[p].at = rows[p].at
                                       \/ \E r \in todo' : r.pk = p /\ Current(r)
          /\ saved.value # 0 =>
               \A p \in Live : Behind(p, saved) => /\ target'[p].ver = saved.version
                                                   /\ saved.key = "updated" => target'[p].at = rows[p].at
          /\ \A p \in Pks : target'[p].ver <= versions
      BY <1>3, <3>1, <3>2, EmitRows
    <3> QED
      BY <1>3, <1>6, <3>3 DEF Got
  <2>2. CASE ~(mode = "record" \/ checkpoint')
    <3>1. target' = target /\ todo' \cup buffer' = todo \cup buffer
      BY <1>1, <2>2
    <3> QED
      BY <1>3, <1>6, <3>1 DEF IInv, Covered, Promised, Got, Bounded
  <2> QED
    BY <2>1, <2>2
<1>10. Bounded'
  <2>1. WellFormed(saved)'
    BY <1>3 DEF IInv, Bounded, WellFormed, Latest
  <2>2. WellFormed(bm)'
    <3>1. bm'.version <= versions /\ bm'.version # 0 /\ bm'.key # "none"
      BY <1>3, <1>5, <1>6 DEF IInv, Bounded, WellFormed
    <3>2. bm'.value <= (IF bm'.key = "id" THEN clock' ELSE now')
      BY <1>3, <1>6 DEF Latest
    <3> QED
      BY <1>3, <3>1, <3>2 DEF WellFormed, Latest
  <2>3. \A r \in todo' : r.key <= Latest(key)'
    BY <1>3, <1>7 DEF IInv, Bounded, Latest
  <2> QED
    BY <1>3, <1>9, <2>1, <2>2, <2>3 DEF IInv, Bounded
<1>11. Marks'
  BY <1>3, <1>5, <1>6 DEF IInv, Marks
<1>12. RowsOK'
  <2>1. ASSUME NEW r \in todo' \cup buffer', r.pk \in Live PROVE Current(r)' \/ Rewritten(r.pk)'
    <3>1. Current(r) \/ Rewritten(r.pk)
      BY <1>7, <2>1 DEF IInv, RowsOK
    <3>2. CASE Current(r)
      BY <1>3, <1>4, <3>2 DEF Current
    <3>3. CASE Rewritten(r.pk)
      BY <1>3, <1>5, <1>6, <1>7, <3>3 DEF Rewritten
    <3> QED
      BY <3>1, <3>2, <3>3
  <2>2. \A r, q \in todo' \cup buffer' : r.pk = q.pk => r = q
    BY <1>7 DEF IInv, RowsOK, OneEach
  <2>3. \A r \in todo' \cup buffer' :
          r.pk \in Live' /\ saved'.key = "updated" /\ Behind(r.pk, saved)' => r.at = rows'[r.pk].at
    BY <1>3, <1>4, <1>7 DEF IInv, RowsOK, Behind
  <2>4. pc' # "rows" \/ mode' = "record" => buffer' = {}
    BY <1>1, <1>3 DEF Emit
  <2>5. \A r \in todo' : r.key >= bm'.value
    BY <1>5, <1>6, <1>7, <1>8
  <2> QED
    BY <1>3, <1>4, <2>1, <2>2, <2>3, <2>4, <2>5 DEF RowsOK, OneEach
<1>13. Covered'
  <2>1. ASSUME NEW p \in Live, Due(p)' PROVE Due(p)
    <3>1. rows[p][key] \in Nat
      BY <1>5
    <3> QED
      BY <1>3, <1>5, <1>6, <1>7, <2>1, <3>1 DEF Due, Behind, Within
  <2>2. \A r \in todo' \cup buffer' : Current(r) => Current(r)'
    BY <1>3, <1>4 DEF Current
  <2> QED
    BY <1>4, <1>9, <1>3, <2>1, <2>2 DEF Covered
<1>14. Promised'
  BY <1>3, <1>4, <1>9 DEF Promised, Behind
<1>15. Complete'
  BY <1>3 DEF Complete
<1> QED
  BY <1>10, <1>11, <1>12, <1>13, <1>14, <1>15 DEF Rest

\* The bookmark is emitted once the rows it stands for are at the target.
LEMMA EmitStateKeeps ==
  ASSUME IInv, EmitState
  PROVE  Rest'
<1>1. /\ pc \in {"state", "laststate"} /\ pc' = (IF pc = "state" THEN "rows" ELSE "exit")
      /\ saved' = bm /\ bm.key = key /\ bm.version # 0 /\ exit # 0 /\ buffer = {}
      /\ UNCHANGED <<rows, now, clock, key, mode, target, exit, since, versions, bm, todo, buffer>>
  BY DEF IInv, Marks, RowsOK, EmitState, serverVars, configVars, queryVars
<1>2. Live' = Live /\ bm.value \in Nat
  BY <1>1, Types DEF Live
<1>3. Bounded'
  BY <1>1 DEF IInv, Bounded, WellFormed, Latest
<1>4. Marks'
  BY <1>1, <1>2 DEF IInv, Marks
<1>5. RowsOK'
  <2>1. ASSUME NEW r \in todo, r.pk \in Live, key = "updated", Behind(r.pk, bm)
        PROVE  r.at = rows[r.pk].at
    <3>1. Current(r)
      BY <1>1, <2>1, DueIsCurrent DEF Due
    <3> QED
      BY <2>1, <3>1 DEF Current
  <2>2. \A r \in todo : r.pk \in Live => Current(r)' \/ Rewritten(r.pk)'
    BY <1>1, <1>2 DEF IInv, RowsOK, Current, Rewritten
  <2> QED
    BY <1>1, <1>2, <2>1, <2>2 DEF IInv, RowsOK, OneEach, Behind
<1>6. Covered'
  <2>1. \A p \in Live : Due(p)' => Due(p)
    BY <1>1 DEF Due, Behind, Within
  <2>2. \A r \in todo : Current(r) => Current(r)'
    BY <1>1, <1>2 DEF Current
  <2>3. \A p \in Live : Got(p, key, bm.version) => Got(p, key, bm.version)'
    BY <1>1 DEF Got
  <2> QED
    BY <1>1, <1>2, <2>1, <2>2, <2>3 DEF IInv, Covered
<1>7. Promised'
  BY <1>1, <1>2, BehindIsGot DEF Promised, Behind, Got
<1>8. Complete'
  BY <1>1 DEF Complete
<1> QED
  BY <1>3, <1>4, <1>5, <1>6, <1>7, <1>8 DEF Rest

\* The last flush leaves no row behind.
LEMMA EndQueryKeeps ==
  ASSUME IInv, EndQuery
  PROVE  Rest'
<1>1. /\ pc = "rows" /\ pc' \in {"exit", "laststate"} /\ todo = {} /\ buffer' = {} /\ exit # 0
      /\ target' = Deliver(target, buffer \cup {})
      /\ UNCHANGED <<rows, now, clock, key, mode, saved, exit, since, versions, bm, todo>>
  BY DEF IInv, Marks, EndQuery, Emit, serverVars, configVars
<1>2. Live' = Live
  BY <1>1 DEF Live
<1>3. (todo \cup buffer) \ (buffer \cup {}) = {} /\ buffer \cup {} \in SUBSET (todo \cup buffer)
  BY <1>1
<1>4. /\ \A p \in Live : Due(p) => /\ target'[p].ver = bm.version
                                   /\ key = "updated" => target'[p].at = rows[p].at
      /\ saved.value # 0 =>
           \A p \in Live : Behind(p, saved) => /\ target'[p].ver = saved.version
                                               /\ saved.key = "updated" => target'[p].at = rows[p].at
      /\ \A p \in Pks : target'[p].ver <= versions
  BY <1>1, <1>3, EmitRows
<1>5. Bounded'
  BY <1>1, <1>4 DEF IInv, Bounded, WellFormed, Latest
<1>6. Marks'
  BY <1>1 DEF IInv, Marks
<1>7. RowsOK'
  BY <1>1 DEF RowsOK, OneEach
<1>8. Covered'
  <2>1. \A p \in Live : Due(p)' => Due(p)
    BY <1>1 DEF Due, Behind, Within
  <2> QED
    BY <1>1, <1>2, <1>4, <2>1 DEF Covered, Got
<1>9. Promised'
  BY <1>1, <1>2, <1>4 DEF Promised, Behind, Got
<1>10. Complete'
  BY <1>1 DEF Complete
<1> QED
  BY <1>5, <1>6, <1>7, <1>8, <1>9, <1>10 DEF Rest

\* Nothing is on its way when the run reaches its end.
LEMMA ExitStateKeeps ==
  ASSUME IInv, ExitState
  PROVE  Rest'
<1>1. /\ pc = "exit" /\ todo = {} /\ buffer = {} /\ bm.key = key /\ bm.version # 0
      /\ pc' = "off" /\ exit' = 0 /\ saved' = bm /\ bm' = bm /\ todo' = {} /\ buffer' = {}
      /\ UNCHANGED <<rows, now, clock, key, mode, target, since, versions>>
  BY DEF IInv, Marks, RowsOK, ExitState, Stop, serverVars, configVars
<1>2. Live' = Live /\ key \in {"id", "updated"}
  BY <1>1, Types DEF Live
<1>3. Bounded' /\ Marks' /\ RowsOK' /\ Covered'
  <2>1. Bounded'
    BY <1>1 DEF IInv, Bounded, WellFormed, Latest
  <2>2. Marks'
    BY <1>1, <1>2 DEF IInv, Marks
  <2> QED
    BY <1>1, <2>1, <2>2 DEF RowsOK, OneEach, Covered
<1>4. \A p \in Live : Due(p) => Got(p, key, bm.version)
  BY <1>1 DEF IInv, Covered
<1>5. Promised'
  BY <1>1, <1>2, <1>4 DEF Promised, Behind, Due, Got
<1>6. Complete'
  BY <1>1, <1>2, <1>4 DEF Complete, Due, Got, Within, Has
<1> QED
  BY <1>3, <1>5, <1>6 DEF Rest

\* A run that ends early leaves the emitted bookmark, and what it promises.
LEMMA StopKeeps ==
  ASSUME IInv, Stop(1, saved)
  PROVE  Rest'
<1>1. /\ pc' = "off" /\ exit' = 1 /\ saved' = saved /\ bm' = saved /\ todo' = {} /\ buffer' = {}
      /\ UNCHANGED <<rows, now, clock, key, mode, target, since, versions>>
  BY DEF Stop, serverVars, configVars
<1>2. Bounded'
  BY <1>1 DEF IInv, Bounded, WellFormed, Latest
<1>3. Marks' /\ RowsOK' /\ Covered' /\ Complete'
  BY <1>1 DEF IInv, Marks, RowsOK, OneEach, Covered, Complete
<1>4. Promised'
  BY <1>1 DEF IInv, Promised, Behind, Got, Live
<1> QED
  BY <1>2, <1>3, <1>4 DEF Rest

\* The query starts over from a bookmark that has passed only rows at the target.
LEMMA ConnectionLostKeeps ==
  ASSUME IInv, ConnectionLost
  PROVE  Rest'
<1>1. CASE ~MayRetry
  BY <1>1, StopKeeps DEF ConnectionLost
<1>2. CASE MayRetry
  <2>1. /\ pc \in {"execute", "rows"} /\ pc' = "execute" /\ todo' = {} /\ buffer' = {}
        /\ UNCHANGED <<rows, now, clock, key, mode, saved, target, exit, since, versions, bm>>
    BY <1>2 DEF ConnectionLost, serverVars, configVars
  <2>2. buffer = {} /\ bm.key = key
    BY <2>1 DEF IInv, Marks, RowsOK, ConnectionLost
  <2>3. Bounded'
    BY <2>1 DEF IInv, Bounded, WellFormed, Latest
  <2>4. Marks' /\ RowsOK'
    BY <2>1 DEF IInv, Marks, RowsOK, OneEach
  <2>5. Covered'
    <3>1. \A p \in Live : Due(p)' => Behind(p, bm)
      BY <2>1 DEF Due, Behind
    <3>2. \A p \in Live : Behind(p, bm) => Got(p, key, bm.version)
      BY <2>1, <2>2, BehindIsGot
    <3> QED
      BY <2>1, <3>1, <3>2 DEF Covered, Got, Live
  <2>6. Promised' /\ Complete'
    BY <2>1 DEF IInv, Promised, Complete, Behind, Got, Within, Has, Live
  <2> QED
    BY <2>3, <2>4, <2>5, <2>6 DEF Rest
<1> QED
  BY <1>1, <1>2

LEMMA StutterKeeps ==
  ASSUME IInv, UNCHANGED vars
  PROVE  Rest'
<1>1. UNCHANGED <<rows, now, clock, key, mode, saved, target, pc, exit, since, versions, bm, todo, buffer>>
  BY DEF vars, serverVars, configVars, queryVars
<1>2. Bounded' /\ Marks'
  BY <1>1 DEF IInv, Bounded, Marks, WellFormed, Latest
<1>3. Live' = Live
  BY <1>1 DEF Live
<1>4. RowsOK'
  BY <1>1, <1>3 DEF IInv, RowsOK, OneEach, Current, Rewritten, Behind
<1>5. Covered'
  BY <1>1, <1>3 DEF IInv, Covered, Due, Behind, Within, Got, Current
<1>6. Promised' /\ Complete'
  BY <1>1, <1>3 DEF IInv, Promised, Complete, Behind, Got, Within, Has
<1> QED
  BY <1>2, <1>4, <1>5, <1>6 DEF Rest

LEMMA InitHolds == Dependable /\ Init => IInv
<1> SUFFICES ASSUME Dependable, Init PROVE IInv
  OBVIOUS
<1>1. /\ pc = "off" /\ exit = 1 /\ since = 0 /\ clock = 0 /\ versions = 0 /\ todo = {} /\ buffer = {}
      /\ saved = NoBookmark /\ bm = NoBookmark /\ now = MaxChanges + 1 /\ mode \in Modes
      /\ rows = [p \in Pks |-> NoRow] /\ target = [p \in Pks |-> Absent]
  BY DEF Init
<1>2. Bounded
  BY <1>1, IncrementalAssumption DEF Bounded, WellFormed, NoBookmark, NoRow, Absent
<1>3. Marks
  BY <1>1 DEF Marks, Dependable
<1>4. RowsOK /\ Covered /\ Promised /\ Complete
  BY <1>1 DEF RowsOK, OneEach, Covered, Promised, Complete, NoBookmark
<1> QED
  BY <1>2, <1>3, <1>4, TypeInit DEF IInv

LEMMA StepKeeps ==
  ASSUME IInv, [Next]_vars
  PROVE  IInv'
<1>1. TypeOK'
  BY TypeStep DEF IInv, RowsOK
<1>2. Rest'
  <2>1. CASE ServerNext
    BY <2>1, ServerKeeps
  <2>2. CASE ChangeKey
    BY <2>2, ChangeKeyKeeps
  <2>3. CASE StartRun
    BY <2>3, StartRunKeeps
  <2>4. CASE Execute
    BY <2>4, ExecuteKeeps
  <2>5. CASE FetchRows
    BY <2>5, FetchRowsKeeps
  <2>6. CASE EmitState
    BY <2>6, EmitStateKeeps
  <2>7. CASE EndQuery
    BY <2>7, EndQueryKeeps
  <2>8. CASE ExitState
    BY <2>8, ExitStateKeeps
  <2>9. CASE ConnectionLost
    BY <2>9, ConnectionLostKeeps
  <2>10. CASE Crash
    BY <2>10, StopKeeps DEF Crash
  <2>11. CASE UNCHANGED vars
    BY <2>11, StutterKeeps
  <2> QED
    BY <2>1, <2>2, <2>3, <2>4, <2>5, <2>6, <2>7, <2>8, <2>9, <2>10, <2>11 DEF Next, RunStep
<1> QED
  BY <1>1, <1>2 DEF IInv, Rest

LEMMA Invariance == Dependable /\ Spec => []IInv
<1>1. Dependable /\ Init => IInv
  BY InitHolds
<1>2. IInv /\ [Next]_vars => IInv'
  BY StepKeeps
<1> QED
  BY <1>1, <1>2, PTL DEF Spec

-----------------------------------------------------------------------------
(* The theorems.                                                            *)

\* Every variable has its type.
THEOREM TypeCorrect == Spec => []TypeOK
<1>1. Init => TypeOK /\ OneEach
  BY TypeInit DEF Init, OneEach
<1>2. TypeOK /\ OneEach /\ [Next]_vars => TypeOK' /\ OneEach'
  BY TypeStep, OneEachStep
<1> QED
  BY <1>1, <1>2, PTL DEF Spec

\* No row lies behind the emitted bookmark without being at the target, whenever the
\* process dies and whichever key the catalog names by then (sync_table with sync_query).
THEOREM NothingLeftBehind == Dependable /\ Spec => []NothingBehindBookmark
<1>1. ASSUME IInv PROVE NothingBehindBookmark
  <2>1. SUFFICES ASSUME saved.value # 0, NEW p \in Live, Within(p, saved), rows[p][saved.key] < saved.value
                 PROVE  Has(p, saved.key)
    BY DEF NothingBehindBookmark
  <2>2. Got(p, saved.key, saved.version) /\ saved.version # 0
    BY <1>1, <2>1 DEF IInv, Promised, Bounded, WellFormed, Behind, Within
  <2> QED
    BY <2>2 DEF Got, Has
<1> QED
  BY <1>1, Invariance, PTL

\* After a run that exits normally the target has every row that did not change since the
\* run started and that the query could select: one with a value of the replication key,
\* or any while the bookmark has none (sync_table).
THEOREM CleanRunsComplete == Dependable /\ Spec => []CleanRunIsComplete
<1>1. IInv => CleanRunIsComplete
  BY DEF IInv, Complete, CleanRunIsComplete
<1> QED
  BY <1>1, Invariance, PTL

\* The emitted value of a key never falls, across attempts, runs and changes of the key.
THEOREM ValueNeverFalls == Dependable /\ Spec => HighWaterMark
<1>1. ASSUME IInv, [Next]_vars, saved'.key = saved.key
      PROVE  saved'.value >= saved.value
  <2>1. saved.value \in Nat /\ bm.value \in Nat
    BY <1>1, Types
  <2>2. CASE UNCHANGED saved
    BY <2>1, <2>2
  <2>3. CASE EmitState \/ ExitState
    <3>1. saved' = bm /\ pc # "off"
      BY <2>3 DEF EmitState, ExitState, Stop
    <3>2. bm.key = key /\ (saved.key = key => saved.value <= bm.value)
      BY <1>1, <3>1 DEF IInv, Marks
    <3> QED
      BY <1>1, <2>1, <3>1, <3>2
  <2>4. UNCHANGED saved \/ EmitState \/ ExitState
    BY <1>1 DEF Next, RunStep, ServerNext, Insert, Update, Delete, Write, ChangeKey, StartRun, Execute, FetchRows,
                EndQuery, ConnectionLost, Crash, Stop, vars
  <2> QED
    BY <2>2, <2>3, <2>4
<1>2. IInv /\ [Next]_vars => [saved'.key = saved.key => saved'.value >= saved.value]_vars
  BY <1>1
<1> QED
  BY <1>2, Invariance, PTL DEF HighWaterMark, Spec
=============================================================================
