-------------------------- MODULE ColumnMappingProofs --------------------------
(***************************************************************************)
(* Theorems about ColumnMapping, for any tables, names, number of columns,  *)
(* changes by other clients and crashes.                                    *)
(***************************************************************************)
EXTENDS ColumnMapping, SequenceTheorems, WellFoundedInduction, TLAPS

\* Discovery by name finds the table itself.
OneDatabase == \A t \in Tables : Namesakes[t] = <<t>>

\* No column name but the key's is used in two tables: ignored_columns is one set of
\* names for all of them, which the run shared_names shows the effect of.
OwnNames == \A t, u \in Tables : t # u => ColumnNames[t] \cap ColumnNames[u] = {}

-----------------------------------------------------------------------------
(* The inductive invariant.                                                 *)

ColumnsOf(cols) == {cols[i] : i \in DOMAIN cols}

IsKey(c) == c.name = "id" /\ c.key /\ c.supported

\* A column of table t that got its name by now.
OwnColumn(t, c) == c.name \in {"id"} \cup ColumnNames[t] /\ c.since <= clock

\* A table has its key and columns of its own.
TablesOK ==
  \A t \in Tables : /\ \A c \in ColumnsOf(tables[t]) : OwnColumn(t, c)
                    /\ tables[t] # <<>> => \E c \in ColumnsOf(tables[t]) : IsKey(c)

\* So do events.
LogOK == \A i \in DOMAIN log : \A c \in ColumnsOf(log[i].cols) : OwnColumn(log[i].table, c)

\* The loop is between two positions of the binlog.
LoopOK ==
  /\ pc = "loop" => 1 <= next /\ next <= end
  /\ pc # "loop" => ignored = {} /\ looked = {}

\* The entry of a stream has the key, which is never ignored, and the target knows it.
EntriesOK ==
  /\ \A t \in Mapped : "id" \in entry[t].props
  /\ pc = "loop" => \A t \in Tables : entry[t].props \subseteq schema[t]
  /\ "id" \notin ignored

\* Of the columns of an event ahead or behind, an ignored one that its table still has
\* is known to be unsupported or was placed after all.
Due(t, c) == c.name \in entry[t].props \cup Unsupported(entry[t].md)
IgnoredOK ==
  pc = "loop" =>
    \A i \in 1 .. end - 1 : \A c \in ColumnsOf(log[i].cols) :
      LET t == log[i].table
      IN  (/\ t \in Mapped /\ c.supported /\ c.name \in ignored
           /\ c \in ColumnsOf(tables[t]))
          => Due(t, c)

\* A column that was looked for is ignored; or it was found, and is desired as long as
\* the table has it.
FoundAs(l, c) ==
  /\ c.name = l.name /\ c.supported /\ c.since \in Nat /\ c.since <= clock
  /\ c \in ColumnsOf(tables[l.table]) => c.name \in entry[l.table].props
LookedOK ==
  \A l \in looked : /\ l.table \in Tables
                    /\ l.name \in ignored \/ \E c \in ColumnsOf(l.cols) : FoundAs(l, c)

\* What an event says of its table: it had these columns before it was altered again.
AltersOK ==
  \A i \in DOMAIN log : /\ log[i].alters <= altered[log[i].table]
                        /\ Unaltered(log[i]) => log[i].cols = tables[log[i].table]

\* What the library has looked up, it has looked up in this run: they are columns of
\* the table, and those of every event up to the end that is not older than the last
\* alteration.
CacheOK ==
  /\ pc # "loop" => \A t \in Tables : cache[t] = <<>>
  /\ \A t \in Tables : \A c \in ColumnsOf(cache[t]) : c.name \in {"id"} \cup ColumnNames[t]
  /\ \A t \in Tables : cache[t] # <<>> =>
       \A i \in 1 .. end - 1 : log[i].table = t /\ Unaltered(log[i]) => log[i].cols = cache[t]

Base == TypeOK /\ TablesOK /\ LogOK /\ LoopOK /\ EntriesOK /\ AltersOK /\ CacheOK
IInv == Base /\ IgnoredOK /\ LookedOK

-----------------------------------------------------------------------------
(* Sequences of columns.                                                    *)

LEMMA ConcatColumns ==
  ASSUME NEW T, NEW q \in Seq(T), NEW r \in Seq(T)
  PROVE  q \o r \in Seq(T) /\ ColumnsOf(q \o r) = ColumnsOf(q) \cup ColumnsOf(r)
<1>1. /\ q \o r \in Seq(T) /\ Len(q \o r) = Len(q) + Len(r) /\ Len(q) \in Nat /\ Len(r) \in Nat
      /\ \A i \in 1 .. Len(q) + Len(r) : (q \o r)[i] = IF i <= Len(q) THEN q[i] ELSE r[i - Len(q)]
  BY ConcatProperties, LenProperties
<1>2. DOMAIN q = 1 .. Len(q) /\ DOMAIN r = 1 .. Len(r) /\ DOMAIN (q \o r) = 1 .. Len(q) + Len(r)
  BY <1>1, LenProperties
<1>3. ASSUME NEW i \in DOMAIN (q \o r) PROVE (q \o r)[i] \in ColumnsOf(q) \cup ColumnsOf(r)
  <2>1. CASE i <= Len(q)
    BY <1>1, <1>2, <2>1 DEF ColumnsOf
  <2>2. CASE ~(i <= Len(q))
    <3>1. i - Len(q) \in 1 .. Len(r) /\ (q \o r)[i] = r[i - Len(q)]
      BY <1>1, <1>2, <2>2
    <3> QED
      BY <1>2, <3>1 DEF ColumnsOf
  <2> QED
    BY <2>1, <2>2
<1>4. ASSUME NEW i \in DOMAIN q PROVE q[i] \in ColumnsOf(q \o r)
  <2>1. i \in DOMAIN (q \o r) /\ (q \o r)[i] = q[i]
    BY <1>1, <1>2
  <2> QED
    BY <2>1 DEF ColumnsOf
<1>5. ASSUME NEW i \in DOMAIN r PROVE r[i] \in ColumnsOf(q \o r)
  <2>1. Len(q) + i \in 1 .. Len(q) + Len(r) /\ ~(Len(q) + i <= Len(q)) /\ (Len(q) + i) - Len(q) = i
    BY <1>1, <1>2
  <2>2. Len(q) + i \in DOMAIN (q \o r) /\ (q \o r)[Len(q) + i] = r[i]
    BY <1>1, <1>2, <2>1
  <2> QED
    BY <2>2 DEF ColumnsOf
<1>6. ColumnsOf(q \o r) \subseteq ColumnsOf(q) \cup ColumnsOf(r)
  BY <1>3 DEF ColumnsOf
<1>7. ColumnsOf(q) \subseteq ColumnsOf(q \o r)
  BY <1>4 DEF ColumnsOf
<1>8. ColumnsOf(r) \subseteq ColumnsOf(q \o r)
  BY <1>5 DEF ColumnsOf
<1> QED
  BY <1>1, <1>6, <1>7, <1>8

LEMMA SubSeqColumns ==
  ASSUME NEW T, NEW q \in Seq(T), NEW m \in Nat, NEW n \in Nat, 1 <= m, n <= Len(q)
  PROVE  /\ SubSeq(q, m, n) \in Seq(T)
         /\ ColumnsOf(SubSeq(q, m, n)) = {q[i] : i \in m .. n}
<1>1. Len(q) \in Nat /\ \A i \in m .. n : q[i] \in T
  BY LenProperties, ElementOfSeq
<1>2. /\ SubSeq(q, m, n) \in Seq(T)
      /\ Len(SubSeq(q, m, n)) = IF m <= n THEN n - m + 1 ELSE 0
      /\ \A i \in 1 .. n - m + 1 : SubSeq(q, m, n)[i] = q[m + i - 1]
  BY <1>1, SubSeqProperties
<1>3. DOMAIN SubSeq(q, m, n) = 1 .. n - m + 1
  BY <1>2, LenProperties
<1>4. ASSUME NEW i \in 1 .. n - m + 1 PROVE SubSeq(q, m, n)[i] \in {q[k] : k \in m .. n}
  <2>1. m + i - 1 \in m .. n
    OBVIOUS
  <2> QED
    BY <1>2, <2>1
<1>5. ASSUME NEW k \in m .. n PROVE q[k] \in ColumnsOf(SubSeq(q, m, n))
  <2>1. k - m + 1 \in 1 .. n - m + 1 /\ m + (k - m + 1) - 1 = k
    OBVIOUS
  <2>2. k - m + 1 \in DOMAIN SubSeq(q, m, n) /\ SubSeq(q, m, n)[k - m + 1] = q[k]
    BY <1>2, <1>3, <2>1
  <2> QED
    BY <2>2 DEF ColumnsOf
<1> QED
  BY <1>2, <1>3, <1>4, <1>5 DEF ColumnsOf

\* Adding a column after the i-th.
LEMMA InsertColumns ==
  ASSUME NEW T, NEW q \in Seq(T), NEW i \in DOMAIN q, NEW e \in T
  PROVE  LET s == SubSeq(q, 1, i) \o <<e>> \o SubSeq(q, i + 1, Len(q))
         IN  s \in Seq(T) /\ ColumnsOf(s) = ColumnsOf(q) \cup {e}
<1> DEFINE a == SubSeq(q, 1, i)
           b == SubSeq(q, i + 1, Len(q))
           c == <<e>>
<1>1. DOMAIN q = 1 .. Len(q) /\ Len(q) \in Nat /\ i \in Nat /\ i \in 1 .. Len(q)
  BY LenProperties
<1>2. /\ a \in Seq(T) /\ ColumnsOf(a) = {q[k] : k \in 1 .. i}
      /\ b \in Seq(T) /\ ColumnsOf(b) = {q[k] : k \in i + 1 .. Len(q)}
  BY <1>1, SubSeqColumns
<1>3. c \in Seq(T) /\ ColumnsOf(c) = {e}
  BY DEF ColumnsOf
<1>4. ColumnsOf(q) = ColumnsOf(a) \cup ColumnsOf(b)
  <2>1. 1 .. Len(q) = (1 .. i) \cup (i + 1 .. Len(q))
    BY <1>1
  <2>2. ColumnsOf(q) = {q[k] : k \in 1 .. i} \cup {q[k] : k \in i + 1 .. Len(q)}
    BY <1>1, <2>1 DEF ColumnsOf
  <2> QED
    BY <1>2, <2>2
<1> HIDE DEF a, b, c
<1>5. a \o c \in Seq(T) /\ ColumnsOf(a \o c) = ColumnsOf(a) \cup ColumnsOf(c)
  BY <1>2, <1>3, ConcatColumns
<1>6. (a \o c) \o b \in Seq(T) /\ ColumnsOf((a \o c) \o b) = ColumnsOf(a \o c) \cup ColumnsOf(b)
  <2> DEFINE d == a \o c
  <2>1. d \in Seq(T) /\ b \in Seq(T)
    BY <1>2, <1>5
  <2> HIDE DEF d
  <2>2. d \o b \in Seq(T) /\ ColumnsOf(d \o b) = ColumnsOf(d) \cup ColumnsOf(b)
    BY <2>1, ConcatColumns
  <2> QED
    BY <2>2 DEF d
<1>7. (a \o c) \o b \in Seq(T) /\ ColumnsOf((a \o c) \o b) = ColumnsOf(q) \cup {e}
  BY <1>3, <1>4, <1>5, <1>6
<1> QED
  BY <1>7 DEF a, b, c

\* Removing the i-th.
LEMMA RemoveColumns ==
  ASSUME NEW T, NEW q \in Seq(T), NEW i \in DOMAIN q
  PROVE  LET s == SubSeq(q, 1, i - 1) \o SubSeq(q, i + 1, Len(q))
         IN  s \in Seq(T) /\ ColumnsOf(s) = {q[k] : k \in DOMAIN q \ {i}}
<1> DEFINE a == SubSeq(q, 1, i - 1)
           b == SubSeq(q, i + 1, Len(q))
<1>1. DOMAIN q = 1 .. Len(q) /\ Len(q) \in Nat /\ i - 1 \in Nat /\ i \in 1 .. Len(q)
  BY LenProperties
<1>2. /\ a \in Seq(T) /\ ColumnsOf(a) = {q[k] : k \in 1 .. i - 1}
      /\ b \in Seq(T) /\ ColumnsOf(b) = {q[k] : k \in i + 1 .. Len(q)}
  BY <1>1, SubSeqColumns, SMTT(30)
<1>3. (1 .. Len(q)) \ {i} = (1 .. i - 1) \cup (i + 1 .. Len(q))
  BY <1>1
<1>4. {q[k] : k \in DOMAIN q \ {i}} = ColumnsOf(a) \cup ColumnsOf(b)
  BY <1>1, <1>2, <1>3
<1> HIDE DEF a, b
<1>5. a \o b \in Seq(T) /\ ColumnsOf(a \o b) = ColumnsOf(a) \cup ColumnsOf(b)
  BY <1>2, ConcatColumns
<1>6. a \o b \in Seq(T) /\ ColumnsOf(a \o b) = {q[k] : k \in DOMAIN q \ {i}}
  BY <1>4, <1>5
<1> QED
  BY <1>6 DEF a, b

-----------------------------------------------------------------------------
(* Other clients.                                                           *)

\* What an altered table t may consist of: columns it has, and columns named now.
Legit(t, cols) ==
  /\ cols \in Seq(Columns)
  /\ \A c \in ColumnsOf(cols) :
       c \in ColumnsOf(tables[t]) \/ (c.since = clock + 1 /\ c.name \in ColumnNames[t])
  /\ cols # <<>> => \E c \in ColumnsOf(cols) : IsKey(c)

LEMMA TableTypes ==
  ASSUME TypeOK, TablesOK, NEW t \in Tables
  PROVE  /\ tables[t] \in Seq(Columns) /\ clock \in Nat
         /\ DOMAIN tables[t] = 1 .. Len(tables[t]) /\ Len(tables[t]) \in Nat
         /\ \A i \in DOMAIN tables[t] : tables[t][i] \in Columns
         /\ \A i \in DOMAIN tables[t] : \E k \in DOMAIN tables[t] : IsKey(tables[t][k])
<1>1. tables[t] \in Seq(Columns) /\ clock \in Nat
  BY DEF TypeOK
<1>2. DOMAIN tables[t] = 1 .. Len(tables[t]) /\ Len(tables[t]) \in Nat
  BY <1>1, LenProperties
<1>3. \A i \in DOMAIN tables[t] : tables[t][i] \in Columns
  BY <1>1, <1>2, ElementOfSeq
<1>4. tables[t] # <<>> => \E k \in DOMAIN tables[t] : IsKey(tables[t][k])
  BY DEF TablesOK, ColumnsOf
<1>5. tables[t] = <<>> => DOMAIN tables[t] = {}
  BY <1>2, EmptySeq
<1> QED
  BY <1>1, <1>2, <1>3, <1>4, <1>5

LEMMA EventTypes ==
  ASSUME TypeOK
  PROVE  /\ log \in Seq(RowChange) /\ Len(log) \in Nat /\ DOMAIN log = 1 .. Len(log)
         /\ end \in 0 .. Len(log) + 1 /\ next \in 0 .. Len(log) + 1
         /\ 1 .. end - 1 \subseteq DOMAIN log
         /\ \A i \in DOMAIN log :
              /\ log[i] \in RowChange /\ log[i].table \in Tables /\ log[i].cols \in Seq(Columns)
              /\ log[i].alters \in Nat
              /\ \A c \in ColumnsOf(log[i].cols) : c \in Columns /\ c.since \in Nat
<1>1. log \in Seq(RowChange) /\ Len(log) \in Nat /\ DOMAIN log = 1 .. Len(log)
  BY LenProperties DEF TypeOK
<1>2. end \in 0 .. Len(log) + 1 /\ next \in 0 .. Len(log) + 1
  BY DEF TypeOK
<1>3. ASSUME NEW i \in DOMAIN log
      PROVE  /\ log[i] \in RowChange /\ log[i].table \in Tables /\ log[i].cols \in Seq(Columns)
             /\ log[i].alters \in Nat
             /\ \A c \in ColumnsOf(log[i].cols) : c \in Columns /\ c.since \in Nat
  <2>1. log[i] \in RowChange
    BY <1>1, ElementOfSeq
  <2>2. log[i].table \in Tables /\ log[i].cols \in Seq(Columns) /\ log[i].alters \in Nat
    BY <2>1 DEF RowChange
  <2>3. \A k \in DOMAIN log[i].cols : log[i].cols[k] \in Columns
    BY <2>2, LenProperties, ElementOfSeq
  <2> QED
    BY <2>1, <2>2, <2>3 DEF ColumnsOf, Columns
<1> QED
  BY <1>1, <1>2, <1>3

LEMMA NameTypes ==
  ASSUME NEW t \in Tables, NEW n \in ColumnNames[t]
  PROVE  n \in Names /\ n # "id"
BY ColumnMappingAssumption DEF Names

LEMMA AddColumnLegit ==
  ASSUME TypeOK, TablesOK, NEW t \in Tables, NEW i \in DOMAIN tables[t], NEW n \in ColumnNames[t],
         NEW supported \in BOOLEAN, AddColumn(t, i, n, supported)
  PROVE  \E cols : Alter(t, cols) /\ Legit(t, cols)
<1> DEFINE cols == SubSeq(tables[t], 1, i) \o <<Column(n, supported)>>
                     \o SubSeq(tables[t], i + 1, Len(tables[t]))
<1>1. Column(n, supported) \in Columns
  BY TableTypes, NameTypes DEF Column, Columns
<1>2. cols \in Seq(Columns) /\ ColumnsOf(cols) = ColumnsOf(tables[t]) \cup {Column(n, supported)}
  BY <1>1, TableTypes, InsertColumns
<1>3. Alter(t, cols)
  BY DEF AddColumn
<1> HIDE DEF cols
<1>4. Column(n, supported).since = clock + 1 /\ Column(n, supported).name = n
  BY DEF Column
<1>5. PICK k \in DOMAIN tables[t] : IsKey(tables[t][k])
  BY TableTypes
<1>6. tables[t][k] \in ColumnsOf(cols)
  BY <1>2, <1>5 DEF ColumnsOf
<1> QED
  BY <1>2, <1>3, <1>4, <1>5, <1>6 DEF Legit

LEMMA DropColumnLegit ==
  ASSUME TypeOK, TablesOK, NEW t \in Tables, NEW i \in DOMAIN tables[t], DropColumn(t, i)
  PROVE  \E cols : Alter(t, cols) /\ Legit(t, cols)
<1> DEFINE cols == SubSeq(tables[t], 1, i - 1) \o SubSeq(tables[t], i + 1, Len(tables[t]))
<1>1. cols \in Seq(Columns) /\ ColumnsOf(cols) = {tables[t][k] : k \in DOMAIN tables[t] \ {i}}
  BY TableTypes, RemoveColumns
<1>2. Alter(t, cols) /\ ~tables[t][i].key
  BY DEF DropColumn
<1> HIDE DEF cols
<1>3. PICK k \in DOMAIN tables[t] : IsKey(tables[t][k])
  BY TableTypes
<1>4. tables[t][k] \in ColumnsOf(cols)
  BY <1>1, <1>2, <1>3 DEF IsKey
<1>5. ColumnsOf(cols) \subseteq ColumnsOf(tables[t])
  BY <1>1 DEF ColumnsOf
<1> QED
  BY <1>1, <1>2, <1>3, <1>4, <1>5 DEF Legit

LEMMA RenameColumnLegit ==
  ASSUME TypeOK, TablesOK, NEW t \in Tables, NEW i \in DOMAIN tables[t], NEW n \in ColumnNames[t],
         RenameColumn(t, i, n)
  PROVE  \E cols : Alter(t, cols) /\ Legit(t, cols)
<1> DEFINE cols == [tables[t] EXCEPT ![i].name = n, ![i].since = clock + 1]
           new == [tables[t][i] EXCEPT !.name = n, !.since = clock + 1]
<1>1. new \in Columns /\ new.name = n /\ new.since = clock + 1
  <2>1. /\ tables[t][i] \in [name : Names, key : BOOLEAN, supported : BOOLEAN, since : Nat]
        /\ clock + 1 \in Nat /\ n \in Names
    BY TableTypes, NameTypes DEF Columns
  <2> QED
    BY <2>1 DEF Columns
<1>2. DOMAIN cols = DOMAIN tables[t] /\ cols[i] = new
      /\ \A k \in DOMAIN tables[t] \ {i} : cols[k] = tables[t][k]
  OBVIOUS
<1>3. cols \in [1 .. Len(tables[t]) -> Columns]
  BY <1>1, TableTypes
<1>4. Alter(t, cols) /\ ~tables[t][i].key
  BY DEF RenameColumn
<1> HIDE DEF cols, new
<1>5. cols \in Seq(Columns)
  BY <1>3, TableTypes, IsASeq
<1>6. \A c \in ColumnsOf(cols) : c \in ColumnsOf(tables[t]) \/ c = new
  BY <1>2 DEF ColumnsOf
<1>7. PICK k \in DOMAIN tables[t] : IsKey(tables[t][k])
  BY TableTypes
<1>8. cols[k] = tables[t][k] /\ cols[k] \in ColumnsOf(cols)
  BY <1>2, <1>4, <1>7 DEF IsKey, ColumnsOf
<1>9. \E c \in ColumnsOf(cols) : IsKey(c)
  BY <1>7, <1>8
<1> QED
  BY <1>1, <1>4, <1>5, <1>6, <1>9 DEF Legit

LEMMA MoveColumnLegit ==
  ASSUME TypeOK, TablesOK, NEW t \in Tables, NEW i \in DOMAIN tables[t], MoveColumn(t, i)
  PROVE  \E cols : Alter(t, cols) /\ Legit(t, cols)
<1> DEFINE cols == [tables[t] EXCEPT ![i] = tables[t][i + 1], ![i + 1] = tables[t][i]]
<1>1. i + 1 \in DOMAIN tables[t] /\ i # i + 1 /\ i \in Nat
  BY TableTypes DEF MoveColumn
<1>2. DOMAIN cols = DOMAIN tables[t] /\ cols[i] = tables[t][i + 1] /\ cols[i + 1] = tables[t][i]
      /\ \A k \in DOMAIN tables[t] \ {i, i + 1} : cols[k] = tables[t][k]
  BY <1>1
<1>3. cols \in [1 .. Len(tables[t]) -> Columns]
  BY <1>1, TableTypes
<1>4. Alter(t, cols)
  BY DEF MoveColumn
<1> HIDE DEF cols
<1>5. cols \in Seq(Columns)
  BY <1>3, TableTypes, IsASeq
<1>6. ColumnsOf(cols) = ColumnsOf(tables[t])
  BY <1>1, <1>2 DEF ColumnsOf
<1>7. \E c \in ColumnsOf(cols) : IsKey(c)
  BY <1>6, TableTypes DEF ColumnsOf
<1> QED
  BY <1>4, <1>5, <1>6, <1>7 DEF Legit

LEMMA DropTableLegit ==
  ASSUME NEW t \in Tables, DropTable(t)
  PROVE  \E cols : Alter(t, cols) /\ Legit(t, cols)
<1>1. <<>> \in Seq(Columns) /\ ColumnsOf(<<>>) = {}
  BY EmptySeq DEF ColumnsOf
<1> QED
  BY <1>1 DEF DropTable, Legit

\* The tap's own variables, which the other clients leave alone.
LEMMA ClientLeaves ==
  ASSUME UNCHANGED <<catalog, saved, pc, loopVars, streamVars, outVars, faults>>
  PROVE  /\ catalog' = catalog /\ saved' = saved /\ pc' = pc /\ legacy' = legacy /\ end' = end
         /\ next' = next /\ ignored' = ignored /\ looked' = looked /\ entry' = entry
         /\ schema' = schema /\ record' = record /\ emitted' = emitted /\ faults' = faults
         /\ cache' = cache /\ Mapped' = Mapped
BY DEF loopVars, streamVars, outVars, Mapped

LEMMA AlterKeeps ==
  ASSUME Base, NEW t \in Tables, NEW cols, Alter(t, cols), Legit(t, cols)
  PROVE  Base' /\ (IgnoredOK => IgnoredOK') /\ (LookedOK => LookedOK')
<1>1. /\ UNCHANGED <<catalog, saved, pc, loopVars, streamVars, outVars, faults>>
      /\ clock' = clock + 1 /\ log' = log /\ server' = server
      /\ tables' = [tables EXCEPT ![t] = cols] /\ altered' = [altered EXCEPT ![t] = @ + 1]
  BY DEF Alter, Client
<1>2. /\ catalog' = catalog /\ saved' = saved /\ pc' = pc /\ legacy' = legacy /\ end' = end
      /\ next' = next /\ ignored' = ignored /\ looked' = looked /\ entry' = entry
      /\ schema' = schema /\ record' = record /\ emitted' = emitted /\ faults' = faults
      /\ cache' = cache /\ Mapped' = Mapped
  BY <1>1, ClientLeaves
<1>3. clock \in Nat /\ tables \in [Tables -> Seq(Columns)]
  BY DEF Base, TypeOK
<1>4. /\ tables' \in [Tables -> Seq(Columns)] /\ tables'[t] = cols
      /\ \A u \in Tables : u # t => tables'[u] = tables[u]
  BY <1>1, <1>3 DEF Legit
<1>20. /\ altered' \in [Tables -> Nat] /\ altered'[t] = altered[t] + 1 /\ altered[t] \in Nat
       /\ \A u \in Tables : u # t => altered'[u] = altered[u]
  BY <1>1 DEF Base, TypeOK
<1>5. TypeOK'
  BY <1>1, <1>2, <1>4, <1>20 DEF Base, TypeOK
<1>6. \A u \in Tables : \A c : OwnColumn(u, c) /\ c.since \in Nat => OwnColumn(u, c)'
  BY <1>1, <1>3 DEF OwnColumn
<1>7. \A u \in Tables : \A c \in ColumnsOf(tables[u]) : c \in Columns /\ c.since \in Nat
  BY TableTypes DEF Base, ColumnsOf, Columns
<1>8. ASSUME NEW u \in Tables, NEW c \in ColumnsOf(tables'[u])
      PROVE  OwnColumn(u, c)'
  <2>1. CASE c \in ColumnsOf(tables[u])
    BY <1>6, <1>7, <2>1 DEF Base, TablesOK
  <2>2. CASE c \notin ColumnsOf(tables[u])
    <3>1. u = t /\ c \in ColumnsOf(cols)
      BY <1>4, <1>8, <2>2
    <3>2. c.since = clock + 1 /\ c.name \in ColumnNames[t]
      BY <2>2, <3>1 DEF Legit
    <3> QED
      BY <1>1, <1>3, <3>1, <3>2 DEF OwnColumn
  <2> QED
    BY <2>1, <2>2
<1>9. ASSUME NEW u \in Tables, tables'[u] # <<>> PROVE \E c \in ColumnsOf(tables'[u]) : IsKey(c)
  <2>1. CASE u = t
    BY <1>4, <1>9, <2>1 DEF Legit
  <2>2. CASE u # t
    BY <1>4, <1>9, <2>2 DEF Base, TablesOK
  <2> QED
    BY <2>1, <2>2
<1>10. TablesOK'
  BY <1>8, <1>9 DEF TablesOK, ColumnsOf
<1>11. LogOK'
  <2> SUFFICES ASSUME NEW i \in DOMAIN log, NEW c \in ColumnsOf(log[i].cols)
               PROVE  c.name \in {"id"} \cup ColumnNames[log[i].table] /\ c.since <= clock'
    BY <1>1 DEF LogOK, OwnColumn
  <2>1. OwnColumn(log[i].table, c)
    BY DEF Base, LogOK
  <2>2. c.since \in Nat
    BY EventTypes DEF Base
  <2> QED
    BY <1>1, <1>3, <2>1, <2>2 DEF OwnColumn
<1>12. LoopOK' /\ EntriesOK'
  BY <1>2 DEF Base, LoopOK, EntriesOK
<1>21. ASSUME NEW i \in DOMAIN log, Unaltered(log[i])'
       PROVE  Unaltered(log[i]) /\ log[i].table # t /\ log[i].table \in Tables
  <2>1. log[i].table \in Tables /\ log[i].alters \in Nat /\ log[i].alters = altered'[log[i].table]
    BY <1>1, <1>21, EventTypes DEF Base, Unaltered
  <2>2. log[i].alters <= altered[log[i].table]
    BY DEF Base, AltersOK
  <2>3. log[i].table # t
    BY <1>20, <2>1, <2>2
  <2> QED
    BY <1>20, <2>1, <2>3 DEF Unaltered
<1>22. AltersOK'
  <2> SUFFICES ASSUME NEW i \in DOMAIN log
               PROVE  /\ log[i].alters <= altered'[log[i].table]
                      /\ Unaltered(log[i])' => log[i].cols = tables'[log[i].table]
    BY <1>1 DEF AltersOK
  <2>1. log[i].table \in Tables /\ log[i].alters \in Nat /\ log[i].alters <= altered[log[i].table]
    BY EventTypes DEF Base, AltersOK
  <2>2. log[i].alters <= altered'[log[i].table]
    BY <1>20, <2>1
  <2>3. ASSUME Unaltered(log[i])' PROVE log[i].cols = tables'[log[i].table]
    BY <1>4, <1>21, <2>3 DEF Base, AltersOK
  <2> QED
    BY <2>2, <2>3
<1>23. CacheOK'
  <2>1. ASSUME NEW u \in Tables, cache[u] # <<>>, NEW i \in 1 .. end - 1, log[i].table = u, Unaltered(log[i])'
        PROVE  log[i].cols = cache[u]
    <3>1. i \in DOMAIN log
      BY EventTypes DEF Base
    <3> QED
      BY <1>21, <2>1, <3>1 DEF Base, CacheOK
  <2> QED
    BY <1>1, <1>2, <2>1 DEF Base, CacheOK
<1>13. \A u \in Tables : \A c : c.since # clock + 1 /\ c \in ColumnsOf(tables'[u]) => c \in ColumnsOf(tables[u])
  BY <1>4 DEF Legit
<1>14. ASSUME IgnoredOK PROVE IgnoredOK'
  <2> SUFFICES ASSUME pc = "loop", NEW i \in 1 .. end - 1, NEW c \in ColumnsOf(log[i].cols),
                      log[i].table \in Mapped, c.supported, c.name \in ignored,
                      c \in ColumnsOf(tables'[log[i].table])
               PROVE  Due(log[i].table, c)'
    BY <1>1, <1>2 DEF IgnoredOK
  <2>1. i \in DOMAIN log
    BY EventTypes DEF Base, TypeOK
  <2>2. OwnColumn(log[i].table, c) /\ c.since \in Nat /\ log[i].table \in Tables
    BY <2>1, EventTypes DEF Base, LogOK
  <2>3. c.since # clock + 1
    BY <1>3, <2>2 DEF OwnColumn
  <2>4. c \in ColumnsOf(tables[log[i].table])
    BY <1>13, <2>2, <2>3
  <2>5. Due(log[i].table, c)
    BY <1>14, <2>4 DEF IgnoredOK
  <2> QED
    BY <1>1, <1>2, <2>5 DEF Due
<1>15. ASSUME LookedOK PROVE LookedOK'
  <2> SUFFICES ASSUME NEW l \in looked
               PROVE  /\ l.table \in Tables
                      /\ l.name \in ignored \/ \E c \in ColumnsOf(l.cols) : FoundAs(l, c)'
    BY <1>2 DEF LookedOK
  <2>1. l.table \in Tables /\ (l.name \in ignored \/ \E c \in ColumnsOf(l.cols) : FoundAs(l, c))
    BY <1>15 DEF LookedOK
  <2>2. ASSUME NEW c \in ColumnsOf(l.cols), FoundAs(l, c) PROVE FoundAs(l, c)'
    <3>1. c.since # clock + 1 /\ c.since <= clock + 1
      BY <1>3, <2>2 DEF FoundAs
    <3>2. c \in ColumnsOf(tables'[l.table]) => c.name \in entry[l.table].props
      BY <1>13, <2>1, <2>2, <3>1 DEF FoundAs
    <3> QED
      BY <1>1, <1>2, <2>2, <3>1, <3>2 DEF FoundAs
  <2> QED
    BY <2>1, <2>2
<1> QED
  BY <1>5, <1>10, <1>11, <1>12, <1>14, <1>15, <1>22, <1>23 DEF Base

LEMMA WriteKeeps ==
  ASSUME Base, NEW t \in Tables, Write(t)
  PROVE  Base' /\ (IgnoredOK => IgnoredOK') /\ (LookedOK => LookedOK')
<1> DEFINE e == [table |-> t, cols |-> tables[t], alters |-> altered[t],
                 row |-> server.row, named |-> server.full]
<1>1. /\ UNCHANGED <<catalog, saved, pc, loopVars, streamVars, outVars, faults>>
      /\ clock' = clock + 1 /\ log' = Append(log, e) /\ server' = server /\ tables' = tables
      /\ altered' = altered
  BY DEF Write, Client
<1>2. /\ catalog' = catalog /\ saved' = saved /\ pc' = pc /\ legacy' = legacy /\ end' = end
      /\ next' = next /\ ignored' = ignored /\ looked' = looked /\ entry' = entry
      /\ schema' = schema /\ record' = record /\ emitted' = emitted /\ faults' = faults
      /\ cache' = cache /\ Mapped' = Mapped
  BY <1>1, ClientLeaves
<1>3. clock \in Nat /\ log \in Seq(RowChange) /\ Len(log) \in Nat /\ DOMAIN log = 1 .. Len(log)
  BY EventTypes DEF Base, TypeOK
<1>4. /\ e \in RowChange /\ e.table = t /\ e.cols = tables[t]
      /\ e.alters = altered[t] /\ altered[t] \in Nat
  BY DEF RowChange, Base, TypeOK
<1> HIDE DEF e
<1>5. /\ log' \in Seq(RowChange) /\ Len(log') = Len(log) + 1 /\ log'[Len(log) + 1] = e
      /\ \A i \in DOMAIN log : log'[i] = log[i]
  BY <1>1, <1>3, <1>4, AppendProperties
<1>6. DOMAIN log' = 1 .. Len(log) + 1 /\ DOMAIN log \subseteq DOMAIN log'
  BY <1>3, <1>5, LenProperties
<1>7. /\ saved \in 1 .. Len(log') + 1 /\ {end, next} \subseteq 0 .. Len(log') + 1
      /\ emitted \subseteq DOMAIN log' /\ record.event \in {0} \cup DOMAIN log'
  BY <1>3, <1>5, <1>6 DEF Base, TypeOK
<1>8. TypeOK'
  BY <1>1, <1>2, <1>3, <1>5, <1>7 DEF Base, TypeOK
<1>9. \A u \in Tables : \A c \in ColumnsOf(tables[u]) : OwnColumn(u, c) /\ c.since \in Nat
  BY TableTypes DEF Base, TablesOK, ColumnsOf, Columns
<1>10. TablesOK'
  BY <1>1, <1>3, <1>9 DEF Base, TablesOK, OwnColumn
<1>11. LogOK'
  <2> SUFFICES ASSUME NEW i \in DOMAIN log', NEW c \in ColumnsOf(log'[i].cols)
               PROVE  c.name \in {"id"} \cup ColumnNames[log'[i].table] /\ c.since <= clock'
    BY DEF LogOK, OwnColumn
  <2>1. CASE i \in DOMAIN log
    <3>1. c \in ColumnsOf(log[i].cols) /\ log'[i].table = log[i].table
      BY <1>5, <2>1
    <3>2. OwnColumn(log[i].table, c)
      BY <2>1, <3>1 DEF Base, LogOK
    <3>3. c.since \in Nat
      BY <2>1, <3>1, EventTypes DEF Base
    <3> QED
      BY <1>1, <1>3, <3>1, <3>2, <3>3 DEF OwnColumn
  <2>2. CASE i \notin DOMAIN log
    <3>1. i = Len(log) + 1
      BY <1>3, <1>6, <2>2
    <3>2. OwnColumn(t, c) /\ c.since \in Nat /\ log'[i].table = t
      BY <1>4, <1>5, <1>9, <3>1
    <3> QED
      BY <1>1, <1>3, <3>2 DEF OwnColumn
  <2> QED
    BY <2>1, <2>2
<1>12. LoopOK' /\ EntriesOK'
  BY <1>2 DEF Base, LoopOK, EntriesOK
<1>20. AltersOK'
  <2> SUFFICES ASSUME NEW i \in DOMAIN log'
               PROVE  /\ log'[i].alters <= altered[log'[i].table]
                      /\ log'[i].alters = altered[log'[i].table] => log'[i].cols = tables[log'[i].table]
    BY <1>1 DEF AltersOK, Unaltered
  <2>1. CASE i \in DOMAIN log
    BY <1>5, <2>1 DEF Base, AltersOK, Unaltered
  <2>2. CASE i \notin DOMAIN log
    <3>1. i = Len(log) + 1
      BY <1>3, <1>6, <2>2
    <3> QED
      BY <1>4, <1>5, <3>1
  <2> QED
    BY <2>1, <2>2
<1>21. CacheOK'
  <2>1. \A i \in 1 .. end - 1 : log'[i] = log[i]
    BY <1>5, EventTypes DEF Base
  <2> QED
    BY <1>1, <1>2, <2>1, ZenonT(30) DEF Base, CacheOK, Unaltered
<1>13. ASSUME IgnoredOK PROVE IgnoredOK'
  <2> SUFFICES ASSUME pc = "loop", NEW i \in 1 .. end - 1, NEW c \in ColumnsOf(log'[i].cols),
                      log'[i].table \in Mapped, c.supported, c.name \in ignored,
                      c \in ColumnsOf(tables[log'[i].table])
               PROVE  c.name \in entry[log'[i].table].props \cup Unsupported(entry[log'[i].table].md)
    BY <1>1, <1>2 DEF IgnoredOK, Due
  <2>1. log'[i] = log[i]
    BY <1>5, EventTypes DEF Base
  <2> QED
    BY <1>13, <2>1 DEF IgnoredOK, Due
<1>14. ASSUME LookedOK PROVE LookedOK'
  <2>1. \A l, c : FoundAs(l, c) => FoundAs(l, c)'
    BY <1>1, <1>2, <1>3 DEF FoundAs
  <2> QED
    BY <1>2, <1>14, <2>1 DEF LookedOK
<1> QED
  BY <1>8, <1>10, <1>11, <1>12, <1>13, <1>14, <1>20, <1>21 DEF Base

LEMMA SetGlobalKeeps ==
  ASSUME Base, NEW s \in [row : BOOLEAN, full : BOOLEAN], SetGlobal(s)
  PROVE  Base' /\ (IgnoredOK => IgnoredOK') /\ (LookedOK => LookedOK')
<1>1. /\ UNCHANGED <<catalog, saved, pc, loopVars, streamVars, outVars, faults>>
      /\ clock' = clock + 1 /\ log' = log /\ server' = s /\ tables' = tables /\ altered' = altered
  BY DEF SetGlobal, Client
<1>2. /\ catalog' = catalog /\ saved' = saved /\ pc' = pc /\ legacy' = legacy /\ end' = end
      /\ next' = next /\ ignored' = ignored /\ looked' = looked /\ entry' = entry
      /\ schema' = schema /\ record' = record /\ emitted' = emitted /\ faults' = faults
      /\ cache' = cache /\ Mapped' = Mapped
  BY <1>1, ClientLeaves
<1>3. clock \in Nat
  BY DEF Base, TypeOK
<1>4. TypeOK'
  BY <1>1, <1>2, <1>3 DEF Base, TypeOK
<1>5. \A u \in Tables : \A c \in ColumnsOf(tables[u]) : OwnColumn(u, c) /\ c.since \in Nat
  BY TableTypes DEF Base, TablesOK, ColumnsOf, Columns
<1>6. TablesOK'
  BY <1>1, <1>3, <1>5 DEF Base, TablesOK, OwnColumn
<1>7. \A i \in DOMAIN log : \A c \in ColumnsOf(log[i].cols) : OwnColumn(log[i].table, c) /\ c.since \in Nat
  BY EventTypes DEF Base, LogOK
<1>8. LogOK'
  BY <1>1, <1>3, <1>7 DEF LogOK, OwnColumn
<1>9. LoopOK' /\ EntriesOK' /\ AltersOK' /\ CacheOK'
  BY <1>1, <1>2 DEF Base, LoopOK, EntriesOK, AltersOK, CacheOK, Unaltered
<1>10. IgnoredOK => IgnoredOK'
  BY <1>1, <1>2 DEF IgnoredOK, Due
<1>11. ASSUME LookedOK PROVE LookedOK'
  <2>1. \A l, c : FoundAs(l, c) => FoundAs(l, c)'
    BY <1>1, <1>2, <1>3 DEF FoundAs
  <2> QED
    BY <1>2, <1>11, <2>1 DEF LookedOK
<1> QED
  BY <1>4, <1>6, <1>8, <1>9, <1>10, <1>11 DEF Base

LEMMA ClientKeeps ==
  ASSUME Base, ClientNext
  PROVE  Base' /\ (IgnoredOK => IgnoredOK') /\ (LookedOK => LookedOK')
<1>1. ASSUME NEW t \in Tables, Write(t) \/ DropTable(t)
      PROVE  Base' /\ (IgnoredOK => IgnoredOK') /\ (LookedOK => LookedOK')
  BY <1>1, WriteKeeps, DropTableLegit, AlterKeeps
<1>2. ASSUME NEW t \in Tables, NEW i \in DOMAIN tables[t], NEW n \in ColumnNames[t],
             NEW supported \in BOOLEAN, AddColumn(t, i, n, supported)
      PROVE  Base' /\ (IgnoredOK => IgnoredOK') /\ (LookedOK => LookedOK')
  BY <1>2, AddColumnLegit, AlterKeeps DEF Base
<1>3. ASSUME NEW t \in Tables, NEW i \in DOMAIN tables[t], DropColumn(t, i) \/ MoveColumn(t, i)
      PROVE  Base' /\ (IgnoredOK => IgnoredOK') /\ (LookedOK => LookedOK')
  BY <1>3, DropColumnLegit, MoveColumnLegit, AlterKeeps DEF Base
<1>4. ASSUME NEW t \in Tables, NEW i \in DOMAIN tables[t], NEW n \in ColumnNames[t], RenameColumn(t, i, n)
      PROVE  Base' /\ (IgnoredOK => IgnoredOK') /\ (LookedOK => LookedOK')
  BY <1>4, RenameColumnLegit, AlterKeeps DEF Base
<1>5. ASSUME NEW s \in [row : BOOLEAN, full : BOOLEAN], SetGlobal(s)
      PROVE  Base' /\ (IgnoredOK => IgnoredOK') /\ (LookedOK => LookedOK')
  BY <1>5, SetGlobalKeeps
<1> QED
  BY <1>1, <1>2, <1>3, <1>4, <1>5 DEF ClientNext

-----------------------------------------------------------------------------
(* Discovery.                                                               *)

\* A nonempty set of numbers has a least one.
LEMMA HasLeast ==
  ASSUME NEW S \in SUBSET Nat, S # {}
  PROVE  \E n \in S : \A m \in S : n <= m
<1>1. PICK n \in S : \A m \in S : ~ (<<m, n>> \in OpToRel(<, Nat))
  BY NatLessThanWellFounded, WFMin
<1>2. ASSUME NEW m \in S, ~(n <= m) PROVE FALSE
  <2>1. m \in Nat /\ n \in Nat /\ m < n
    BY <1>2
  <2>2. <<m, n>> \in OpToRel(<, Nat)
    BY <2>1 DEF OpToRel
  <2> QED
    BY <1>1, <2>2
<1> QED
  BY <1>1, <1>2

\* Discovery names every supported column of the table and no other.
LEMMA DiscoverNames ==
  ASSUME NEW cols, \A c \in ColumnsOf(cols) : c \in Columns
  PROVE  /\ \A c \in ColumnsOf(cols) : c.supported => c.name \in Discover(cols).props
         /\ \A n \in Discover(cols).props : \E c \in ColumnsOf(cols) : c.name = n /\ c.supported
<1>1. Discover(cols).props = (NamesOf(cols) \cap Included(cols, "available")) \cup Included(cols, "automatic")
  BY DEF Discover, DesiredColumns, Selected, Metadata
<1>2. ASSUME NEW i \in DOMAIN cols, cols[i].supported PROVE cols[i].name \in Discover(cols).props
  <2>1. cols[i].supported \in BOOLEAN /\ cols[i].key \in BOOLEAN
    BY DEF ColumnsOf, Columns
  <2>2. Inclusion(cols[i]) = "automatic" \/ Inclusion(cols[i]) = "available"
    BY <1>2, <2>1 DEF Inclusion
  <2>3. cols[i].name \in NamesOf(cols)
    BY DEF NamesOf
  <2>4. cols[i].name \in Included(cols, Inclusion(cols[i]))
    BY DEF Included
  <2> QED
    BY <1>1, <2>2, <2>3, <2>4
<1>3. ASSUME NEW n \in Discover(cols).props
      PROVE  \E c \in ColumnsOf(cols) : c.name = n /\ c.supported
  <2>1. n \in Included(cols, "available") \/ n \in Included(cols, "automatic")
    BY <1>1
  <2>2. PICK i \in DOMAIN cols : n = cols[i].name /\ Inclusion(cols[i]) \in {"available", "automatic"}
    BY <2>1 DEF Included
  <2>3. cols[i].supported \in BOOLEAN /\ cols[i].key \in BOOLEAN
    BY DEF ColumnsOf, Columns
  <2>4. cols[i].supported
    BY <2>2, <2>3 DEF Inclusion
  <2> QED
    BY <2>2, <2>4 DEF ColumnsOf
<1> QED
  BY <1>2, <1>3 DEF ColumnsOf

\* The primary key is in every entry.
LEMMA ResolveNames ==
  ASSUME NEW md \in StreamMetadata, NEW cols, \A c \in ColumnsOf(cols) : c.name \in Names
  PROVE  /\ Resolve(md, cols) \in Entry
         /\ \A c \in ColumnsOf(cols) : IsKey(c) => c.name \in Resolve(md, cols).props
<1>1. Resolve(md, cols).props = (Selected(md) \cap Included(cols, "available")) \cup Included(cols, "automatic")
  BY DEF Resolve, DesiredColumns
<1>2. \A kind : Included(cols, kind) \subseteq Names
  BY DEF Included, ColumnsOf
<1>3. ASSUME NEW i \in DOMAIN cols, IsKey(cols[i]) PROVE cols[i].name \in Resolve(md, cols).props
  <2>1. Inclusion(cols[i]) = "automatic"
    BY <1>3 DEF Inclusion, IsKey
  <2>2. cols[i].name \in Included(cols, "automatic")
    BY <2>1 DEF Included
  <2> QED
    BY <1>1, <2>2
<1>4. Resolve(md, cols).props \subseteq Names
  BY <1>1, <1>2
<1>5. Resolve(md, cols) \in Entry
  BY <1>4 DEF Resolve, Entry
<1> QED
  BY <1>3, <1>5 DEF ColumnsOf

LEMMA MetadataTypes ==
  ASSUME NEW cols, \A c \in ColumnsOf(cols) : c.name \in Names
  PROVE  Metadata(cols) \in StreamMetadata
<1>1. NamesOf(cols) \subseteq Names
  BY DEF NamesOf, ColumnsOf
<1> QED
  BY <1>1 DEF Metadata, StreamMetadata

LEMMA DiscoverTypes ==
  ASSUME NEW cols, \A c \in ColumnsOf(cols) : c.name \in Names
  PROVE  Discover(cols) \in Entry
<1>1. Discover(cols) = Resolve(Metadata(cols), cols)
  BY DEF Discover, Resolve
<1> QED
  BY <1>1, MetadataTypes, ResolveNames

\* Discovery finds a table that exists, or nothing.
LEMMA FoundFacts ==
  ASSUME TypeOK, NEW t \in Tables, Found(t) # <<>>
  PROVE  \E u \in Tables : Found(t) = tables[u]
<1> DEFINE existing == {i \in DOMAIN Namesakes[t] : tables[Namesakes[t][i]] # <<>>}
           first == CHOOSE i \in existing : \A j \in existing : i <= j
<1>1. Namesakes[t] \in Seq(Tables) /\ DOMAIN Namesakes[t] = 1 .. Len(Namesakes[t])
  BY ColumnMappingAssumption, LenProperties
<1>2. existing # {}
  BY DEF Found
<1>3. Found(t) = tables[Namesakes[t][first]]
  BY <1>2 DEF Found
<1>4. \E i \in existing : \A j \in existing : i <= j
  <2>1. existing \subseteq Nat
    BY <1>1
  <2> HIDE DEF existing
  <2> QED
    BY <1>2, <2>1, HasLeast
<1>5. first \in existing
  <2> HIDE DEF existing
  <2> QED
    BY <1>4
<1>6. Namesakes[t][first] \in Tables
  BY <1>1, <1>5, ElementOfSeq
<1> QED
  BY <1>3, <1>6

LEMMA FoundInOneDatabase ==
  ASSUME OneDatabase, NEW t \in Tables
  PROVE  Found(t) = tables[t]
<1> DEFINE existing == {i \in DOMAIN Namesakes[t] : tables[Namesakes[t][i]] # <<>>}
           first == CHOOSE i \in existing : \A j \in existing : i <= j
<1>1. Namesakes[t] = <<t>> /\ DOMAIN Namesakes[t] = {1} /\ Namesakes[t][1] = t
  <2>1. Namesakes[t] = <<t>>
    BY DEF OneDatabase
  <2> QED
    BY <2>1
<1>2. existing = IF tables[t] # <<>> THEN {1} ELSE {}
  BY <1>1
<1>3. CASE tables[t] # <<>>
  <2>1. first = 1
    BY <1>2, <1>3
  <2> QED
    BY <1>1, <1>2, <1>3, <2>1 DEF Found
<1>4. CASE tables[t] = <<>>
  BY <1>2, <1>4 DEF Found
<1> QED
  BY <1>3, <1>4

-----------------------------------------------------------------------------
(* The run.                                                                 *)

LEMMA NoEntryTypes == NoEntry \in Entry /\ NoEntry.props = {}
<1>1. Metadata(<<>>) \in StreamMetadata
  BY MetadataTypes DEF ColumnsOf
<1> QED
  BY <1>1 DEF NoEntry, Entry

\* The names of a table's columns.
LEMMA TableNames ==
  ASSUME Base, NEW t \in Tables
  PROVE  \A c \in ColumnsOf(tables[t]) :
           c \in Columns /\ c.name \in Names /\ c.name \in {"id"} \cup ColumnNames[t]
<1>1. \A c \in ColumnsOf(tables[t]) : c \in Columns /\ OwnColumn(t, c)
  BY TableTypes DEF Base, TablesOK, ColumnsOf
<1> QED
  BY <1>1 DEF OwnColumn, Names

LEMMA StopKeeps ==
  ASSUME Base, NEW position \in 1 .. Len(log) + 1, Stop(position),
         UNCHANGED <<clientVars, catalog, outVars>>, faults' \in Nat
  PROVE  Base' /\ IgnoredOK' /\ LookedOK'
<1>1. /\ tables' = tables /\ log' = log /\ altered' = altered /\ server' = server /\ clock' = clock
      /\ catalog' = catalog /\ record' = record /\ emitted' = emitted
  BY DEF clientVars, outVars
<1>2. /\ pc' = "off" /\ saved' = position /\ legacy' = FALSE /\ end' = 0 /\ next' = 0
      /\ ignored' = {} /\ looked' = {} /\ entry' = [t \in Tables |-> NoEntry]
      /\ schema' = [t \in Tables |-> {}] /\ cache' = [t \in Tables |-> <<>>]
  BY DEF Stop, Forget
<1>3. TypeOK'
  <2>1. entry' \in [Tables -> Entry] /\ schema' \in [Tables -> SUBSET Names]
    BY <1>2, NoEntryTypes
  <2>2. legacy' \in BOOLEAN /\ pc' \in {"off", "select", "loop"} /\ ignored' \subseteq Names
    BY <1>2
  <2>3. saved' \in 1 .. Len(log') + 1 /\ {end', next'} \subseteq 0 .. Len(log') + 1
    BY <1>1, <1>2, EventTypes DEF Base
  <2>4. cache' \in [Tables -> Seq(Columns)]
    BY <1>2, EmptySeq
  <2> QED
    BY <1>1, <2>1, <2>2, <2>3, <2>4 DEF Base, TypeOK
<1>4. TablesOK' /\ LogOK' /\ AltersOK'
  BY <1>1 DEF Base, TablesOK, LogOK, OwnColumn, AltersOK, Unaltered
<1>5. Mapped' = {}
  BY <1>2 DEF Mapped
<1>6. CacheOK'
  BY <1>2 DEF CacheOK, ColumnsOf
<1> QED
  BY <1>2, <1>3, <1>4, <1>5, <1>6 DEF Base, LoopOK, EntriesOK, IgnoredOK, LookedOK

LEMMA ChooseStreamsKeeps ==
  ASSUME Base, ChooseStreams
  PROVE  Base' /\ IgnoredOK' /\ LookedOK'
<1>1. /\ tables' = tables /\ log' = log /\ server' = server /\ clock' = clock /\ catalog' = catalog
      /\ altered' = altered /\ cache' = cache
      /\ saved' = saved /\ pc = "off" /\ pc' = "select" /\ legacy' = legacy /\ end' = end /\ next' = next
      /\ ignored' = ignored /\ looked' = looked /\ schema' = schema /\ record' = record
      /\ emitted' = emitted /\ faults' = faults
  BY DEF ChooseStreams, clientVars, loopVars, outVars
<1>2. /\ entry' = [t \in Tables |-> IF t \in StreamsToSync THEN Resolve(catalog[t], tables[t]) ELSE NoEntry]
  BY DEF ChooseStreams
<1>3. ASSUME NEW t \in Tables
      PROVE  /\ Resolve(catalog[t], tables[t]) \in Entry
             /\ tables[t] # <<>> => "id" \in Resolve(catalog[t], tables[t]).props
  <2>1. catalog[t] \in StreamMetadata
    BY DEF Base, TypeOK
  <2>2. /\ Resolve(catalog[t], tables[t]) \in Entry
        /\ \A c \in ColumnsOf(tables[t]) : IsKey(c) => c.name \in Resolve(catalog[t], tables[t]).props
    BY <2>1, TableNames, ResolveNames
  <2>3. tables[t] # <<>> => \E c \in ColumnsOf(tables[t]) : IsKey(c)
    BY DEF Base, TablesOK
  <2> QED
    BY <2>2, <2>3 DEF IsKey
<1>4. entry' \in [Tables -> Entry]
  BY <1>2, <1>3, NoEntryTypes
<1>5. \A t \in Mapped' : "id" \in entry'[t].props
  BY <1>2, <1>3 DEF Mapped, StreamsToSync
<1>6. TypeOK'
  BY <1>1, <1>4 DEF Base, TypeOK
<1>7. TablesOK' /\ LogOK' /\ LoopOK' /\ EntriesOK' /\ AltersOK' /\ CacheOK'
  BY <1>1, <1>5 DEF Base, TablesOK, LogOK, LoopOK, EntriesOK, OwnColumn, AltersOK, CacheOK, Unaltered
<1>8. IgnoredOK' /\ LookedOK'
  BY <1>1 DEF Base, LoopOK, IgnoredOK, LookedOK
<1> QED
  BY <1>6, <1>7, <1>8 DEF Base

LEMMA OpenReaderKeeps ==
  ASSUME Base, OpenReader
  PROVE  Base' /\ IgnoredOK' /\ LookedOK'
<1>1. /\ tables' = tables /\ log' = log /\ server' = server /\ clock' = clock /\ catalog' = catalog
      /\ altered' = altered /\ cache' = cache /\ saved' = saved /\ pc = "select" /\ pc' = "loop"
      /\ end' = Len(log) + 1 /\ next' = saved /\ entry' = entry
      /\ ignored' = ignored /\ looked' = looked /\ schema' = [t \in Tables |-> entry[t].props]
      /\ record' = record /\ emitted' = emitted /\ faults' = faults
  BY DEF OpenReader, clientVars, outVars
<1>2. /\ saved \in 1 .. Len(log) + 1 /\ Len(log) \in Nat
      /\ \A t \in Tables : entry[t].props \subseteq Names
  BY EventTypes DEF Base, TypeOK, Entry
<1>3. ignored = {} /\ looked = {}
  BY <1>1 DEF Base, LoopOK
<1>4. schema' \in [Tables -> SUBSET Names] /\ end' \in 0 .. Len(log) + 1 /\ next' \in 0 .. Len(log) + 1
  BY <1>1, <1>2
<1>5. legacy' \in BOOLEAN
  BY DEF OpenReader
<1>6. TypeOK'
  BY <1>1, <1>4, <1>5 DEF Base, TypeOK
<1>7. TablesOK' /\ LogOK'
  BY <1>1 DEF Base, TablesOK, LogOK, OwnColumn
<1>8. LoopOK'
  BY <1>1, <1>2 DEF LoopOK
<1>9. EntriesOK'
  BY <1>1 DEF Base, EntriesOK, Mapped
<1>10. AltersOK' /\ CacheOK'
  BY <1>1 DEF Base, AltersOK, CacheOK, Unaltered
<1> QED
  BY <1>1, <1>3, <1>6, <1>7, <1>8, <1>9, <1>10 DEF Base, IgnoredOK, LookedOK

-----------------------------------------------------------------------------
(* The loop.                                                                *)

\* The next event is one of the binlog.
LEMMA NextEvent ==
  ASSUME Base, pc = "loop", next < end
  PROVE  /\ next \in DOMAIN log /\ next \in 1 .. end - 1 /\ next + 1 \in 1 .. Len(log) + 1 /\ next + 1 <= end
         /\ Event.table \in Tables /\ Event.cols \in Seq(Columns)
         /\ \A c \in ColumnsOf(Event.cols) : OwnColumn(Event.table, c)
<1>1. /\ Len(log) \in Nat /\ DOMAIN log = 1 .. Len(log) /\ end \in 0 .. Len(log) + 1
      /\ next \in 0 .. Len(log) + 1 /\ 1 <= next
  BY EventTypes DEF Base, LoopOK
<1>2. /\ next \in DOMAIN log /\ next \in 1 .. end - 1 /\ next + 1 \in 1 .. Len(log) + 1 /\ next + 1 <= end
  BY <1>1
<1> QED
  BY <1>2, EventTypes DEF Base, LogOK, Event

\* What the library knows of a table.
LEMMA KnownNames ==
  ASSUME Base, NEW t \in Tables
  PROVE  /\ KnownColumns(t) \in Seq(Columns)
         /\ \A c \in ColumnsOf(KnownColumns(t)) : c.name \in {"id"} \cup ColumnNames[t]
<1>1. cache[t] \in Seq(Columns) /\ tables[t] \in Seq(Columns)
  BY DEF Base, TypeOK
<1> QED
  BY <1>1, TableNames DEF Base, CacheOK, KnownColumns

\* They are the columns of the event, if its table was not altered since.
LEMMA KnownOfUnaltered ==
  ASSUME Base, pc = "loop", next < end, Unaltered(Event)
  PROVE  KnownColumns(Event.table) = Event.cols
<1>1. next \in DOMAIN log /\ next \in 1 .. end - 1 /\ Event.table \in Tables
  BY NextEvent
<1>2. tables[Event.table] = Event.cols
  BY <1>1 DEF Base, AltersOK, Event
<1>3. cache[Event.table] # <<>> => cache[Event.table] = Event.cols
  BY <1>1 DEF Base, CacheOK, Event
<1> QED
  BY <1>2, <1>3 DEF KnownColumns

\* Looking the columns up.
LEMMA LookUpKeeps ==
  ASSUME Base, pc = "loop", next < end, Advance, LookUp \/ cache' = cache
  PROVE  cache' \in [Tables -> Seq(Columns)] /\ AltersOK' /\ CacheOK'
<1>1. tables' = tables /\ log' = log /\ altered' = altered /\ pc' = pc /\ end' = end
  BY DEF Advance, clientVars
<1>2. cache \in [Tables -> Seq(Columns)] /\ tables \in [Tables -> Seq(Columns)]
  BY DEF Base, TypeOK
<1>3. AltersOK'
  BY <1>1 DEF Base, AltersOK, Unaltered
<1>4. CASE cache' = cache
  BY <1>1, <1>2, <1>3, <1>4 DEF Base, CacheOK, Unaltered
<1>5. CASE cache' # cache
  <2>1. Event.table \in Tables /\ cache' = [cache EXCEPT ![Event.table] = KnownColumns(Event.table)]
    BY <1>5, NextEvent DEF LookUp
  <2>2. /\ cache'[Event.table] = tables[Event.table]
        /\ \A t \in Tables : t # Event.table => cache'[t] = cache[t]
    BY <1>2, <1>5, <2>1 DEF KnownColumns
  <2>3. cache' \in [Tables -> Seq(Columns)]
    BY <1>2, <2>1, KnownNames
  <2>4. ASSUME NEW t \in Tables
        PROVE  \A c \in ColumnsOf(cache'[t]) : c.name \in {"id"} \cup ColumnNames[t]
    BY <2>2, TableNames DEF Base, CacheOK
  <2>5. ASSUME NEW t \in Tables, cache'[t] # <<>>, NEW i \in 1 .. end - 1,
               log[i].table = t, Unaltered(log[i])
        PROVE  log[i].cols = cache'[t]
    <3>1. log[i].cols = tables[t]
      BY <2>5, EventTypes DEF Base, AltersOK
    <3> QED
      BY <2>2, <2>5, <3>1 DEF Base, CacheOK
  <2>6. CacheOK'
    BY <1>1, <2>4, <2>5 DEF CacheOK, Unaltered
  <2> QED
    BY <1>3, <2>3, <2>6
<1> QED
  BY <1>4, <1>5

\* The names of an event are names of its table.
LEMMA DiffNames ==
  ASSUME Base, Mappable
  PROVE  /\ \A n \in Diff : /\ n \in ColumnNames[Event.table] /\ n # "id"
                            /\ n \notin ignored /\ n \notin entry[Event.table].props
         /\ Diff \subseteq Names
<1>1. pc = "loop" /\ next < end /\ Event.table \in Mapped
  BY DEF Mappable, Reads
<1>2. Event.table \in Tables
  BY <1>1, NextEvent
<1>3. "id" \in entry[Event.table].props
  BY <1>1 DEF Base, EntriesOK
<1>4. ASSUME NEW i \in DOMAIN EventNames, EventNames[i] # Unnamed
      PROVE  EventNames[i] \in {"id"} \cup ColumnNames[Event.table]
  <2>1. \A c \in ColumnsOf(Event.cols) \cup ColumnsOf(KnownColumns(Event.table)) :
          c.name \in {"id"} \cup ColumnNames[Event.table]
    BY <1>1, <1>2, NextEvent, KnownNames DEF OwnColumn
  <2>2. i \in DOMAIN Event.cols
    BY DEF EventNames
  <2>3. CASE Event.named
    BY <2>1, <2>2, <2>3 DEF EventNames, ColumnsOf
  <2>4. CASE ~Event.named
    <3>1. /\ Len(KnownColumns(Event.table)) = Len(Event.cols)
          /\ EventNames[i] = KnownColumns(Event.table)[i].name
      BY <1>4, <2>2, <2>4 DEF EventNames
    <3>2. i \in DOMAIN KnownColumns(Event.table)
      BY <1>1, <1>2, <2>2, <3>1, NextEvent, KnownNames, LenProperties
    <3> QED
      BY <2>1, <3>1, <3>2 DEF ColumnsOf
  <2> QED
    BY <2>3, <2>4
<1>5. \A n \in Diff : n \in {"id"} \cup ColumnNames[Event.table] /\ n \notin ignored
                     /\ n \notin entry[Event.table].props
  BY <1>4 DEF Diff
<1>6. \A n \in Diff : n # "id" /\ n \in ColumnNames[Event.table]
  BY <1>3, <1>5
<1> QED
  BY <1>2, <1>5, <1>6 DEF Names

\* What does not touch the entries keeps everything but what depends on ignored and
\* looked.
LEMMA AdvanceKeeps ==
  ASSUME Base, pc = "loop", next < end, Advance, LookUp \/ cache' = cache,
         ignored' \subseteq Names, "id" \notin ignored',
         emitted' \subseteq DOMAIN log, record'.event \in {0} \cup DOMAIN log,
         entry' \in [Tables -> Entry], schema' \in [Tables -> SUBSET Names],
         \A t \in Mapped' : "id" \in entry'[t].props,
         \A t \in Tables : entry'[t].props \subseteq schema'[t]
  PROVE  Base'
<1>1. /\ tables' = tables /\ log' = log /\ server' = server /\ clock' = clock /\ catalog' = catalog
      /\ pc' = pc /\ legacy' = legacy /\ end' = end /\ faults' = faults /\ altered' = altered
      /\ next' = next + 1 /\ saved' \in {saved, next + 1}
  BY DEF Advance, clientVars
<1>2. next + 1 \in 1 .. Len(log) + 1 /\ next + 1 <= end /\ Len(log) \in Nat /\ next \in Nat /\ 1 <= next
  BY NextEvent, EventTypes DEF Base
<1>3. saved' \in 1 .. Len(log') + 1 /\ {end', next'} \subseteq 0 .. Len(log') + 1
  BY <1>1, <1>2 DEF Base, TypeOK
<1>8. cache' \in [Tables -> Seq(Columns)] /\ AltersOK' /\ CacheOK'
  BY LookUpKeeps
<1>4. TypeOK'
  BY <1>1, <1>3, <1>8 DEF Base, TypeOK
<1>5. TablesOK' /\ LogOK'
  BY <1>1 DEF Base, TablesOK, LogOK, OwnColumn
<1>6. LoopOK'
  BY <1>1, <1>2 DEF LoopOK
<1>7. EntriesOK'
  BY DEF EntriesOK
<1> QED
  BY <1>4, <1>5, <1>6, <1>7, <1>8 DEF Base

\* A record is of an event.
LEMMA RecordTypes ==
  ASSUME Base, pc = "loop", next < end, NEW columns, WriteRecord(columns)
  PROVE  emitted' \subseteq DOMAIN log /\ record'.event \in {0} \cup DOMAIN log
<1>1. record'.event = next /\ emitted' = emitted \cup {next}
  BY DEF WriteRecord
<1> QED
  BY <1>1, NextEvent DEF Base, TypeOK

\* Where nothing is ignored or looked for, and no entry changes.
LEMMA SameMappingKeeps ==
  ASSUME Base, pc = "loop", next < end, Advance, LookUp \/ cache' = cache,
         UNCHANGED <<streamVars, ignored, looked>>, emitted' \subseteq DOMAIN log,
         record'.event \in {0} \cup DOMAIN log
  PROVE  Base' /\ (IgnoredOK => IgnoredOK') /\ (LookedOK => LookedOK')
<1>1. /\ tables' = tables /\ log' = log /\ clock' = clock /\ pc' = pc /\ end' = end
      /\ entry' = entry /\ schema' = schema /\ ignored' = ignored /\ looked' = looked
  BY DEF Advance, clientVars, streamVars
<1>2. Mapped' = Mapped
  BY <1>1 DEF Mapped
<1>3. Base'
  BY <1>1, <1>2, AdvanceKeeps DEF Base, TypeOK, EntriesOK
<1>4. IgnoredOK => IgnoredOK'
  BY <1>1, <1>2 DEF IgnoredOK, Due
<1>5. LookedOK => LookedOK'
  BY <1>1 DEF LookedOK, FoundAs
<1> QED
  BY <1>3, <1>4, <1>5

LEMMA SkipEventKeeps ==
  ASSUME Base, SkipEvent
  PROVE  Base' /\ (IgnoredOK => IgnoredOK') /\ (LookedOK => LookedOK')
<1>1. /\ pc = "loop" /\ next < end /\ Advance /\ UNCHANGED <<streamVars, ignored, looked>>
      /\ emitted' = emitted /\ record' = record /\ cache' = cache
  BY DEF SkipEvent, outVars
<1> QED
  BY <1>1, SameMappingKeeps DEF Base, TypeOK

LEMMA MapEventKeeps ==
  ASSUME Base, MapEvent
  PROVE  Base' /\ (IgnoredOK => IgnoredOK') /\ (LookedOK => LookedOK')
<1>1. /\ pc = "loop" /\ next < end /\ Advance /\ UNCHANGED <<streamVars, ignored, looked>>
      /\ WriteRecord(entry[Event.table].props) /\ LookUp
  BY DEF MapEvent, Mappable, Reads
<1> QED
  BY <1>1, RecordTypes, SameMappingKeeps

LEMMA IgnoreColumnsKeeps ==
  ASSUME Base, IgnoreColumns
  PROVE  Base' /\ (OwnNames /\ IgnoredOK => IgnoredOK') /\ (LookedOK => LookedOK')
<1>1. /\ Mappable /\ pc = "loop" /\ next < end /\ Advance /\ UNCHANGED <<streamVars, looked>>
      /\ ~ShouldRunDiscovery(Diff, entry[Event.table].md)
      /\ ignored' = ignored \cup Diff /\ WriteRecord(entry[Event.table].props) /\ LookUp
  BY DEF IgnoreColumns, Mappable, Reads
<1>2. /\ tables' = tables /\ log' = log /\ clock' = clock /\ pc' = pc /\ end' = end
      /\ entry' = entry /\ schema' = schema /\ looked' = looked
  BY <1>1 DEF Advance, clientVars, streamVars
<1>3. Mapped' = Mapped
  BY <1>2 DEF Mapped
<1>4. ignored' \subseteq Names /\ "id" \notin ignored'
  BY <1>1, DiffNames DEF Base, TypeOK, EntriesOK
<1>5. Base'
  <2>1. emitted' \subseteq DOMAIN log /\ record'.event \in {0} \cup DOMAIN log
    BY <1>1, RecordTypes
  <2> QED
    BY <1>1, <1>2, <1>3, <1>4, <2>1, AdvanceKeeps DEF Base, TypeOK, EntriesOK
<1>6. \A n \in Diff : n \in Unsupported(entry[Event.table].md)
  BY <1>1 DEF ShouldRunDiscovery, Unsupported
<1>7. ASSUME OwnNames, IgnoredOK PROVE IgnoredOK'
  <2> SUFFICES ASSUME NEW i \in 1 .. end - 1, NEW c \in ColumnsOf(log[i].cols),
                      log[i].table \in Mapped, c.supported, c.name \in ignored \cup Diff,
                      c \in ColumnsOf(tables[log[i].table])
               PROVE  Due(log[i].table, c)
    BY <1>1, <1>2, <1>3 DEF IgnoredOK, Due
  <2>1. CASE c.name \in ignored
    BY <1>1, <1>7, <2>1 DEF IgnoredOK
  <2>2. CASE c.name \in Diff
    <3>1. log[i].table \in Tables /\ Event.table \in Tables
      BY <1>1, NextEvent DEF Mapped
    <3>2. c.name \in {"id"} \cup ColumnNames[log[i].table]
      BY <3>1, TableNames
    <3>3. c.name \in ColumnNames[Event.table] /\ c.name # "id"
      BY <1>1, <2>2, DiffNames
    <3>4. log[i].table = Event.table
      BY <1>7, <3>1, <3>2, <3>3 DEF OwnNames
    <3> QED
      BY <1>6, <2>2, <3>4 DEF Due
  <2> QED
    BY <2>1, <2>2
<1>8. LookedOK => LookedOK'
  BY <1>1, <1>2 DEF LookedOK, FoundAs
<1> QED
  BY <1>5, <1>7, <1>8

\* What was discovered is what a stream goes on with, and the target knows it.
LEMMA Adopted ==
  ASSUME Base, pc = "loop", NEW t \in Tables, NEW new \in Entry, Adopt(t, new)
  PROVE  /\ entry' \in [Tables -> Entry] /\ schema' \in [Tables -> SUBSET Names]
         /\ entry'[t].props = new.props
         /\ \A u \in Tables : u # t => entry'[u] = entry[u]
         /\ \A u \in Tables : entry'[u].props \subseteq schema'[u]
<1>1. /\ entry \in [Tables -> Entry] /\ schema \in [Tables -> SUBSET Names]
      /\ \A u \in Tables : entry[u].props \subseteq schema[u]
  BY DEF Base, TypeOK, EntriesOK
<1>2. new.props \subseteq Names
  BY DEF Entry
<1>3. CASE new.props = entry[t].props
  BY <1>1, <1>3 DEF Adopt, streamVars
<1>4. CASE new.props # entry[t].props
  <2>1. entry' = [entry EXCEPT ![t] = new] /\ schema' = [schema EXCEPT ![t] = new.props]
    BY <1>4 DEF Adopt
  <2> QED
    BY <1>1, <1>2, <2>1
<1> QED
  BY <1>3, <1>4

LEMMA RediscoverFacts ==
  ASSUME Base, Rediscover, NEW t, t = Event.table, NEW new, new = Discover(Found(t))
  PROVE  /\ Mappable /\ pc = "loop" /\ next < end /\ t \in Tables /\ t \in Mapped /\ Advance /\ LookUp
         /\ tables' = tables /\ log' = log /\ clock' = clock /\ pc' = pc /\ end' = end
         /\ new \in Entry /\ "id" \in new.props
         /\ \A c \in ColumnsOf(Found(t)) : c.supported => c.name \in new.props
         /\ \A n \in new.props : \E c \in ColumnsOf(Found(t)) : c.name = n /\ c.supported /\ c \in Columns
         /\ entry' \in [Tables -> Entry] /\ schema' \in [Tables -> SUBSET Names]
         /\ entry'[t].props = new.props
         /\ \A u \in Tables : u # t => entry'[u] = entry[u]
         /\ \A u \in Tables : entry'[u].props \subseteq schema'[u]
         /\ ignored' = ignored \cup Unresolved(new)
         /\ looked' = looked \cup {[table |-> t, name |-> n, cols |-> Found(t)] : n \in Diff}
         /\ WriteRecord(entry'[t].props)
<1>1. /\ Mappable /\ pc = "loop" /\ next < end /\ t \in Mapped /\ Advance /\ LookUp /\ Found(t) # <<>>
      /\ Adopt(t, new) /\ ignored' = ignored \cup Unresolved(new)
      /\ looked' = looked \cup {[table |-> t, name |-> n, cols |-> Found(t)] : n \in Diff}
      /\ WriteRecord(entry'[t].props)
  BY DEF Rediscover, Rediscovers, Mappable, Reads
<1>2. /\ tables' = tables /\ log' = log /\ clock' = clock /\ pc' = pc /\ end' = end
  BY <1>1 DEF Advance, clientVars
<1>3. t \in Tables
  BY <1>1 DEF Mapped
<1>4. PICK v \in Tables : Found(t) = tables[v]
  BY <1>1, <1>3, FoundFacts DEF Base
<1>5. \A c \in ColumnsOf(Found(t)) : c \in Columns /\ c.name \in Names
  BY <1>4, TableNames
<1>6. PICK k \in ColumnsOf(Found(t)) : IsKey(k)
  BY <1>1, <1>4 DEF Base, TablesOK
<1>7. /\ new \in Entry
      /\ \A c \in ColumnsOf(Found(t)) : c.supported => c.name \in new.props
      /\ \A n \in new.props : \E c \in ColumnsOf(Found(t)) : c.name = n /\ c.supported
  BY <1>5, DiscoverTypes, DiscoverNames
<1>8. "id" \in new.props
  BY <1>6, <1>7 DEF IsKey
<1>9. /\ entry' \in [Tables -> Entry] /\ schema' \in [Tables -> SUBSET Names]
      /\ entry'[t].props = new.props
      /\ \A u \in Tables : u # t => entry'[u] = entry[u]
      /\ \A u \in Tables : entry'[u].props \subseteq schema'[u]
  BY <1>1, <1>3, <1>7, Adopted
<1>10. \A n \in new.props : \E c \in ColumnsOf(Found(t)) : c.name = n /\ c.supported /\ c \in Columns
  BY <1>5, <1>7
<1> QED
  BY <1>1, <1>2, <1>3, <1>7, <1>8, <1>9, <1>10

LEMMA RediscoverKeeps ==
  ASSUME Base, Rediscover
  PROVE  /\ Base'
         /\ OwnNames /\ OneDatabase /\ IgnoredOK => IgnoredOK'
         /\ OneDatabase /\ LookedOK => LookedOK'
<1> DEFINE t == Event.table
           new == Discover(Found(t))
<1>1. /\ Mappable /\ pc = "loop" /\ next < end /\ t \in Tables /\ t \in Mapped /\ Advance /\ LookUp
      /\ tables' = tables /\ log' = log /\ clock' = clock /\ pc' = pc /\ end' = end
      /\ new \in Entry /\ "id" \in new.props
      /\ entry' \in [Tables -> Entry] /\ schema' \in [Tables -> SUBSET Names]
      /\ entry'[t].props = new.props
      /\ \A u \in Tables : u # t => entry'[u] = entry[u]
      /\ \A u \in Tables : entry'[u].props \subseteq schema'[u]
      /\ ignored' = ignored \cup Unresolved(new)
      /\ looked' = looked \cup {[table |-> t, name |-> n, cols |-> Found(t)] : n \in Diff}
      /\ WriteRecord(entry'[t].props)
  BY RediscoverFacts
<1>2. /\ \A c \in ColumnsOf(Found(t)) : c.supported => c.name \in new.props
      /\ \A n \in new.props : \E c \in ColumnsOf(Found(t)) : c.name = n /\ c.supported /\ c \in Columns
  BY RediscoverFacts
<1>3. /\ \A n \in Diff : n \in ColumnNames[t] /\ n # "id"
      /\ Diff \subseteq Names
  BY <1>1, DiffNames
<1>4. Unresolved(new) = Diff \ new.props
  BY DEF Unresolved
<1> HIDE DEF t, new
<1>5. \A u \in Mapped' : u = t \/ (u \in Mapped /\ entry'[u] = entry[u])
  BY <1>1 DEF Mapped
<1>6. Base'
  <2>1. emitted' \subseteq DOMAIN log /\ record'.event \in {0} \cup DOMAIN log
    BY <1>1, RecordTypes
  <2>2. ignored' \subseteq Names /\ "id" \notin ignored'
    BY <1>1, <1>3, <1>4 DEF Base, TypeOK, EntriesOK
  <2>3. \A u \in Mapped' : "id" \in entry'[u].props
    BY <1>1, <1>5 DEF Base, EntriesOK
  <2> QED
    BY <1>1, <2>1, <2>2, <2>3, AdvanceKeeps
<1>7. ASSUME OwnNames, OneDatabase, IgnoredOK PROVE IgnoredOK'
  <2> SUFFICES ASSUME NEW i \in 1 .. end - 1, NEW c \in ColumnsOf(log[i].cols),
                      log[i].table \in Mapped', c.supported, c.name \in ignored \cup Unresolved(new),
                      c \in ColumnsOf(tables[log[i].table])
               PROVE  c.name \in entry'[log[i].table].props \cup Unsupported(entry'[log[i].table].md)
    BY <1>1 DEF IgnoredOK, Due
  <2>1. CASE log[i].table = t
    <3>1. c \in ColumnsOf(Found(t))
      BY <1>1, <1>7, <2>1, FoundInOneDatabase
    <3> QED
      BY <1>1, <1>2, <2>1, <3>1
  <2>2. CASE log[i].table # t
    <3>1. log[i].table \in Mapped /\ entry'[log[i].table] = entry[log[i].table] /\ log[i].table \in Tables
      BY <1>5, <2>2 DEF Mapped
    <3>2. CASE c.name \in ignored
      BY <1>1, <1>7, <3>1, <3>2 DEF IgnoredOK, Due
    <3>3. CASE c.name \in Unresolved(new)
      <4>1. c.name \in ColumnNames[t] /\ c.name # "id"
        BY <1>3, <1>4, <3>3
      <4>2. c.name \in {"id"} \cup ColumnNames[log[i].table]
        BY <3>1, TableNames
      <4> QED
        BY <1>1, <1>7, <2>2, <3>1, <4>1, <4>2 DEF OwnNames
    <3> QED
      BY <3>2, <3>3
  <2> QED
    BY <2>1, <2>2
<1>8. ASSUME OneDatabase, LookedOK PROVE LookedOK'
  <2>1. Found(t) = tables[t]
    BY <1>1, <1>8, FoundInOneDatabase
  <2>2. ASSUME NEW c, c.supported, c \in ColumnsOf(tables[t]) PROVE c.name \in entry'[t].props
    BY <1>1, <1>2, <2>1, <2>2
  <2>3. ASSUME NEW l \in looked
        PROVE  /\ l.table \in Tables
               /\ l.name \in ignored' \/ \E c \in ColumnsOf(l.cols) : FoundAs(l, c)'
    <3>1. l.table \in Tables /\ (l.name \in ignored \/ \E c \in ColumnsOf(l.cols) : FoundAs(l, c))
      BY <1>8 DEF LookedOK
    <3>2. ASSUME NEW c \in ColumnsOf(l.cols), FoundAs(l, c) PROVE FoundAs(l, c)'
      <4>1. CASE l.table = t
        BY <1>1, <2>2, <3>2, <4>1 DEF FoundAs
      <4>2. CASE l.table # t
        BY <1>1, <3>1, <3>2, <4>2 DEF FoundAs
      <4> QED
        BY <4>1, <4>2
    <3> QED
      BY <1>1, <3>1, <3>2
  <2>4. ASSUME NEW n \in Diff, NEW l, l = [table |-> t, name |-> n, cols |-> Found(t)]
        PROVE  /\ l.table \in Tables
               /\ l.name \in ignored' \/ \E c \in ColumnsOf(l.cols) : FoundAs(l, c)'
    <3>1. l.table = t /\ l.name = n /\ l.cols = Found(t)
      BY <2>4
    <3>2. CASE n \in Unresolved(new)
      BY <1>1, <3>1, <3>2
    <3>3. CASE n \notin Unresolved(new)
      <4>1. n \in new.props
        BY <1>4, <2>4, <3>3
      <4>2. PICK c \in ColumnsOf(Found(t)) : c.name = n /\ c.supported /\ c \in Columns
        BY <1>2, <4>1
      <4>3. c.since \in Nat /\ c.since <= clock
        BY <1>1, <2>1, <4>2 DEF Base, TablesOK, OwnColumn, Columns
      <4>4. FoundAs(l, c)'
        BY <1>1, <3>1, <4>1, <4>2, <4>3 DEF FoundAs
      <4> QED
        BY <1>1, <3>1, <4>2, <4>4
    <3> QED
      BY <3>2, <3>3
  <2> QED
    BY <1>1, <2>3, <2>4 DEF LookedOK
<1> QED
  BY <1>6, <1>7, <1>8

-----------------------------------------------------------------------------
LEMMA InitHolds == Init => Base /\ IgnoredOK /\ LookedOK
<1> SUFFICES ASSUME Init PROVE Base /\ IgnoredOK /\ LookedOK
  OBVIOUS
<1>1. PICK K \in [Tables -> Kinds] :
        /\ tables = [t \in Tables |-> FirstColumns(t, K[t])]
        /\ catalog = [t \in Tables |-> [Metadata(FirstColumns(t, K[t])) EXCEPT
                        !.deselected = IF K[t] = "deselected" THEN {FirstName[t]} ELSE {}]]
  BY DEF Init
<1>2. ASSUME NEW t \in Tables
      PROVE  /\ FirstColumns(t, K[t]) \in Seq(Columns)
             /\ \A c \in ColumnsOf(FirstColumns(t, K[t])) : c.name \in {"id", FirstName[t]} /\ c.since = 0
             /\ \E c \in ColumnsOf(FirstColumns(t, K[t])) : IsKey(c)
  <2> DEFINE a == [name |-> "id", key |-> TRUE, supported |-> TRUE, since |-> 0]
             b == [name |-> FirstName[t], key |-> FALSE, supported |-> K[t] # "unsupported", since |-> 0]
  <2>1. FirstColumns(t, K[t]) = <<a, b>>
    BY DEF FirstColumns
  <2>2. FirstName[t] \in Names
    BY ColumnMappingAssumption DEF Names
  <2>3. a \in Columns /\ IsKey(a) /\ a.name = "id" /\ a.since = 0
    <3>1. a.name = "id" /\ a.key = TRUE /\ a.supported = TRUE /\ a.since = 0
      OBVIOUS
    <3>2. a \in Columns
      BY DEF Columns, Names
    <3> QED
      BY <3>1, <3>2, Zenon DEF IsKey
  <2>4. (K[t] # "unsupported") \in BOOLEAN
    OBVIOUS
  <2>5. b \in Columns /\ b.name = FirstName[t] /\ b.since = 0
    BY <2>2, <2>4 DEF Columns
  <2> HIDE DEF a, b
  <2>6. <<a, b>> \in Seq(Columns) /\ ColumnsOf(<<a, b>>) = {a, b}
    BY <2>3, <2>5 DEF ColumnsOf
  <2> QED
    BY <2>1, <2>3, <2>5, <2>6
<1>3. \A t \in Tables : FirstName[t] \in ColumnNames[t] /\ FirstName[t] \in Names /\ "id" \in Names
  BY ColumnMappingAssumption DEF Names
<1>4. tables \in [Tables -> Seq(Columns)]
  BY <1>1, <1>2
<1>5. ASSUME NEW t \in Tables PROVE catalog[t] \in StreamMetadata
  <2>1. Metadata(FirstColumns(t, K[t])) \in StreamMetadata
    BY <1>2, <1>3, MetadataTypes
  <2> QED
    BY <1>1, <1>3, <2>1 DEF StreamMetadata
<1>6. catalog \in [Tables -> StreamMetadata]
  BY <1>1, <1>5
<1>7. /\ altered = [t \in Tables |-> 0] /\ cache = [t \in Tables |-> <<>>]
      /\ log = <<>> /\ clock = 0 /\ server \in [row : BOOLEAN, full : BOOLEAN]
      /\ saved = 1 /\ pc = "off" /\ legacy = FALSE /\ end = 0 /\ next = 0 /\ ignored = {} /\ looked = {}
      /\ entry = [t \in Tables |-> NoEntry] /\ schema = [t \in Tables |-> {}]
      /\ record = NoRecord /\ emitted = {} /\ faults = 0
  BY ColumnMappingAssumption DEF Init
<1>8. /\ log \in Seq(RowChange) /\ saved \in 1 .. Len(log) + 1 /\ {end, next} \subseteq 0 .. Len(log) + 1
      /\ DOMAIN log = {} /\ record.event = 0
  BY <1>7 DEF NoRecord
<1>9. /\ entry \in [Tables -> Entry] /\ schema \in [Tables -> SUBSET Names] /\ legacy \in BOOLEAN
      /\ altered \in [Tables -> Nat] /\ cache \in [Tables -> Seq(Columns)]
  BY <1>7, NoEntryTypes, EmptySeq
<1>10. TypeOK
  BY <1>4, <1>6, <1>7, <1>8, <1>9 DEF TypeOK
<1>11. TablesOK /\ LogOK
  <2>1. ASSUME NEW t \in Tables
        PROVE  /\ \A c \in ColumnsOf(tables[t]) : OwnColumn(t, c)
               /\ \E c \in ColumnsOf(tables[t]) : IsKey(c)
    <3>1. tables[t] = FirstColumns(t, K[t])
      BY <1>1
    <3>2. ASSUME NEW c \in ColumnsOf(tables[t]) PROVE OwnColumn(t, c)
      <4>1. c.name \in {"id", FirstName[t]} /\ c.since = 0
        BY <1>2, <3>1, <3>2
      <4>2. clock = 0 /\ FirstName[t] \in ColumnNames[t]
        BY <1>3, <1>7
      <4> QED
        BY <4>1, <4>2 DEF OwnColumn
    <3> QED
      BY <1>2, <3>1, <3>2
  <2>2. LogOK
    BY <1>8 DEF LogOK
  <2> QED
    BY <2>1, <2>2 DEF TablesOK
<1>13. AltersOK /\ CacheOK
  BY <1>7, <1>8 DEF AltersOK, CacheOK, ColumnsOf
<1>12. LoopOK /\ EntriesOK /\ IgnoredOK /\ LookedOK
  BY <1>7 DEF LoopOK, EntriesOK, IgnoredOK, LookedOK, Mapped
<1> QED
  BY <1>10, <1>11, <1>12, <1>13 DEF Base

LEMMA EndsKeep ==
  ASSUME Base, NoReader \/ RefuseEvent \/ RediscoverFails \/ ReachEnd \/ Crash
  PROVE  Base' /\ IgnoredOK' /\ LookedOK'
<1>1. saved \in 1 .. Len(log) + 1 /\ faults \in Nat /\ Len(log) \in Nat
  BY EventTypes DEF Base, TypeOK
<1>2. CASE NoReader \/ RefuseEvent \/ RediscoverFails
  <2>1. Stop(saved) /\ UNCHANGED <<clientVars, catalog, outVars>> /\ faults' = faults
    BY <1>2 DEF NoReader, RefuseEvent, RediscoverFails
  <2> QED
    BY <1>1, <2>1, StopKeeps
<1>3. CASE ReachEnd
  <2>1. Stop(end) /\ UNCHANGED <<clientVars, catalog, outVars>> /\ faults' = faults /\ pc = "loop" /\ next = end
    BY <1>3 DEF ReachEnd
  <2>2. end \in 1 .. Len(log) + 1
    BY <1>1, <2>1, EventTypes DEF Base, LoopOK
  <2> QED
    BY <1>1, <2>1, <2>2, StopKeeps
<1>4. CASE Crash
  <2>1. Stop(saved) /\ UNCHANGED <<clientVars, catalog, outVars>> /\ faults' = faults + 1
    BY <1>4 DEF Crash
  <2> QED
    BY <1>1, <2>1, StopKeeps
<1> QED
  BY <1>2, <1>3, <1>4

LEMMA StepKeeps ==
  ASSUME Base, [Next]_vars
  PROVE  /\ Base'
         /\ OwnNames /\ OneDatabase /\ IgnoredOK => IgnoredOK'
         /\ OneDatabase /\ LookedOK => LookedOK'
<1>1. CASE ClientNext
  BY <1>1, ClientKeeps
<1>2. CASE ChooseStreams \/ OpenReader
  BY <1>2, ChooseStreamsKeeps, OpenReaderKeeps
<1>3. CASE NoReader \/ RefuseEvent \/ RediscoverFails \/ ReachEnd \/ Crash
  BY <1>3, EndsKeep
<1>4. CASE SkipEvent \/ MapEvent
  BY <1>4, SkipEventKeeps, MapEventKeeps
<1>5. CASE IgnoreColumns
  BY <1>5, IgnoreColumnsKeeps
<1>6. CASE Rediscover
  BY <1>6, RediscoverKeeps
<1>7. CASE UNCHANGED vars
  <2>1. /\ tables' = tables /\ log' = log /\ server' = server /\ clock' = clock /\ catalog' = catalog
        /\ altered' = altered /\ cache' = cache /\ saved' = saved /\ pc' = pc /\ legacy' = legacy /\ end' = end /\ next' = next
        /\ ignored' = ignored /\ looked' = looked /\ entry' = entry /\ schema' = schema
        /\ record' = record /\ emitted' = emitted /\ faults' = faults /\ Mapped' = Mapped
    BY <1>7 DEF vars, clientVars, streamVars, outVars, loopVars, Mapped
  <2>2. TypeOK'
    BY <2>1 DEF Base, TypeOK
  <2>3. TablesOK' /\ LogOK' /\ LoopOK' /\ EntriesOK' /\ AltersOK' /\ CacheOK'
    BY <2>1 DEF Base, TablesOK, LogOK, LoopOK, EntriesOK, OwnColumn, AltersOK, CacheOK, Unaltered
  <2>4. (IgnoredOK => IgnoredOK') /\ (LookedOK => LookedOK')
    BY <2>1 DEF IgnoredOK, LookedOK, Due, FoundAs
  <2> QED
    BY <2>2, <2>3, <2>4 DEF Base
<1> QED
  BY <1>1, <1>2, <1>3, <1>4, <1>5, <1>6, <1>7 DEF Next, RunStep

LEMMA BaseInvariance == Spec => []Base
<1>1. Init => Base
  BY InitHolds
<1>2. Base /\ [Next]_vars => Base'
  BY StepKeeps
<1> QED
  BY <1>1, <1>2, PTL DEF Spec

LEMMA LookedInvariance ==
  ASSUME OneDatabase
  PROVE  Spec => [](Base /\ LookedOK)
<1>1. Init => Base /\ LookedOK
  BY InitHolds
<1>2. Base /\ LookedOK /\ [Next]_vars => Base' /\ LookedOK'
  BY StepKeeps
<1> QED
  BY <1>1, <1>2, PTL DEF Spec

LEMMA IgnoredInvariance ==
  ASSUME OwnNames, OneDatabase
  PROVE  Spec => [](Base /\ IgnoredOK)
<1>1. Init => Base /\ IgnoredOK
  BY InitHolds
<1>2. Base /\ IgnoredOK /\ [Next]_vars => Base' /\ IgnoredOK'
  BY StepKeeps
<1> QED
  BY <1>1, <1>2, PTL DEF Spec

-----------------------------------------------------------------------------
(* Records.                                                                 *)

\* The steps that write a record, of the columns that are desired after them.
LEMMA RecordSteps ==
  ASSUME Base, [Next]_vars, Records
  PROVE  /\ MapEvent \/ IgnoreColumns \/ Rediscover
         /\ Mappable /\ pc = "loop" /\ next < end /\ Event.table \in Tables
         /\ WriteRecord(entry'[Event.table].props)
         /\ entry'[Event.table].props \subseteq schema'[Event.table]
<1>1. pc = "loop" /\ record' # record
  BY DEF Records
<1>2. MapEvent \/ IgnoreColumns \/ Rediscover
  <2>1. ASSUME ClientNext PROVE record' = record
    <3>1. \A t \in Tables : \A cols : Alter(t, cols) => Client
      BY DEF Alter
    <3>2. \A t \in Tables :
            /\ Write(t) => Client
            /\ DropTable(t) => Client
            /\ \A i \in DOMAIN tables[t] : DropColumn(t, i) \/ MoveColumn(t, i) => Client
            /\ \A i \in DOMAIN tables[t], n \in ColumnNames[t] : RenameColumn(t, i, n) => Client
            /\ \A i \in DOMAIN tables[t], n \in ColumnNames[t], u \in BOOLEAN :
                 AddColumn(t, i, n, u) => Client
      BY <3>1 DEF Write, DropTable, AddColumn, DropColumn, RenameColumn, MoveColumn
    <3>3. \A s : SetGlobal(s) => Client
      BY DEF SetGlobal
    <3>4. Client
      BY <2>1, <3>2, <3>3 DEF ClientNext
    <3> QED
      BY <3>4 DEF Client, outVars
  <2>2. ChooseStreams \/ OpenReader \/ NoReader \/ SkipEvent \/ RefuseEvent \/ RediscoverFails
          \/ ReachEnd \/ Crash => record' = record
    BY DEF ChooseStreams, OpenReader, NoReader, SkipEvent, RefuseEvent, RediscoverFails, ReachEnd, Crash, outVars
  <2>3. UNCHANGED vars => record' = record
    BY DEF vars, outVars
  <2> QED
    BY <1>1, <2>1, <2>2, <2>3 DEF Next, RunStep
<1>3. Mappable /\ next < end
  BY <1>2 DEF MapEvent, IgnoreColumns, Rediscover, Rediscovers, Mappable, Reads
<1>4. Event.table \in Tables
  BY <1>1, <1>3, NextEvent
<1>5. CASE MapEvent \/ IgnoreColumns
  <2>1. WriteRecord(entry[Event.table].props) /\ entry' = entry /\ schema' = schema
    BY <1>5 DEF MapEvent, IgnoreColumns, streamVars
  <2> QED
    BY <1>1, <1>2, <1>3, <1>4, <2>1 DEF Base, EntriesOK
<1>6. CASE Rediscover
  BY <1>1, <1>2, <1>3, <1>4, <1>6, RediscoverFacts
<1> QED
  BY <1>2, <1>5, <1>6

\* The fields of a record, by position.
LEMMA RecordFields ==
  ASSUME NEW columns, WriteRecord(columns)
  PROVE  /\ \A f \in record'.fields : \E i \in DOMAIN EventNames :
              f.as = EventNames[i] /\ f.col = Event.cols[i] /\ f.as \in columns
         /\ \A i \in DOMAIN EventNames : EventNames[i] \in columns =>
              [as |-> EventNames[i], col |-> Event.cols[i]] \in record'.fields
<1>1. record'.fields = {[as |-> EventNames[i], col |-> Event.cols[i]] :
                          i \in {j \in DOMAIN EventNames : EventNames[j] \in columns}}
  BY DEF WriteRecord
<1> HIDE DEF EventNames
<1>2. ASSUME NEW f \in record'.fields
      PROVE  \E i \in DOMAIN EventNames : f.as = EventNames[i] /\ f.col = Event.cols[i] /\ f.as \in columns
  BY <1>1
<1>3. ASSUME NEW i \in DOMAIN EventNames, EventNames[i] \in columns
      PROVE  [as |-> EventNames[i], col |-> Event.cols[i]] \in record'.fields
  BY <1>1, <1>3
<1> QED
  BY <1>2, <1>3

\* An event gets the names of its own columns, if it has them or its table was not
\* altered since.
LEMMA OwnEventNames ==
  ASSUME Base, Mappable, Event.named \/ Unaltered(Event)
  PROVE  EventNames = [i \in DOMAIN Event.cols |-> Event.cols[i].name]
<1>1. CASE Event.named
  BY <1>1 DEF EventNames
<1>2. CASE ~Event.named
  <2>1. KnownColumns(Event.table) = Event.cols
    BY <1>2, KnownOfUnaltered DEF Mappable, Reads
  <2>2. ASSUME NEW i \in DOMAIN Event.cols PROVE legacy
    <3>1. i \in DOMAIN EventNames /\ EventNames[i] # Unnamed
      BY <2>2 DEF EventNames, Mappable, NamesVerified
    <3> QED
      BY <1>2, <2>2, <3>1 DEF EventNames
  <2> QED
    BY <2>1, <2>2 DEF EventNames
<1> QED
  BY <1>1, <1>2

-----------------------------------------------------------------------------
(* The theorems.                                                            *)

\* Every variable has its type; positions are positions of the binlog.
THEOREM TypeCorrect == Spec => []TypeOK
<1>1. Base => TypeOK
  BY DEF Base
<1> QED
  BY <1>1, BaseInvariance, PTL

\* The target knows every column in a record, whatever discovery adopted on the way.
THEOREM RecordsFitSchemas == Spec => RecordFitsSchema
<1>1. ASSUME Base, [Next]_vars
      PROVE  [Records => \A f \in record'.fields : f.as \in schema'[log[next].table]]_vars
  <2> SUFFICES ASSUME Records, NEW f \in record'.fields PROVE f.as \in schema'[Event.table]
    BY DEF Event
  <2>1. WriteRecord(entry'[Event.table].props) /\ entry'[Event.table].props \subseteq schema'[Event.table]
    BY <1>1, RecordSteps
  <2> QED
    BY <2>1, RecordFields
<1> QED
  BY <1>1, BaseInvariance, PTL DEF Spec, RecordFitsSchema

\* A value goes to the column it came from, for any history of alterations and whatever
\* the library has looked up before, unless the event is older than an alteration of its
\* table and does not name its columns (COLUMN_MAPPING_RISK_MESSAGE): what is looked up
\* is looked up after the end position was fetched, and forgotten with the process.
THEOREM ValuesStay == Spec => ValuesStayWithTheirColumns
<1>1. ASSUME Base, [Next]_vars
      PROVE  [Records => \A f \in record'.fields :
                f.as # f.col.name =>
                  /\ ~log[next].named /\ ~Unaltered(log[next])
                  /\ Len(KnownColumns(log[next].table)) = Len(log[next].cols)]_vars
  <2> SUFFICES ASSUME Records, NEW f \in record'.fields, f.as # f.col.name
               PROVE  /\ ~Event.named /\ ~Unaltered(Event)
                      /\ Len(KnownColumns(Event.table)) = Len(Event.cols)
    BY DEF Event
  <2>1. WriteRecord(entry'[Event.table].props) /\ Mappable
    BY <1>1, RecordSteps
  <2>2. PICK i \in DOMAIN EventNames : f.as = EventNames[i] /\ f.col = Event.cols[i]
    BY <2>1, RecordFields
  <2>3. ~Event.named /\ ~Unaltered(Event)
    <3>1. i \in DOMAIN Event.cols
      BY <2>2 DEF EventNames
    <3> QED
      BY <1>1, <2>1, <2>2, <3>1, OwnEventNames
  <2>4. Len(KnownColumns(Event.table)) = Len(Event.cols)
    BY <2>1, <2>2, <2>3 DEF EventNames, Mappable, NamesVerified
  <2> QED
    BY <2>3, <2>4
<1> QED
  BY <1>1, BaseInvariance, PTL DEF Spec, ValuesStayWithTheirColumns

\* Discovery does not look twice for a column in the same table.
THEOREM DiscoversOnce ==
  ASSUME OneDatabase
  PROVE  Spec => NoRepeatedDiscovery
<1>1. ASSUME Base, LookedOK, [Next]_vars
      PROVE  [Rediscover => \A n \in Diff :
                [table |-> Event.table, name |-> n, cols |-> Found(Event.table)] \notin looked]_vars
  <2> SUFFICES ASSUME Rediscover, NEW n \in Diff, NEW l \in looked,
                      l = [table |-> Event.table, name |-> n, cols |-> Found(Event.table)]
               PROVE  FALSE
    OBVIOUS
  <2>1. Mappable /\ Event.table \in Tables
    BY <1>1, RediscoverFacts
  <2>2. n \notin ignored /\ n \notin entry[Event.table].props
    BY <1>1, <2>1, DiffNames
  <2>3. l.table = Event.table /\ l.name = n /\ l.cols = tables[Event.table]
    BY <2>1, FoundInOneDatabase
  <2>4. PICK c \in ColumnsOf(l.cols) : FoundAs(l, c)
    BY <1>1, <2>2, <2>3 DEF LookedOK
  <2> QED
    BY <2>2, <2>3, <2>4 DEF FoundAs
<1> QED
  BY <1>1, LookedInvariance, PTL DEF Spec, NoRepeatedDiscovery

\* The value of a supported column that the table still has is in the record, unless it
\* is known to be unsupported or was deselected (the discovery branch of the loop), or the
\* event is older than an alteration of its table and does not name its columns.
THEOREM LiveValuesKept ==
  ASSUME OwnNames, OneDatabase
  PROVE  Spec => NoLiveValueLost
<1> DEFINE Claim ==
      Records /\ (log[next].named \/ Unaltered(log[next])) =>
        LET t == log[next].table
        IN  \A c \in {log[next].cols[i] : i \in DOMAIN log[next].cols} :
              (/\ c.supported
               /\ c.name \notin catalog[t].deselected \cup Unsupported(entry[t].md)
               /\ \E i \in DOMAIN tables[t] : tables[t][i] = c)
                => [as |-> c.name, col |-> c] \in record'.fields
<1>1. ASSUME Base, IgnoredOK, [Next]_vars PROVE [Claim]_vars
  <2> DEFINE t == Event.table
  <2> SUFFICES ASSUME Records, Event.named \/ Unaltered(Event), NEW j \in DOMAIN Event.cols, NEW c, c = Event.cols[j],
                      c.supported, c.name \notin Unsupported(entry[t].md), c \in ColumnsOf(tables[t])
               PROVE  [as |-> c.name, col |-> c] \in record'.fields
    BY DEF Event, ColumnsOf
  <2>1. /\ MapEvent \/ IgnoreColumns \/ Rediscover
        /\ Mappable /\ pc = "loop" /\ next < end /\ t \in Tables
        /\ WriteRecord(entry'[t].props)
    BY <1>1, RecordSteps
  <2>2. j \in DOMAIN EventNames /\ EventNames[j] = c.name
    BY <1>1, <2>1, OwnEventNames
  <2>3. c.name \in ignored => c.name \in entry[t].props
    <3>1. next \in 1 .. end - 1 /\ t \in Mapped /\ c \in ColumnsOf(log[next].cols) /\ log[next].table = t
      BY <1>1, <2>1, NextEvent DEF Mappable, ColumnsOf, Event
    <3> QED
      BY <1>1, <2>1, <3>1 DEF IgnoredOK, Due
  <2>4. c.name \in Diff \cup ignored \cup entry[t].props
    BY <2>1, <2>2 DEF Diff, Mappable, NamesVerified
  <2>5. c.name \in entry'[t].props
    <3>1. CASE MapEvent
      BY <2>3, <2>4, <3>1 DEF MapEvent, streamVars
    <3>2. CASE IgnoreColumns
      <4>1. c.name \notin Diff /\ entry' = entry
        BY <3>2 DEF IgnoreColumns, ShouldRunDiscovery, Unsupported, streamVars
      <4> QED
        BY <2>3, <2>4, <4>1
    <3>3. CASE Rediscover
      <4>1. Found(t) = tables[t]
        BY <2>1, FoundInOneDatabase
      <4>2. c.name \in Discover(Found(t)).props /\ entry'[t].props = Discover(Found(t)).props
        BY <1>1, <3>3, <4>1, RediscoverFacts
      <4> QED
        BY <4>2
    <3> QED
      BY <2>1, <3>1, <3>2, <3>3
  <2> QED
    BY <2>1, <2>2, <2>5, RecordFields
<1> QED
  BY <1>1, IgnoredInvariance, PTL DEF Spec, NoLiveValueLost
=============================================================================
