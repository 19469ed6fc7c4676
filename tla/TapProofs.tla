------------------------------ MODULE TapProofs ------------------------------
(***************************************************************************)
(* Theorems about Tap, for any catalog, any number of runs, edits, faults   *)
(* and dropped tables.                                                      *)
(***************************************************************************)
EXTENDS Tap, SequenceTheorems, WellFoundedInduction, TLAPS

-----------------------------------------------------------------------------
(* The inductive invariant.                                                 *)

Elements(q) == {q[i] : i \in 1 .. Len(q)}

\* Coordinates and key bookmarks make an entry.
EntriesOf(st) ==
  \A s \in Streams : st.bookmarks[s].log \/ st.bookmarks[s].pk => st.bookmarks[s].entry
Entries == EntriesOf(saved) /\ EntriesOf(state)

\* A stream is synced by SELECT in one phase of the run only.
Phases ==
  /\ syncing # NoStream => pc = "select"
  /\ pc \in {"off", "list"} => binlog = {}
  /\ pc = "list" => synced = {}

\* Of the two lists, made by two discoveries from one state, no stream is on both:
\* those of the first have to be synced by SELECT when the second is made.
QueueIsSelectBased ==
  pc = "list" => \A s \in Elements(queue) : SelectBased(s, state)

\* The streams of the binlog have what they were chosen for.
ListsApart ==
  pc \in {"select", "binlog"} =>
    \A s \in binlog : /\ ~RequiresHistorical(state.bookmarks[s])
                      /\ s \notin Elements(queue) \cup {syncing} \cup synced

IInv == TypeOK /\ Entries /\ Phases /\ QueueIsSelectBased /\ ListsApart

-----------------------------------------------------------------------------
(* Keep.                                                                    *)

\* Induction, for a set of numbers: its complement has no least element.
LEMMA AllNumbers ==
  ASSUME NEW G, 0 \in G, \A n \in Nat : n \in G => n + 1 \in G
  PROVE  Nat \subseteq G
<1> DEFINE Missing == Nat \ G
<1> SUFFICES ASSUME Missing # {} PROVE FALSE
  OBVIOUS
<1>1. PICK n \in Missing : \A m \in Missing : ~ (<<m, n>> \in OpToRel(<, Nat))
  <2>1. IsWellFoundedOn(OpToRel(<, Nat), Nat) /\ Missing \subseteq Nat
    BY NatLessThanWellFounded
  <2> HIDE DEF Missing
  <2> QED
    BY <2>1, WFMin
<1>2. n \in Nat /\ n # 0 /\ n - 1 \in Nat
  BY SMT
<1>3. n - 1 \notin Missing
  <2>1. <<n - 1, n>> \in OpToRel(<, Nat)
    BY <1>2, SMT DEF OpToRel
  <2> HIDE DEF Missing
  <2> QED
    BY <1>1, <2>1
<1>4. n \in G
  <2>1. n - 1 \in G /\ (n - 1) + 1 = n
    BY <1>2, <1>3
  <2> QED
    BY <1>2, <2>1
<1> QED
  BY <1>4

\* The recursive function of Keep, for the first n elements of a list.
IsKept(kept, list, S, n) ==
  kept = [i \in 0 .. n |->
            IF i = 0 THEN <<>>
            ELSE IF list[i] \in S THEN Append(kept[i - 1], list[i]) ELSE kept[i - 1]]

\* It exists.
LEMMA KeptExists ==
  ASSUME NEW list, NEW S, NEW n \in Nat
  PROVE  \E kept : IsKept(kept, list, S, n)
<1> DEFINE Step(k, i) == IF i = 0 THEN <<>>
                         ELSE IF list[i] \in S THEN Append(k[i - 1], list[i]) ELSE k[i - 1]
           G == {m \in Nat : \E k : IsKept(k, list, S, m)}
<1>1. 0 \in G
  <2> DEFINE k == [i \in 0 .. 0 |-> <<>>]
  <2>1. IsKept(k, list, S, 0)
    BY SMT DEF IsKept
  <2> HIDE DEF k
  <2> QED
    BY <2>1
<1>2. ASSUME NEW m \in Nat, m \in G PROVE m + 1 \in G
  <2>1. PICK k : IsKept(k, list, S, m)
    BY <1>2
  <2> DEFINE new == [i \in 0 .. m + 1 |-> IF i = m + 1 THEN Step(k, i) ELSE k[i]]
  <2>2. ASSUME NEW i \in 0 .. m + 1 PROVE new[i] = Step(new, i)
    <3>1. i # 0 => i - 1 \in 0 .. m /\ new[i - 1] = k[i - 1]
      BY SMT
    <3>2. CASE i = m + 1
      BY <3>1, <3>2
    <3>3. CASE i # m + 1
      <4>1. i \in 0 .. m /\ new[i] = k[i]
        BY <3>3
      <4>2. k[i] = Step(k, i)
        BY <2>1, <4>1 DEF IsKept
      <4> QED
        BY <3>1, <4>1, <4>2
    <3> QED
      BY <3>2, <3>3
  <2>3. new = [i \in 0 .. m + 1 |-> new[i]]
    OBVIOUS
  <2> HIDE DEF new
  <2>4. IsKept(new, list, S, m + 1)
    BY <2>2, <2>3 DEF IsKept
  <2> QED
    BY <2>4
<1>3. n \in G
  <2> HIDE DEF G
  <2> QED
    BY <1>1, <1>2, AllNumbers
<1> QED
  BY <1>3

\* How the function goes on from one element of the list to the next.
LEMMA KeptUnfolds ==
  ASSUME NEW T, NEW list \in Seq(T), NEW S
  PROVE  \E kept : /\ Keep(list, S) = kept[Len(list)]
                   /\ kept[0] = <<>>
                   /\ \A i \in 1 .. Len(list) :
                        kept[i] = IF list[i] \in S THEN Append(kept[i - 1], list[i]) ELSE kept[i - 1]
<1> DEFINE kept == CHOOSE k : IsKept(k, list, S, Len(list))
<1>1. Len(list) \in Nat
  BY LenProperties
<1>2. IsKept(kept, list, S, Len(list))
  BY <1>1, KeptExists, Zenon
<1>3. Keep(list, S) = kept[Len(list)]
  BY Zenon DEF Keep, IsKept
<1> HIDE DEF kept
<1>4. kept[0] = <<>>
  BY <1>1, <1>2 DEF IsKept
<1>5. ASSUME NEW i \in 1 .. Len(list)
      PROVE  kept[i] = IF list[i] \in S THEN Append(kept[i - 1], list[i]) ELSE kept[i - 1]
  <2>1. i \in 0 .. Len(list) /\ i # 0
    BY <1>1
  <2> QED
    BY <1>2, <2>1 DEF IsKept
<1> QED
  BY <1>3, <1>4, <1>5

\* No element occurs twice.
Distinct(q) == \A i, j \in 1 .. Len(q) : q[i] = q[j] => i = j

LEMMA AppendFacts ==
  ASSUME NEW T, NEW q \in Seq(T), NEW e \in T
  PROVE  /\ Append(q, e) \in Seq(T)
         /\ Elements(Append(q, e)) = Elements(q) \cup {e}
         /\ Distinct(q) /\ e \notin Elements(q) => Distinct(Append(q, e))
         /\ Append(q, e) # <<>> /\ Append(q, e)[1] = IF q = <<>> THEN e ELSE q[1]
<1>1. /\ Append(q, e) \in Seq(T) /\ Len(Append(q, e)) = Len(q) + 1 /\ Len(q) \in Nat
      /\ \A i \in 1 .. Len(q) : Append(q, e)[i] = q[i]
      /\ Append(q, e)[Len(q) + 1] = e
  BY AppendProperties, LenProperties
<1>2. Elements(Append(q, e)) = Elements(q) \cup {e}
  <2>1. ASSUME NEW i \in 1 .. Len(q) + 1 PROVE Append(q, e)[i] \in Elements(q) \cup {e}
    BY <1>1 DEF Elements
  <2>2. ASSUME NEW x \in Elements(q) PROVE x \in Elements(Append(q, e))
    <3>1. PICK i \in 1 .. Len(q) : x = q[i]
      BY DEF Elements
    <3>2. i \in 1 .. Len(Append(q, e)) /\ Append(q, e)[i] = x
      BY <1>1, <3>1
    <3> QED
      BY <3>2 DEF Elements
  <2>3. e \in Elements(Append(q, e))
    <3>1. Len(q) + 1 \in 1 .. Len(Append(q, e))
      BY <1>1
    <3> QED
      BY <1>1, <3>1 DEF Elements
  <2> QED
    BY <1>1, <2>1, <2>2, <2>3 DEF Elements
<1>3. ASSUME Distinct(q), e \notin Elements(q) PROVE Distinct(Append(q, e))
  <2>1. \A i \in 1 .. Len(q) : q[i] # e
    BY <1>3 DEF Elements
  <2>2. \A i \in 1 .. Len(q) + 1 : i \in 1 .. Len(q) \/ i = Len(q) + 1
    BY <1>1
  <2>3. ASSUME NEW i \in 1 .. Len(q) + 1, NEW j \in 1 .. Len(q) + 1, Append(q, e)[i] = Append(q, e)[j]
        PROVE  i = j
    BY <1>1, <1>3, <2>1, <2>2, <2>3 DEF Distinct
  <2> QED
    BY <1>1, <2>3 DEF Distinct
<1>4. Append(q, e) # <<>> /\ Append(q, e)[1] = IF q = <<>> THEN e ELSE q[1]
  <2>1. q # <<>> => Len(q) # 0
    BY EmptySeq
  <2>2. q = <<>> => Len(q) = 0
    BY EmptySeq
  <2>3. Append(q, e) # <<>>
    BY <1>1, EmptySeq
  <2> QED
    BY <1>1, <2>1, <2>2, <2>3
<1> QED
  BY <1>1, <1>2, <1>3, <1>4

LEMMA ConcatFacts ==
  ASSUME NEW T, NEW q \in Seq(T), NEW r \in Seq(T)
  PROVE  /\ q \o r \in Seq(T)
         /\ Elements(q \o r) = Elements(q) \cup Elements(r)
         /\ Distinct(q) /\ Distinct(r) /\ Elements(q) \cap Elements(r) = {} => Distinct(q \o r)
         /\ q # <<>> => q \o r # <<>> /\ (q \o r)[1] = q[1]
<1>1. /\ q \o r \in Seq(T) /\ Len(q \o r) = Len(q) + Len(r) /\ Len(q) \in Nat /\ Len(r) \in Nat
      /\ \A i \in 1 .. Len(q) + Len(r) : (q \o r)[i] = IF i <= Len(q) THEN q[i] ELSE r[i - Len(q)]
  BY ConcatProperties, LenProperties
<1>2. \A i \in 1 .. Len(q) : i \in 1 .. Len(q \o r) /\ (q \o r)[i] = q[i]
  BY <1>1
<1>3. ASSUME NEW i \in 1 .. Len(r)
      PROVE  Len(q) + i \in 1 .. Len(q \o r) /\ (q \o r)[Len(q) + i] = r[i]
  <2>1. Len(q) + i \in 1 .. Len(q) + Len(r) /\ ~(Len(q) + i <= Len(q)) /\ (Len(q) + i) - Len(q) = i
    BY <1>1
  <2> QED
    BY <1>1, <2>1
<1>4. ASSUME NEW i \in 1 .. Len(q \o r)
      PROVE  \/ i \in 1 .. Len(q) /\ (q \o r)[i] = q[i]
             \/ i - Len(q) \in 1 .. Len(r) /\ (q \o r)[i] = r[i - Len(q)]
  BY <1>1
<1>5. Elements(q \o r) = Elements(q) \cup Elements(r)
  <2>1. Elements(q \o r) \subseteq Elements(q) \cup Elements(r)
    BY <1>4 DEF Elements
  <2>2. Elements(q) \subseteq Elements(q \o r)
    BY <1>2 DEF Elements
  <2>3. Elements(r) \subseteq Elements(q \o r)
    BY <1>3 DEF Elements
  <2> QED
    BY <2>1, <2>2, <2>3
<1>6. ASSUME Distinct(q), Distinct(r), Elements(q) \cap Elements(r) = {}
      PROVE  Distinct(q \o r)
  <2>1. ASSUME NEW i \in 1 .. Len(q), NEW j \in 1 .. Len(r) PROVE q[i] # r[j]
    BY <1>6 DEF Elements
  <2>2. ASSUME NEW i \in 1 .. Len(q \o r), NEW j \in 1 .. Len(q \o r), (q \o r)[i] = (q \o r)[j]
        PROVE  i = j
    <3>1. CASE i \in 1 .. Len(q) /\ (q \o r)[i] = q[i]
      <4>1. CASE j \in 1 .. Len(q) /\ (q \o r)[j] = q[j]
        BY <1>6, <2>2, <3>1, <4>1 DEF Distinct
      <4>2. CASE j - Len(q) \in 1 .. Len(r) /\ (q \o r)[j] = r[j - Len(q)]
        BY <2>1, <2>2, <3>1, <4>2
      <4> QED
        BY <1>4, <4>1, <4>2
    <3>2. CASE i - Len(q) \in 1 .. Len(r) /\ (q \o r)[i] = r[i - Len(q)]
      <4>1. CASE j \in 1 .. Len(q) /\ (q \o r)[j] = q[j]
        BY <2>1, <2>2, <3>2, <4>1
      <4>2. CASE j - Len(q) \in 1 .. Len(r) /\ (q \o r)[j] = r[j - Len(q)]
        <5>1. i - Len(q) = j - Len(q)
          BY <1>6, <2>2, <3>2, <4>2 DEF Distinct
        <5> QED
          BY <1>1, <5>1
      <4> QED
        BY <1>4, <4>1, <4>2
    <3> QED
      BY <1>4, <3>1, <3>2
  <2> QED
    BY <2>2 DEF Distinct
<1>7. ASSUME q # <<>> PROVE q \o r # <<>> /\ (q \o r)[1] = q[1]
  <2>1. 1 \in 1 .. Len(q)
    BY <1>1, <1>7, EmptySeq
  <2>2. Len(q \o r) # 0
    BY <1>1, <2>1
  <2> QED
    BY <1>2, <2>1, <2>2, EmptySeq
<1> QED
  BY <1>1, <1>5, <1>6, <1>7

\* What Keep returns: the elements of the list that are in S, none twice if the list
\* has none twice, and the first of the list first.
LEMMA KeepFacts ==
  ASSUME NEW T, NEW list \in Seq(T), NEW S
  PROVE  /\ Keep(list, S) \in Seq(T)
         /\ Elements(Keep(list, S)) = Elements(list) \cap S
         /\ Distinct(list) => Distinct(Keep(list, S))
         /\ list # <<>> /\ list[1] \in S => Keep(list, S) # <<>> /\ Keep(list, S)[1] = list[1]
<1>1. PICK kept : /\ Keep(list, S) = kept[Len(list)]
                  /\ kept[0] = <<>>
                  /\ \A i \in 1 .. Len(list) :
                       kept[i] = IF list[i] \in S THEN Append(kept[i - 1], list[i]) ELSE kept[i - 1]
  BY KeptUnfolds
<1>2. Len(list) \in Nat /\ \A i \in 1 .. Len(list) : list[i] \in T
  BY LenProperties, ElementOfSeq
<1> DEFINE UpTo(n) == {list[j] : j \in 1 .. n}
           Kept(n) == /\ kept[n] \in Seq(T)
                      /\ Elements(kept[n]) = UpTo(n) \cap S
                      /\ Distinct(list) => Distinct(kept[n])
                      /\ n # 0 /\ list[1] \in S => kept[n] # <<>> /\ kept[n][1] = list[1]
           G == {n \in Nat : n <= Len(list) => Kept(n)}
<1>3. 0 \in G
  <2>1. Elements(<<>>) = {} /\ Distinct(<<>>) /\ <<>> \in Seq(T)
    BY EmptySeq DEF Elements, Distinct
  <2>2. UpTo(0) = {}
    OBVIOUS
  <2> QED
    BY <1>1, <2>1, <2>2
<1>4. ASSUME NEW n \in Nat, n \in G PROVE n + 1 \in G
  <2>1. SUFFICES ASSUME n + 1 <= Len(list) PROVE Kept(n + 1)
    OBVIOUS
  <2>2. Kept(n)
    BY <1>2, <1>4, <2>1
  <2>3. n + 1 \in 1 .. Len(list) /\ (n + 1) - 1 = n
    BY <1>2, <2>1
  <2>4. kept[n + 1] = IF list[n + 1] \in S THEN Append(kept[n], list[n + 1]) ELSE kept[n]
    BY <1>1, <2>3
  <2>5. UpTo(n + 1) = UpTo(n) \cup {list[n + 1]}
    <3>1. \A j : j \in 1 .. n + 1 <=> j \in 1 .. n \/ j = n + 1
      OBVIOUS
    <3> QED
      BY <3>1
  <2>6. n = 0 => UpTo(n) = {} /\ list[n + 1] = list[1]
    OBVIOUS
  <2>7. CASE list[n + 1] \in S
    <3>1. Distinct(list) => list[n + 1] \notin UpTo(n)
      BY <1>2, <2>1 DEF Distinct
    <3>2. /\ Append(kept[n], list[n + 1]) \in Seq(T)
          /\ Elements(Append(kept[n], list[n + 1])) = Elements(kept[n]) \cup {list[n + 1]}
          /\ Distinct(kept[n]) /\ list[n + 1] \notin Elements(kept[n]) => Distinct(Append(kept[n], list[n + 1]))
          /\ Append(kept[n], list[n + 1]) # <<>>
          /\ Append(kept[n], list[n + 1])[1] = IF kept[n] = <<>> THEN list[n + 1] ELSE kept[n][1]
      BY <1>2, <2>2, <2>3, AppendFacts
    <3>3. n = 0 => kept[n] = <<>>
      BY <1>1
    <3> HIDE DEF UpTo
    <3> QED
      BY <2>2, <2>4, <2>5, <2>6, <2>7, <3>1, <3>2, <3>3
  <2>8. CASE list[n + 1] \notin S
    <3>1. n = 0 => list[1] \notin S
      BY <2>6, <2>8
    <3> HIDE DEF UpTo
    <3> QED
      BY <2>2, <2>4, <2>5, <2>8, <3>1
  <2> QED
    BY <2>7, <2>8
<1>5. Kept(Len(list))
  <2>1. Len(list) \in G
    <3> HIDE DEF G
    <3> QED
      BY <1>2, <1>3, <1>4, AllNumbers
  <2> HIDE DEF Kept
  <2> QED
    BY <1>2, <2>1
<1>6. list # <<>> => Len(list) # 0
  BY EmptySeq
<1> QED
  BY <1>1, <1>5, <1>6 DEF Elements

-----------------------------------------------------------------------------
(* The lists of streams.                                                    *)

LEMMA CatalogFacts ==
  /\ Catalog \in Seq(Streams) /\ Distinct(Catalog) /\ Elements(Catalog) = Streams
  /\ NoStream \notin Streams
  BY TapAssumption DEF Streams, Distinct, Elements

StateDict == [current : Streams \cup {NoStream}, bookmarks : [Streams -> Bookmark]]

\* The SELECT-based streams of a catalog S, each of them once: those without a bookmark
\* or with one that calls for a SELECT; the one of currently_syncing comes first.
LEMMA NonBinlogFacts ==
  ASSUME NEW S \in SUBSET Streams, NEW st \in StateDict
  PROVE  /\ NonBinlogStreams(S, st) \in Seq(Streams)
         /\ Distinct(NonBinlogStreams(S, st))
         /\ \A s \in Elements(NonBinlogStreams(S, st)) :
              s \in S /\ (~st.bookmarks[s].entry \/ SelectBased(s, st))
         /\ st.current \in S /\ st.bookmarks[st.current].entry /\ SelectBased(st.current, st) =>
              NonBinlogStreams(S, st) # <<>> /\ NonBinlogStreams(S, st)[1] = st.current
<1> DEFINE new == WithoutState(S, st)
           known == WithState(S, st)
           ordered == new \o known
           front == Keep(known, {st.current})
           others == Keep(ordered, Streams \ {st.current})
<1>1. /\ new \in Seq(Streams) /\ Distinct(new)
      /\ Elements(new) = {s \in S : ~st.bookmarks[s].entry}
  BY CatalogFacts, KeepFacts DEF WithoutState
<1>2. /\ known \in Seq(Streams) /\ Distinct(known)
      /\ Elements(known) = {s \in S : st.bookmarks[s].entry /\ SelectBased(s, st)}
  BY CatalogFacts, KeepFacts DEF WithState
<1> HIDE DEF new, known
<1>3. /\ ordered \in Seq(Streams) /\ Distinct(ordered)
      /\ Elements(ordered) = Elements(new) \cup Elements(known)
  <2>1. Elements(new) \cap Elements(known) = {}
    BY <1>1, <1>2
  <2> QED
    BY <1>1, <1>2, <2>1, ConcatFacts
<1> HIDE DEF ordered
<1>4. /\ front \in Seq(Streams) /\ Distinct(front) /\ Elements(front) = Elements(known) \cap {st.current}
      /\ others \in Seq(Streams) /\ Distinct(others) /\ Elements(others) = Elements(ordered) \cap (Streams \ {st.current})
  BY <1>2, <1>3, KeepFacts
<1> HIDE DEF front, others
<1>5. /\ front \o others \in Seq(Streams) /\ Distinct(front \o others)
      /\ Elements(front \o others) = Elements(front) \cup Elements(others)
      /\ front # <<>> => front \o others # <<>> /\ (front \o others)[1] = front[1]
  <2>1. Elements(front) \cap Elements(others) = {}
    BY <1>4
  <2> QED
    BY <1>4, <2>1, ConcatFacts
<1>6. NonBinlogStreams(S, st) = IF st.current = NoStream THEN ordered ELSE front \o others
  BY DEF NonBinlogStreams, new, known, ordered, front, others
<1>7. ASSUME st.current \in Elements(known) PROVE front # <<>> /\ front[1] = st.current
  <2>1. PICK i \in 1 .. Len(front) : front[i] = st.current
    BY <1>4, <1>7 DEF Elements
  <2>2. 1 \in 1 .. Len(front)
    BY <1>4, <2>1, LenProperties
  <2>3. front[1] \in Elements(front)
    BY <2>2 DEF Elements
  <2> QED
    BY <1>4, <2>2, <2>3, EmptySeq
<1>8. \A s \in Elements(ordered) \cup Elements(front) \cup Elements(others) :
        s \in S /\ (~st.bookmarks[s].entry \/ SelectBased(s, st))
  BY <1>1, <1>2, <1>3, <1>4
<1> QED
  BY <1>2, <1>3, <1>5, <1>6, <1>7, <1>8, CatalogFacts

\* What is left of a list when the streams without a table are dropped.
LEMMA ResolvedFacts ==
  ASSUME NEW list \in Seq(Streams)
  PROVE  /\ Resolved(list) \in Seq(Streams)
         /\ Elements(Resolved(list)) = Elements(list) \cap tables
         /\ Distinct(list) => Distinct(Resolved(list))
         /\ list # <<>> /\ list[1] \in tables => Resolved(list) # <<>> /\ Resolved(list)[1] = list[1]
  BY KeepFacts DEF Resolved

LEMMA HeadAndTail ==
  ASSUME NEW T, NEW q \in Seq(T), q # <<>>
  PROVE  /\ Head(q) \in T /\ Head(q) \in Elements(q) /\ Head(q) = q[1]
         /\ Tail(q) \in Seq(T) /\ Elements(Tail(q)) \subseteq Elements(q)
<1>1. /\ Head(q) \in T /\ Tail(q) \in Seq(T) /\ Len(Tail(q)) = Len(q) - 1
      /\ \A i \in 1 .. Len(Tail(q)) : Tail(q)[i] = q[i + 1]
      /\ Len(q) \in Nat \ {0}
  BY HeadTailProperties, EmptySeq
<1>2. Head(q) = q[1] /\ 1 \in 1 .. Len(q)
  BY <1>1
<1>3. \A i \in 1 .. Len(Tail(q)) : i + 1 \in 1 .. Len(q)
  BY <1>1
<1> QED
  BY <1>1, <1>2, <1>3 DEF Elements

-----------------------------------------------------------------------------
(* Types.                                                                   *)

LEMMA TypeInit == Init => TypeOK
<1> SUFFICES ASSUME Init PROVE TypeOK
  OBVIOUS
<1>1. saved \in StateDict /\ state \in StateDict
  BY DEF Init, StateDict, Bookmark, NoBookmark
<1>2. queue \in Seq(Streams)
  BY EmptySeq DEF Init
<1> QED
  BY <1>1, <1>2 DEF Init, TypeOK, StateDict

\* A state dict with another bookmark of one stream, or another currently_syncing.
LEMMA StateDictUpdates ==
  ASSUME NEW st \in StateDict
  PROVE  /\ \A s \in Streams : \A b \in Bookmark :
              /\ [st EXCEPT !.bookmarks[s] = b] \in StateDict
              /\ [st EXCEPT !.bookmarks[s] = b].bookmarks = [st.bookmarks EXCEPT ![s] = b]
              /\ [st EXCEPT !.bookmarks[s] = b].current = st.current
         /\ \A c \in Streams \cup {NoStream} :
              /\ [st EXCEPT !.current = c] \in StateDict
              /\ [st EXCEPT !.current = c].bookmarks = st.bookmarks
              /\ [st EXCEPT !.current = c].current = c
  BY DEF StateDict

\* What a sync leaves in a bookmark.
LEMMA BookmarksOfSyncs ==
  ASSUME TypeOK, NEW s \in Streams, NEW b \in Bookmark, b.log \/ b.pk => b.entry
  PROVE  /\ \A c \in Checkpoints(s, b) : c \in Bookmark /\ (c.log \/ c.pk => c.entry)
         /\ Completed(s) \in Bookmark /\ (Completed(s).log \/ Completed(s).pk => Completed(s).entry)
<1>1. method[s] \in {"FULL_TABLE", "INCREMENTAL", "LOG_BASED"}
  BY TapAssumption DEF TypeOK
<1>2. b.entry \in BOOLEAN /\ b.log \in BOOLEAN /\ b.pk \in BOOLEAN
  BY DEF Bookmark
<1>3. Completed(s) \in Bookmark /\ Completed(s).entry
  BY DEF Completed, Bookmark
<1> DEFINE key == IF s \in auto THEN {b.pk, TRUE} ELSE {b.pk}
<1>4. key \subseteq BOOLEAN
  BY <1>2
<1>5. CASE method[s] = "FULL_TABLE"
  <2>1. Checkpoints(s, b) = {[entry |-> b.entry \/ k, log |-> FALSE, pk |-> k] : k \in key}
    BY <1>5 DEF Checkpoints
  <2> HIDE DEF key
  <2>2. ASSUME NEW k \in key
        PROVE  LET c == [entry |-> b.entry \/ k, log |-> FALSE, pk |-> k]
               IN  c \in Bookmark /\ (c.log \/ c.pk => c.entry)
    BY <1>2, <1>4 DEF Bookmark
  <2> QED
    BY <1>3, <2>1, <2>2
<1>6. CASE method[s] = "INCREMENTAL"
  <2>1. Checkpoints(s, b) = {[entry |-> TRUE, log |-> FALSE, pk |-> FALSE]}
    BY <1>6 DEF Checkpoints
  <2> QED
    BY <1>3, <2>1 DEF Bookmark
<1>7. CASE method[s] = "LOG_BASED"
  <2>1. Checkpoints(s, b) = {[entry |-> TRUE, log |-> b.log \/ s \in auto, pk |-> k] : k \in key}
    BY <1>7 DEF Checkpoints
  <2> HIDE DEF key
  <2>2. ASSUME NEW k \in key
        PROVE  LET c == [entry |-> TRUE, log |-> b.log \/ s \in auto, pk |-> k]
               IN  c \in Bookmark /\ c.entry
    BY <1>2, <1>4 DEF Bookmark
  <2> QED
    BY <1>3, <2>1, <2>2
<1> QED
  BY <1>1, <1>5, <1>6, <1>7

-----------------------------------------------------------------------------
(* The steps preserve the invariant.                                        *)

Rest == Entries /\ Phases /\ QueueIsSelectBased /\ ListsApart

LEMMA Types ==
  ASSUME IInv
  PROVE  /\ tables \subseteq Streams /\ method \in [Streams -> Methods] /\ auto \subseteq Streams
         /\ saved \in StateDict /\ state \in StateDict
         /\ queue \in Seq(Streams) /\ binlog \subseteq Streams /\ chosen \subseteq Streams /\ synced \subseteq Streams
         /\ \A s \in Streams : saved.bookmarks[s] \in Bookmark /\ state.bookmarks[s] \in Bookmark
  BY DEF IInv, TypeOK, StateDict

\* Edits and drops change neither the lists nor the bookmarks; a catalog is edited
\* between runs only.
LEMMA OthersKeep ==
  ASSUME IInv, EditMethod \/ (\E s \in Streams : DropTable(s) \/ CreateTable(s)) \/ UNCHANGED vars
  PROVE  IInv'
<1>1. /\ UNCHANGED <<saved, state, pc, exit, queue, binlog, syncing, touched, chosen, synced>>
      /\ pc = "list" => UNCHANGED method
  BY DEF EditMethod, DropTable, CreateTable, vars, configVars, listVars, syncVars
<1>2. tables' \subseteq Streams /\ auto' \subseteq Streams /\ method' \in [Streams -> Methods] /\ faults' \in Nat
  BY DEF EditMethod, DropTable, CreateTable, vars, configVars, IInv, TypeOK
<1>3. TypeOK'
  BY <1>1, <1>2 DEF IInv, TypeOK
<1>4. Rest'
  BY <1>1 DEF IInv, Rest, Entries, EntriesOf, Phases, QueueIsSelectBased, ListsApart, SelectBased, RequiresHistorical,
              Elements
<1> QED
  BY <1>3, <1>4 DEF IInv, Rest

\* The queue has streams that the state calls to be synced by SELECT.
LEMMA StartRunKeeps ==
  ASSUME IInv, StartRun
  PROVE  IInv'
<1>1. /\ pc = "off" /\ pc' = "list" /\ exit' = 1 /\ state' = saved /\ synced' = {} /\ binlog = {} /\ syncing = NoStream
      /\ UNCHANGED <<tables, method, auto, saved, binlog, syncing, touched, faults>>
  BY DEF IInv, Phases, StartRun, configVars, syncVars
<1>2. PICK S \in SUBSET Streams : queue' = Resolved(NonBinlogStreams(S, saved)) /\ chosen' = S
  BY DEF StartRun
<1>3. /\ queue' \in Seq(Streams)
      /\ \A s \in Elements(queue') : s \in S /\ (~saved.bookmarks[s].entry \/ SelectBased(s, saved))
  <2>1. /\ NonBinlogStreams(S, saved) \in Seq(Streams)
        /\ \A s \in Elements(NonBinlogStreams(S, saved)) :
             s \in S /\ (~saved.bookmarks[s].entry \/ SelectBased(s, saved))
    BY Types, NonBinlogFacts
  <2> QED
    BY <1>2, <2>1, ResolvedFacts
<1>4. \A s \in Elements(queue') : SelectBased(s, saved)
  BY <1>3 DEF IInv, Entries, EntriesOf, SelectBased, RequiresHistorical
<1>5. TypeOK'
  BY <1>1, <1>2, <1>3 DEF IInv, TypeOK
<1>6. Rest'
  BY <1>1, <1>4 DEF IInv, Rest, Entries, EntriesOf, Phases, QueueIsSelectBased, ListsApart, SelectBased, Elements
<1> QED
  BY <1>5, <1>6 DEF IInv, Rest

\* Nothing on the queue has a finished snapshot of LOG_BASED replication.
LEMMA ListBinlogKeeps ==
  ASSUME IInv, ListBinlog
  PROVE  IInv'
<1>1. /\ pc = "list" /\ pc' = "select" /\ binlog' = BinlogStreams(chosen, state) \cap tables
      /\ synced = {} /\ syncing = NoStream
      /\ UNCHANGED <<tables, method, auto, saved, state, exit, queue, syncing, touched, chosen, synced, faults>>
  BY DEF IInv, Phases, ListBinlog, configVars, syncVars
<1>2. \A s \in binlog' : s \in Streams /\ method[s] = "LOG_BASED" /\ ~RequiresHistorical(state.bookmarks[s])
  BY <1>1, Types DEF BinlogStreams
<1>3. TypeOK'
  BY <1>1, <1>2 DEF IInv, TypeOK
<1>4. \A s \in binlog' : s \notin Elements(queue) /\ s # NoStream
  BY <1>1, <1>2, CatalogFacts DEF IInv, QueueIsSelectBased, SelectBased
<1>5. ListsApart'
  BY <1>1, <1>2, <1>4 DEF ListsApart, RequiresHistorical, Elements
<1>6. Entries' /\ Phases' /\ QueueIsSelectBased'
  BY <1>1 DEF IInv, Entries, EntriesOf, Phases, QueueIsSelectBased
<1> QED
  BY <1>3, <1>5, <1>6 DEF IInv

LEMMA BeginStreamKeeps ==
  ASSUME IInv, BeginStream
  PROVE  IInv'
<1>1. /\ pc = "select" /\ queue # <<>> /\ syncing' = Head(queue) /\ queue' = Tail(queue) /\ touched' = FALSE
      /\ state' = [state EXCEPT !.current = Head(queue)] /\ saved' = state'
      /\ UNCHANGED <<tables, method, auto, pc, exit, binlog, chosen, synced, faults>>
  BY DEF BeginStream, configVars
<1>2. /\ Head(queue) \in Streams /\ Head(queue) \in Elements(queue)
      /\ Tail(queue) \in Seq(Streams) /\ Elements(Tail(queue)) \subseteq Elements(queue)
  BY <1>1, Types, HeadAndTail
<1>3. state' \in StateDict /\ state'.bookmarks = state.bookmarks
  BY <1>1, <1>2, Types, StateDictUpdates
<1>4. TypeOK'
  BY <1>1, <1>2, <1>3 DEF IInv, TypeOK, StateDict
<1>5. Elements(queue)' \subseteq Elements(queue)
  BY <1>1, <1>2 DEF Elements
<1>6. ListsApart'
  BY <1>1, <1>2, <1>3, <1>5 DEF IInv, ListsApart
<1>7. Entries' /\ Phases' /\ QueueIsSelectBased'
  BY <1>1, <1>3 DEF IInv, Entries, EntriesOf, Phases, QueueIsSelectBased
<1> QED
  BY <1>4, <1>6, <1>7 DEF IInv

LEMMA TableGoneKeeps ==
  ASSUME IInv, TableGone
  PROVE  IInv'
<1>1. /\ queue # <<>> /\ syncing = NoStream /\ pc' = "off" /\ queue' = <<>> /\ binlog' = {}
      /\ state' = [state EXCEPT !.current = Head(queue)] /\ saved' = state'
      /\ UNCHANGED <<tables, method, auto, exit, syncing, touched, chosen, synced, faults>>
  BY DEF TableGone, configVars, syncVars
<1>2. Head(queue) \in Streams /\ queue' \in Seq(Streams)
  BY <1>1, Types, HeadAndTail, EmptySeq
<1>3. state' \in StateDict /\ state'.bookmarks = state.bookmarks
  BY <1>1, <1>2, Types, StateDictUpdates
<1>4. TypeOK'
  BY <1>1, <1>2, <1>3 DEF IInv, TypeOK, StateDict
<1>5. Rest'
  BY <1>1, <1>3 DEF IInv, Rest, Entries, EntriesOf, Phases, QueueIsSelectBased, ListsApart
<1> QED
  BY <1>4, <1>5 DEF IInv, Rest

\* A sync moves the bookmark of its own stream, which the binlog does not read.
LEMMA CheckpointKeeps ==
  ASSUME IInv, Checkpoint
  PROVE  IInv'
<1>1. /\ syncing # NoStream /\ touched' = TRUE /\ saved' = state'
      /\ UNCHANGED <<tables, method, auto, pc, exit, queue, binlog, syncing, chosen, synced, faults>>
  BY DEF Checkpoint, configVars, listVars
<1>2. PICK b \in Checkpoints(syncing, state.bookmarks[syncing]) :
        state' = [state EXCEPT !.bookmarks[syncing] = b]
  BY DEF Checkpoint
<1>3. syncing \in Streams /\ TypeOK
  BY <1>1 DEF IInv, TypeOK
<1>4. b \in Bookmark /\ (b.log \/ b.pk => b.entry)
  BY <1>2, <1>3, Types, BookmarksOfSyncs DEF IInv, Entries, EntriesOf
<1>5. state' \in StateDict /\ state'.bookmarks = [state.bookmarks EXCEPT ![syncing] = b]
  BY <1>2, <1>3, <1>4, Types, StateDictUpdates
<1>6. /\ state'.bookmarks[syncing] = b
      /\ \A s \in Streams : s # syncing => state'.bookmarks[s] = state.bookmarks[s]
  BY <1>3, <1>5, Types DEF StateDict
<1>7. TypeOK'
  BY <1>1, <1>3, <1>5 DEF TypeOK, StateDict
<1>8. Entries'
  BY <1>1, <1>4, <1>6 DEF IInv, Entries, EntriesOf
<1>9. Phases' /\ QueueIsSelectBased'
  BY <1>1 DEF IInv, Phases, QueueIsSelectBased
<1>10. ListsApart'
  BY <1>1, <1>6, Types DEF IInv, ListsApart, Elements
<1> QED
  BY <1>7, <1>8, <1>9, <1>10 DEF IInv

LEMMA FinishStreamKeeps ==
  ASSUME IInv, FinishStream
  PROVE  IInv'
<1>1. /\ syncing # NoStream /\ touched' = FALSE /\ syncing' = NoStream
      /\ state' = [state EXCEPT !.bookmarks[syncing] = Completed(syncing)]
      /\ saved' \in {saved, state'} /\ synced' = synced \cup {syncing}
      /\ UNCHANGED <<tables, method, auto, pc, exit, queue, binlog, chosen, faults>>
  BY DEF FinishStream, configVars, listVars
<1>2. syncing \in Streams /\ TypeOK
  BY <1>1 DEF IInv, TypeOK
<1>3. Completed(syncing) \in Bookmark /\ Completed(syncing).entry
  BY DEF Completed, Bookmark
<1>4. state' \in StateDict /\ state'.bookmarks = [state.bookmarks EXCEPT ![syncing] = Completed(syncing)]
  BY <1>1, <1>2, <1>3, Types, StateDictUpdates
<1>5. /\ state'.bookmarks[syncing] = Completed(syncing)
      /\ \A s \in Streams : s # syncing => state'.bookmarks[s] = state.bookmarks[s]
  BY <1>2, <1>4, Types DEF StateDict
<1>6. TypeOK'
  BY <1>1, <1>2, <1>4 DEF TypeOK, StateDict
<1>7. Entries'
  <2>1. EntriesOf(state)'
    BY <1>3, <1>5 DEF IInv, Entries, EntriesOf
  <2> QED
    BY <1>1, <2>1 DEF IInv, Entries, EntriesOf
<1>8. Phases' /\ QueueIsSelectBased'
  BY <1>1 DEF IInv, Phases, QueueIsSelectBased
<1>9. ListsApart'
  BY <1>1, <1>2, <1>5, Types, CatalogFacts DEF IInv, ListsApart, Elements
<1> QED
  BY <1>6, <1>7, <1>8, <1>9 DEF IInv

LEMMA EndSelectKeeps ==
  ASSUME IInv, EndSelect
  PROVE  IInv'
<1>1. /\ pc = "select" /\ pc' = "binlog" /\ syncing = NoStream
      /\ state' = [state EXCEPT !.current = NoStream] /\ saved' = state'
      /\ UNCHANGED <<tables, method, auto, exit, queue, binlog, syncing, touched, chosen, synced, faults>>
  BY DEF EndSelect, configVars, listVars, syncVars
<1>2. state' \in StateDict /\ state'.bookmarks = state.bookmarks
  BY <1>1, Types, StateDictUpdates
<1>3. TypeOK'
  BY <1>1, <1>2 DEF IInv, TypeOK, StateDict
<1>4. Rest'
  BY <1>1, <1>2 DEF IInv, Rest, Entries, EntriesOf, Phases, QueueIsSelectBased, ListsApart, Elements
<1> QED
  BY <1>3, <1>4 DEF IInv, Rest

\* The end of a run, in order or not.
LEMMA EndKeeps ==
  ASSUME IInv, SyncBinlog \/ Crash
  PROVE  IInv'
<1>1. /\ pc' = "off" /\ queue' = <<>> /\ binlog' = {} /\ syncing' = NoStream /\ exit' \in {0, 1}
      /\ state' \in {saved, state} /\ touched' \in BOOLEAN /\ faults' \in Nat
      /\ synced' \in {synced, synced \cup binlog}
      /\ UNCHANGED <<tables, method, auto, saved, chosen>>
  <2>1. CASE SyncBinlog
    BY <2>1, Zenon DEF IInv, TypeOK, Phases, SyncBinlog, configVars, syncVars
  <2>2. CASE Crash
    <3>1. faults' \in Nat
      BY <2>2 DEF Crash, IInv, TypeOK
    <3> QED
      BY <2>2, <3>1 DEF IInv, TypeOK, Crash, configVars
  <2> QED
    BY <2>1, <2>2
<1>2. queue' \in Seq(Streams)
  BY <1>1, EmptySeq
<1>3. TypeOK'
  BY <1>1, <1>2 DEF IInv, TypeOK
<1>4. Rest'
  BY <1>1 DEF IInv, Rest, Entries, EntriesOf, Phases, QueueIsSelectBased, ListsApart
<1> QED
  BY <1>3, <1>4 DEF IInv, Rest

LEMMA InitHolds == Init => IInv
<1> SUFFICES ASSUME Init PROVE IInv
  OBVIOUS
<1>1. /\ pc = "off" /\ syncing = NoStream /\ binlog = {} /\ state = saved
      /\ saved.bookmarks = [s \in Streams |-> NoBookmark]
  BY DEF Init
<1>2. Rest
  BY <1>1 DEF Rest, Entries, EntriesOf, Phases, QueueIsSelectBased, ListsApart, NoBookmark
<1> QED
  BY <1>2, TypeInit DEF IInv, Rest

LEMMA StepKeeps ==
  ASSUME IInv, [Next]_vars
  PROVE  IInv'
<1>1. CASE EditMethod \/ (\E s \in Streams : DropTable(s) \/ CreateTable(s)) \/ UNCHANGED vars
  BY <1>1, OthersKeep
<1>2. CASE StartRun
  BY <1>2, StartRunKeeps
<1>3. CASE ListBinlog
  BY <1>3, ListBinlogKeeps
<1>4. CASE BeginStream
  BY <1>4, BeginStreamKeeps
<1>5. CASE TableGone
  BY <1>5, TableGoneKeeps
<1>6. CASE Checkpoint
  BY <1>6, CheckpointKeeps
<1>7. CASE FinishStream
  BY <1>7, FinishStreamKeeps
<1>8. CASE EndSelect
  BY <1>8, EndSelectKeeps
<1>9. CASE SyncBinlog \/ Crash
  BY <1>9, EndKeeps
<1> QED
  BY <1>1, <1>2, <1>3, <1>4, <1>5, <1>6, <1>7, <1>8, <1>9 DEF Next, RunStep

LEMMA Invariance == Spec => []IInv
  BY InitHolds, StepKeeps, PTL DEF Spec

-----------------------------------------------------------------------------
(* The theorems.                                                            *)

\* Every variable has its type.
THEOREM TypeCorrect == Spec => []TypeOK
<1>1. IInv => TypeOK
  BY DEF IInv
<1> QED
  BY <1>1, Invariance, PTL

\* The list of binlog streams, made before the SELECT-based syncs, still holds when
\* sync_binlog_streams uses it.
THEOREM BinlogNeverReadsUnfinished == Spec => []BinlogListStillHolds
<1>1. IInv => BinlogListStillHolds
  BY DEF IInv, ListsApart, BinlogListStillHolds
<1> QED
  BY <1>1, Invariance, PTL

\* A stream that was interrupted after its first bookmark is the first of the next run's
\* list, and on it once, if the catalog still has it, its table exists and it is synced by
\* SELECT (currently_syncing in get_non_binlog_streams, after resolve_catalog).
THEOREM InterruptedComesFirst == Spec => InterruptedStreamFirst
<1> DEFINE Claim ==
      \A s \in Streams :
        (/\ pc = "off" /\ pc' = "list"
         /\ s \in chosen' \cap tables /\ s = saved.current
         /\ saved.bookmarks[s].entry /\ SelectBased(s, saved))
        => /\ queue' # <<>> /\ Head(queue') = s
           /\ \A i \in 2 .. Len(queue') : queue'[i] # s
<1>1. ASSUME IInv, [Next]_vars PROVE [Claim]_vars
  <2>1. SUFFICES ASSUME NEW s \in Streams, pc = "off", pc' = "list", s \in chosen' \cap tables, s = saved.current,
                        saved.bookmarks[s].entry, SelectBased(s, saved)
                 PROVE  /\ queue' # <<>> /\ Head(queue') = s
                        /\ \A i \in 2 .. Len(queue') : queue'[i] # s
    OBVIOUS
  <2>2. StartRun
    <3>1. \A t \in Streams : ~DropTable(t) /\ ~CreateTable(t)
      BY <2>1 DEF DropTable, CreateTable
    <3> QED
      BY <1>1, <2>1, <3>1 DEF Next, RunStep, EditMethod, ListBinlog, BeginStream, TableGone, Checkpoint, FinishStream,
                              EndSelect, SyncBinlog, Crash, vars
  <2>3. PICK S \in SUBSET Streams : queue' = Resolved(NonBinlogStreams(S, saved)) /\ chosen' = S
    BY <2>2 DEF StartRun
  <2>4. /\ NonBinlogStreams(S, saved) \in Seq(Streams) /\ Distinct(NonBinlogStreams(S, saved))
        /\ NonBinlogStreams(S, saved) # <<>> /\ NonBinlogStreams(S, saved)[1] = s
    BY <1>1, <2>1, <2>3, Types, NonBinlogFacts
  <2>5. queue' \in Seq(Streams) /\ Distinct(queue') /\ queue' # <<>> /\ queue'[1] = s
    BY <2>1, <2>3, <2>4, ResolvedFacts
  <2>6. Head(queue') = s
    BY <2>5, HeadAndTail
  <2>7. ASSUME NEW i \in 2 .. Len(queue') PROVE queue'[i] # s
    BY <2>5, LenProperties DEF Distinct
  <2> QED
    BY <2>5, <2>6, <2>7
<1> QED
  BY <1>1, Invariance, PTL DEF Spec, InterruptedStreamFirst
=============================================================================
