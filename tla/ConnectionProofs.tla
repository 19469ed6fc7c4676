--------------------------- MODULE ConnectionProofs ---------------------------
(***************************************************************************)
(* Theorems about Connection, for any number of uses, attempts and session  *)
(* SQLs.                                                                    *)
(***************************************************************************)
EXTENDS Connection, FiniteSetTheorems, TLAPS

\* The session SQLs up to the one that comes next were run in this session.
Configured ==
  /\ pc = "session" => \A q \in 1 .. sql : settled[q] = conn
  /\ pc = "block" => \A q \in 1 .. SessionSqls : settled[q] = conn

\* The only session that may be open is the one of _conn.
OneSession == open \subseteq {conn} \ {0} /\ (pc = "idle" => conn = 0)

\* Files on disk are remembered or of an attempt that failed; outside a session the
\* remembered ones are, too, since the next attempt forgets them.
FilesAccounted ==
  /\ files \subseteq failed \cup {temp}
  /\ pc \in {"session", "block"} /\ temp # 0 => temp = conn
  /\ pc \notin {"session", "block"} => files \subseteq failed
  /\ ~Certificates => temp = 0

\* An attempt is counted while one is made.
AttemptCounted ==
  /\ pc \in {"connect", "session", "block"} => uses # 0 /\ tries # 0
  /\ pc \in {"session", "block"} => conn # 0

IInv == TypeOK /\ Configured /\ OneSession /\ FilesAccounted /\ AttemptCounted

-----------------------------------------------------------------------------
\* The number of an attempt is one of those there are.
LEMMA AttemptRange ==
  ASSUME TypeOK, uses # 0, tries # 0
  PROVE  attempt \in 1 .. Attempts
<1>1. uses \in 1 .. MaxUses /\ tries \in 1 .. MAX_TRIES /\ MaxUses \in Nat /\ MAX_TRIES \in Nat
  BY ConnectionAssumption DEF TypeOK
<1>2. (uses - 1) * MAX_TRIES >= 0 /\ (uses - 1) * MAX_TRIES \in Int
  BY <1>1
<1>3. (uses - 1) * MAX_TRIES <= (MaxUses - 1) * MAX_TRIES
  BY <1>1
<1>4. (MaxUses - 1) * MAX_TRIES + MAX_TRIES = MaxUses * MAX_TRIES
  BY <1>1
<1>5. attempt <= Attempts
  BY <1>1, <1>2, <1>3, <1>4 DEF attempt, Attempts
<1> QED
  BY <1>1, <1>2, <1>5 DEF attempt, Attempts

LEMMA InitHolds == Init => IInv
  BY ConnectionAssumption
     DEF Init, IInv, TypeOK, Configured, OneSession, FilesAccounted, AttemptCounted, Attempts

\* connect writes files of its own attempt, which is then the one it remembers.
LEMMA FilesWritten ==
  ASSUME IInv, pc = "connect", WriteFiles
  PROVE  /\ attempt \in 1 .. Attempts
         /\ temp' \in 0 .. Attempts /\ files' \subseteq 1 .. Attempts
         /\ files' \subseteq failed \cup {temp'} /\ temp' \in {attempt, temp}
         /\ temp' # attempt => files' = files /\ temp' = temp
<1>1. attempt \in 1 .. Attempts
  BY AttemptRange DEF IInv, AttemptCounted
<1> QED
  BY <1>1 DEF WriteFiles, IInv, TypeOK, FilesAccounted

\* connect: an attempt that opens a session is the one whose files are remembered.
LEMMA OpensKeeps ==
  ASSUME IInv, Opens
  PROVE  IInv'
<1>1. pc = "connect" /\ WriteFiles /\ pc' = "session"
  BY DEF Opens
<1>2. attempt \in 1 .. Attempts
  BY <1>1, FilesWritten
<1>3. TypeOK'
  BY <1>1, FilesWritten, ConnectionAssumption DEF Opens, IInv, TypeOK, Attempts
<1>4. Configured'
  BY <1>1 DEF Opens, Configured
<1>5. OneSession'
  BY <1>1, <1>2 DEF Opens, IInv, OneSession
<1>6. FilesAccounted'
  <2>1. temp' # 0 => temp' = conn'
    BY <1>1 DEF Opens, WriteFiles, IInv, FilesAccounted
  <2>2. ~Certificates => temp' = 0
    BY <1>1 DEF WriteFiles, IInv, FilesAccounted
  <2> QED
    BY <1>1, <2>1, <2>2, FilesWritten DEF Opens, FilesAccounted
<1>7. AttemptCounted'
  BY <1>1, <1>2 DEF Opens, IInv, AttemptCounted
<1> QED
  BY <1>3, <1>4, <1>5, <1>6, <1>7 DEF IInv

\* An attempt that fails is followed by another one or by an error.
LEMMA FailureKeeps ==
  ASSUME IInv, Retry \/ Raise
  PROVE  /\ pc' \in {"connect", "raised"} /\ tries' \in 0 .. MAX_TRIES
         /\ pc' = "connect" => tries' # 0
BY ConnectionAssumption DEF IInv, TypeOK, Retry, Raise

\* The invariant is kept by a step of the tap or of the server.
LEMMA StepKeeps ==
  ASSUME IInv, [Next]_vars
  PROVE  IInv'
<1>1. CASE Use
  <2>1. TypeOK'
    BY <1>1, ConnectionAssumption DEF Use, IInv, TypeOK
  <2> QED
    BY <1>1, <2>1 DEF Use, IInv, TypeOK, Configured, OneSession, FilesAccounted, AttemptCounted
<1>2. CASE Opens
  BY <1>2, OpensKeeps
<1>3. CASE ConnectFails(Retry) \/ ConnectFails(Raise)
  <2>1. /\ pc = "connect" /\ WriteFiles /\ (Retry \/ Raise)
        /\ open' = open \ {conn} /\ failed' = failed \cup {attempt}
        /\ UNCHANGED <<uses, conn, sql, settled>>
    BY <1>3 DEF ConnectFails
  <2>2. TypeOK'
    BY <2>1, FilesWritten, FailureKeeps DEF IInv, TypeOK, Attempts
  <2>3. FilesAccounted'
    BY <2>1, FilesWritten, FailureKeeps DEF IInv, FilesAccounted, WriteFiles
  <2> QED
    BY <2>1, <2>2, <2>3, FailureKeeps DEF IInv, Configured, OneSession, AttemptCounted
<1>4. CASE SessionSql
  <2>1. sql' \in 1 .. SessionSqls /\ sql' = sql + 1 /\ conn \in 0 .. Attempts
    BY <1>4, ConnectionAssumption DEF SessionSql, IInv, TypeOK
  <2>2. TypeOK'
    BY <1>4, <2>1 DEF SessionSql, IInv, TypeOK, Attempts
  <2>3. Configured'
    <3> SUFFICES ASSUME NEW q \in 1 .. sql' PROVE settled'[q] = conn
      BY <1>4 DEF SessionSql, Configured
    <3>1. settled' = [settled EXCEPT ![sql'] = conn] /\ settled \in [1 .. SessionSqls -> 0 .. Attempts]
      BY <1>4 DEF SessionSql, IInv, TypeOK
    <3>2. q # sql' => q \in 1 .. sql
      BY <2>1, ConnectionAssumption DEF IInv, TypeOK
    <3>3. q \in 1 .. SessionSqls
      BY <2>1, ConnectionAssumption
    <3> QED
      BY <1>4, <3>1, <3>2, <3>3 DEF SessionSql, IInv, Configured
  <2> QED
    BY <1>4, <2>2, <2>3 DEF SessionSql, IInv, OneSession, FilesAccounted, AttemptCounted
<1>5. CASE SessionSqlFails(Retry) \/ SessionSqlFails(Raise)
  <2>1. /\ pc = "session" /\ (Retry \/ Raise) /\ failed' = failed \cup {conn}
        /\ UNCHANGED <<uses, conn, temp, files, open, sql, settled>>
    BY <1>5 DEF SessionSqlFails
  <2>2. conn \in 1 .. Attempts
    BY <2>1, ConnectionAssumption DEF IInv, TypeOK, AttemptCounted, Attempts
  <2>3. TypeOK'
    BY <2>1, <2>2, FailureKeeps DEF IInv, TypeOK, Attempts
  <2>4. FilesAccounted'
    BY <2>1, FailureKeeps DEF IInv, TypeOK, FilesAccounted
  <2> QED
    BY <2>1, <2>3, <2>4, FailureKeeps DEF IInv, Configured, OneSession, AttemptCounted
<1>6. CASE Enter
  BY <1>6, ConnectionAssumption
     DEF Enter, IInv, TypeOK, Configured, OneSession, FilesAccounted, AttemptCounted, Attempts
<1>7. CASE Exit
  <2>1. /\ pc = "block" /\ pc' \in {"idle", "raised"} /\ conn' = 0 /\ open' = open \ {conn}
        /\ UNCHANGED <<uses, tries, sql, settled>>
    BY <1>7 DEF Exit, Close, CloseFails
  <2>2. CASE Close
    <3>1. TypeOK'
      BY <2>1, <2>2, ConnectionAssumption DEF Close, IInv, TypeOK, Attempts
    <3> QED
      BY <2>1, <2>2, <3>1
         DEF Close, IInv, Configured, OneSession, FilesAccounted, AttemptCounted
  <2>3. CASE CloseFails
    <3>1. conn \in 1 .. Attempts
      BY <2>1, ConnectionAssumption DEF IInv, TypeOK, AttemptCounted, Attempts
    <3>2. TypeOK'
      BY <2>1, <2>3, <3>1, ConnectionAssumption DEF CloseFails, IInv, TypeOK, Attempts
    <3>3. FilesAccounted'
      BY <2>1, <2>3 DEF CloseFails, IInv, TypeOK, FilesAccounted
    <3> QED
      BY <2>1, <2>3, <3>2, <3>3 DEF CloseFails, IInv, Configured, OneSession, AttemptCounted
  <2> QED
    BY <1>7, <2>2, <2>3 DEF Exit
<1>8. CASE ServerDrops
  BY <1>8 DEF ServerDrops, IInv, TypeOK, Configured, OneSession, FilesAccounted, AttemptCounted
<1>9. CASE ProcessEnds
  <2>1. TypeOK'
    BY <1>9, ConnectionAssumption DEF ProcessEnds, IInv, TypeOK, Attempts
  <2> QED
    BY <1>9, <2>1 DEF ProcessEnds, IInv, Configured, OneSession, FilesAccounted, AttemptCounted
<1>10. CASE UNCHANGED vars
  BY <1>10 DEF vars, IInv, TypeOK, Configured, OneSession, FilesAccounted, AttemptCounted
<1> QED
  BY <1>1, <1>2, <1>3, <1>4, <1>5, <1>6, <1>7, <1>8, <1>9, <1>10 DEF Next, Step

\* The invariant holds in every state.
THEOREM Invariance == Spec => []IInv
<1>1. Init => IInv
  BY InitHolds
<1>2. IInv /\ [Next]_vars => IInv'
  BY StepKeeps
<1> QED
  BY <1>1, <1>2, PTL DEF Spec

-----------------------------------------------------------------------------
\* Every variable of a run's connections keeps its type.
THEOREM TypeCorrect == Spec => []TypeOK
<1>1. IInv => TypeOK
  BY DEF IInv
<1> QED
  BY <1>1, Invariance, PTL

\* A `with` block works in a session in which every session SQL was run, whatever
\* attempts failed before it (connect_with_backoff).
THEOREM BlocksAreConfigured == Spec => []BlockIsConfigured
<1>1. IInv => BlockIsConfigured
  BY DEF IInv, Configured, BlockIsConfigured
<1> QED
  BY <1>1, Invariance, PTL

\* There is one session at most, and none between uses that ended in order
\* (MySQLConnection.connect, close).
THEOREM OneSessionAtMost == Spec => []NoSessionLeftOpen
<1>1. ASSUME IInv PROVE NoSessionLeftOpen
  <2>1. open \subseteq {conn} /\ (pc = "idle" => open = {})
    BY <1>1 DEF IInv, OneSession
  <2>2. open = {} \/ open = {conn}
    BY <2>1
  <2>3. Cardinality({}) = 0 /\ Cardinality({conn}) = 1
    BY FS_EmptySet, FS_Singleton
  <2> QED
    BY <2>1, <2>2, <2>3 DEF NoSessionLeftOpen
<1> QED
  BY <1>1, Invariance, PTL

\* Files that are left on disk are those of attempts that failed, in any number of
\* uses (create_ssl_files, close).
THEOREM FilesOfFailuresOnly == Spec => []OnlyFailuresLeaveFiles
<1>1. IInv => OnlyFailuresLeaveFiles
  BY DEF IInv, FilesAccounted, OnlyFailuresLeaveFiles
<1> QED
  BY <1>1, Invariance, PTL
=============================================================================
