----------------------------- MODULE Connection -----------------------------
(***************************************************************************)
(* The one MySQLConnection of a run and its uses: each part of the tap      *)
(* connects with back-off, runs the session SQLs, works inside a `with`     *)
(* block and closes.  A use that fails may be followed by another one, the  *)
(* retry loops of the table syncs.  tap_mysql/connection.py.                *)
(*                                                                         *)
(* A connection attempt has a number; it stands for the server's session   *)
(* and for the three certificate files of that attempt.                     *)
(***************************************************************************)
EXTENDS Integers, FiniteSets

CONSTANTS
  Certificates,  \* the config has ssl_ca, ssl_cert and ssl_key
  SessionSqls,   \* the number of session SQLs
  MAX_TRIES,     \* max_tries of the back-off decorator
  MaxUses        \* bound: the uses in a run

ASSUME ConnectionAssumption ==
  /\ Certificates \in BOOLEAN
  /\ SessionSqls \in Nat /\ MAX_TRIES \in Nat \ {0} /\ MaxUses \in Nat

VARIABLES
  pc,        \* idle, connect, session, block; raised: an error went to the caller; exited
  uses,      \* the uses so far
  tries,     \* the attempts of the current use
  conn,      \* _conn: the attempt that opened it, 0 for None
  temp,      \* _ssl_temp_files: the attempt that wrote them, 0 for none
  files,     \* the attempts whose files are on disk
  open,      \* the sessions open on the server
  sql,       \* session SQLs run in this attempt
  settled,   \* for each session SQL, the session that last took or refused it
  failed     \* history: the attempts that failed or whose close failed

vars == <<pc, uses, tries, conn, temp, files, open, sql, settled, failed>>

Init ==
  /\ pc = "idle" /\ uses = 0 /\ tries = 0
  /\ conn = 0 /\ temp = 0 /\ files = {} /\ open = {}
  /\ sql = 0 /\ settled = [q \in 1 .. SessionSqls |-> 0]
  /\ failed = {}

-----------------------------------------------------------------------------
\* A part of the tap asks for a connection.
Use ==
  /\ pc \in {"idle", "raised"} /\ uses < MaxUses
  /\ uses' = uses + 1 /\ tries' = 1 /\ pc' = "connect"
  /\ UNCHANGED <<conn, temp, files, open, sql, settled, failed>>

attempt == (uses - 1) * MAX_TRIES + tries

\* Mutant: the files are remembered if none are.
RememberFirstFiles ==
  IF Certificates THEN files' = files \cup {attempt} /\ temp' = IF temp = 0 THEN attempt ELSE temp
                  ELSE UNCHANGED <<files, temp>>

\* connect: the files are written and remembered in place of those of the attempt before.
WriteFiles ==
  IF Certificates THEN files' = files \cup {attempt} /\ temp' = attempt
                  ELSE UNCHANGED <<files, temp>>

\* Mutant: the attempts are not counted.
RetryForever == pc' = "connect" /\ UNCHANGED tries

\* Mutant: one attempt too many.
RetryOnceMore ==
  IF tries <= MAX_TRIES THEN pc' = "connect" /\ tries' = tries + 1
                        ELSE pc' = "raised" /\ UNCHANGED tries

\* An attempt fails: an operational error is tried again up to max_tries times.
Retry ==
  IF tries < MAX_TRIES THEN pc' = "connect" /\ tries' = tries + 1
                       ELSE pc' = "raised" /\ UNCHANGED tries

\* The back-off does not catch other errors.
Raise == pc' = "raised" /\ UNCHANGED tries

\* Mutant: the session before is overwritten without being closed.
OpensAnother ==
  /\ pc = "connect" /\ WriteFiles
  /\ conn' = attempt /\ open' = open \cup {attempt}
  /\ pc' = "session" /\ sql' = 0
  /\ UNCHANGED <<uses, tries, settled, failed>>

\* Mutant: a retry goes on at the session SQL that failed.
OpensAndResumes ==
  /\ pc = "connect" /\ WriteFiles
  /\ conn' = attempt /\ open' = (open \ {conn}) \cup {attempt}
  /\ pc' = "session" /\ sql' = IF tries = 1 THEN 0 ELSE sql
  /\ UNCHANGED <<uses, tries, settled, failed>>

\* The session before is closed, mysql.connector.connect answers, and run_session_sqls starts.
Opens ==
  /\ pc = "connect" /\ WriteFiles
  /\ conn' = attempt /\ open' = (open \ {conn}) \cup {attempt}
  /\ pc' = "session" /\ sql' = 0
  /\ UNCHANGED <<uses, tries, settled, failed>>

\* It raises; _conn is still the closed one.
ConnectFails(Then) ==
  /\ pc = "connect" /\ WriteFiles
  /\ open' = open \ {conn} /\ failed' = failed \cup {attempt}
  /\ Then
  /\ UNCHANGED <<uses, conn, sql, settled>>

\* A session SQL is taken, or refused with an internal error, of which a warning tells.
SessionSql ==
  /\ pc = "session" /\ sql < SessionSqls /\ conn \in open
  /\ sql' = sql + 1 /\ settled' = [settled EXCEPT ![sql'] = conn]
  /\ UNCHANGED <<pc, uses, tries, conn, temp, files, open, failed>>

\* A session SQL fails with any other error.
SessionSqlFails(Then) ==
  /\ pc = "session" /\ sql < SessionSqls
  /\ failed' = failed \cup {conn}
  /\ Then
  /\ UNCHANGED <<uses, conn, temp, files, open, sql, settled>>

\* connect_with_backoff returns and the `with` block is entered.
Enter ==
  /\ pc = "session" /\ sql = SessionSqls
  /\ pc' = "block"
  /\ UNCHANGED <<uses, tries, conn, temp, files, open, sql, settled, failed>>

\* __exit__, after the work or after an error of it: the session and the files go.
Close ==
  /\ conn' = 0 /\ open' = open \ {conn}
  /\ files' = files \ {temp} /\ temp' = 0 /\ UNCHANGED failed

\* Closing raises: _conn is None, and the files are left.
CloseFails ==
  /\ conn' = 0 /\ open' = open \ {conn} /\ failed' = failed \cup {conn}
  /\ UNCHANGED <<files, temp>>

\* The block ends, in order or with an error that goes on to the caller.
Exit ==
  /\ pc = "block"
  /\ \/ pc' \in {"idle", "raised"} /\ Close
     \/ pc' = "raised" /\ CloseFails
  /\ UNCHANGED <<uses, tries, sql, settled>>

\* The server ends the session: a restart, a timeout, a KILL.
ServerDrops ==
  /\ open # {} /\ open' = {}
  /\ UNCHANGED <<pc, uses, tries, conn, temp, files, sql, settled, failed>>

\* The process ends, of an error or because all is done: its sockets close.
ProcessEnds ==
  /\ pc \in {"idle", "raised"} /\ pc' = "exited"
  /\ open' = {} /\ conn' = 0 /\ temp' = 0
  /\ UNCHANGED <<uses, tries, files, sql, settled, failed>>

Step ==
  \/ Use \/ Opens \/ ConnectFails(Retry) \/ ConnectFails(Raise)
  \/ SessionSql \/ SessionSqlFails(Retry) \/ SessionSqlFails(Raise)
  \/ Enter \/ Exit

Next == Step \/ ServerDrops \/ ProcessEnds

Spec == Init /\ [][Next]_vars

\* The code goes on by itself: each call to the server returns or times out.
FairSpec == Spec /\ WF_vars(Step)

-----------------------------------------------------------------------------
Attempts == MaxUses * MAX_TRIES

\* Every variable has its type.
TypeOK ==
  /\ pc \in {"idle", "connect", "session", "block", "raised", "exited"}
  /\ uses \in 0 .. MaxUses /\ tries \in 0 .. MAX_TRIES
  /\ {conn, temp} \subseteq 0 .. Attempts /\ files \cup open \cup failed \subseteq 1 .. Attempts
  /\ sql \in 0 .. SessionSqls /\ settled \in [1 .. SessionSqls -> 0 .. Attempts]

\* The queries of a block run in a session in which each session SQL was run, however
\* many attempts it took: one set before a retry was set in another session
\* (connect_with_backoff retries connect and run_session_sqls together).
BlockIsConfigured ==
  pc = "block" => \A q \in 1 .. SessionSqls : settled[q] = conn

\* The tap holds one session at a time, and none between the uses that ended in order
\* (connect closes the session of the attempt before, close that of the last one).
NoSessionLeftOpen == Cardinality(open) <= 1 /\ (pc = "idle" => open = {})

\* Certificate files that nobody will remove are those of attempts that failed: an
\* attempt forgets the files of the one before it (connect, close).
OnlyFailuresLeaveFiles == files \ {temp} \subseteq failed

\* Asking for a connection ends in a block or in an error, whatever the server does
\* (max_tries of connect_with_backoff).
EveryUseAnswered == pc = "connect" ~> pc \in {"block", "raised"}
=============================================================================
