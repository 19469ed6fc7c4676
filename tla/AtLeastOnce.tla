----------------------------- MODULE AtLeastOnce -----------------------------
(***************************************************************************)
(* What replication by a log promises.  Tables change at growing positions; *)
(* a table joins with a snapshot, from which its origin on the log has its  *)
(* changes; a bookmark moves, forward or back, but never over a change that *)
(* the target was not given.                                                *)
(***************************************************************************)
EXTENDS Naturals

CONSTANT Streams

VARIABLES
  now,       \* the position the next change gets
  changes,   \* the changes: pairs of a position and a table
  origin,    \* where the snapshot of a table left off; 0 before it
  bookmark,  \* where replication of a table resumes; 0 before its snapshot
  delivered  \* the positions of the changes the target was given

vars == <<now, changes, origin, bookmark, delivered>>

\* The changes of s since its snapshot and below p are among D.
Kept(s, p, D) ==
  \A c \in changes : c[2] = s /\ origin[s] <= c[1] /\ c[1] < p => c[1] \in D

Init ==
  /\ now = 1 /\ changes = {}
  /\ origin = [s \in Streams |-> 0] /\ bookmark = [s \in Streams |-> 0]
  /\ delivered = {}

\* Tables change.
Commit ==
  /\ now' \in Nat /\ now < now'
  /\ changes \subseteq changes'
  /\ changes' \ changes \subseteq (now .. now' - 1) \X Streams
  /\ UNCHANGED <<origin, bookmark, delivered>>

\* A table joins: the target has its rows as they are now.
Join(s) ==
  /\ origin[s] = 0
  /\ origin' = [origin EXCEPT ![s] = now]
  /\ bookmark' = [bookmark EXCEPT ![s] = now]
  /\ UNCHANGED <<now, changes, delivered>>

\* The target is given changes of tables that have joined, and bookmarks move.
Replicate ==
  /\ delivered \subseteq delivered'
  /\ \A i \in delivered' \ delivered : \E c \in changes : c[1] = i /\ origin[c[2]] # 0
  /\ bookmark' \in [Streams -> 0 .. now]
  /\ \A s \in Streams : bookmark'[s] # bookmark[s] =>
       origin[s] # 0 /\ bookmark'[s] # 0 /\ Kept(s, bookmark'[s], delivered')
  /\ UNCHANGED <<now, changes, origin>>

Next == Commit \/ (\E s \in Streams : Join(s)) \/ Replicate

Spec == Init /\ [][Next]_vars

-----------------------------------------------------------------------------
\* Every variable has its type, and nothing lies in the future.
TypeOK ==
  /\ now \in Nat \ {0}
  /\ changes \subseteq (1 .. now - 1) \X Streams
  /\ origin \in [Streams -> 0 .. now] /\ bookmark \in [Streams -> 0 .. now]
  /\ \A s \in Streams : origin[s] = 0 <=> bookmark[s] = 0

\* Whatever lies before the bookmark of a table was delivered, so that a crash loses
\* nothing: reading goes on from there.
NothingLost == \A s \in Streams : Kept(s, bookmark[s], delivered)
=============================================================================
