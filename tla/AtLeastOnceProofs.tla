-------------------------- MODULE AtLeastOnceProofs --------------------------
(* Proofs about AtLeastOnce.                                                *)
EXTENDS AtLeastOnce, TLAPS

\* Changes that are still to come lie past every bookmark, so only Replicate can
\* move a bookmark over one, and it says which were delivered.
LEMMA PromiseStep ==
  ASSUME TypeOK, NothingLost, [Next]_vars
  PROVE  TypeOK' /\ NothingLost'
<1>1. CASE Commit
  <2>1. changes' \subseteq (1 .. now' - 1) \X Streams
    BY <1>1 DEF Commit, TypeOK
  <2>2. TypeOK'
    BY <1>1, <2>1 DEF Commit, TypeOK
  <2>3. ASSUME NEW s \in Streams, NEW c \in changes', c[2] = s, origin[s] <= c[1], c[1] < bookmark[s]
        PROVE  c[1] \in delivered
    <3>1. bookmark[s] \in 0 .. now /\ now \in Nat
      BY DEF TypeOK
    <3>2. c \notin (now .. now' - 1) \X Streams
      BY <1>1, <2>3, <3>1 DEF Commit
    <3>3. c \in changes
      BY <1>1, <3>2 DEF Commit
    <3> QED
      BY <2>3, <3>3 DEF NothingLost, Kept
  <2> QED
    BY <1>1, <2>2, <2>3 DEF Commit, NothingLost, Kept
<1>2. ASSUME NEW s \in Streams, Join(s)
      PROVE  TypeOK' /\ NothingLost'
  <2>1. TypeOK'
    BY <1>2 DEF Join, TypeOK
  <2> SUFFICES ASSUME NEW t \in Streams
               PROVE  Kept(t, bookmark[t], delivered)'
    BY <2>1 DEF NothingLost
  <2>2. CASE t = s
    <3>1. origin'[t] = now /\ bookmark'[t] = now
      BY <1>2, <2>2 DEF Join, TypeOK
    <3>2. \A c \in changes' : c[1] \in Nat /\ now \in Nat
      BY <1>2 DEF Join, TypeOK
    <3> QED
      BY <3>1, <3>2 DEF Kept
  <2>3. CASE t # s
    BY <1>2, <2>3 DEF Join, TypeOK, NothingLost, Kept
  <2> QED
    BY <2>2, <2>3
<1>3. CASE Replicate
  <2>1. TypeOK'
    BY <1>3 DEF Replicate, TypeOK
  <2>2. ASSUME NEW s \in Streams
        PROVE  Kept(s, bookmark[s], delivered)'
    <3>1. CASE bookmark'[s] = bookmark[s]
      BY <1>3, <3>1 DEF Replicate, NothingLost, Kept
    <3>2. CASE bookmark'[s] # bookmark[s]
      BY <1>3, <3>2 DEF Replicate, Kept
    <3> QED
      BY <3>1, <3>2
  <2> QED
    BY <2>1, <2>2 DEF NothingLost
<1>4. CASE UNCHANGED vars
  BY <1>4 DEF vars, TypeOK, NothingLost, Kept
<1> QED
  BY <1>1, <1>2, <1>3, <1>4 DEF Next

\* Every specification that implements AtLeastOnce keeps its bookmarks behind what
\* it has yet to deliver.
THEOREM PromiseLosesNothing == Spec => [](TypeOK /\ NothingLost)
<1>1. Init => TypeOK /\ NothingLost
  BY DEF Init, TypeOK, NothingLost, Kept
<1>2. (TypeOK /\ NothingLost) /\ [Next]_vars => (TypeOK /\ NothingLost)'
  BY PromiseStep
<1> QED
  BY <1>1, <1>2, PTL DEF Spec
=============================================================================
