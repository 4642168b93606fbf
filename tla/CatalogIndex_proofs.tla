------------------------ MODULE CatalogIndex_proofs -------------------------
(***************************************************************************)
(* That an index is never wrong about its collection but by two threads    *)
(* that prepared it at once, and then only for as long as they do: for any *)
(* catalog, any number of requests and of searches, and any number of      *)
(* restarts and failing calls.                                             *)
(***************************************************************************)
EXTENDS CatalogIndex, TLAPS

\* Has decided that the collection is to be made again.
Repopulating == {"encode", "delete"} \cup Rebuilding

\* As long as no two threads have prepared the collection at once, one at most
\* does, and none once an index is ready.
Alone ==
    ~overlapped =>
        /\ \A t, u \in Thread : pc[t] \in Preparing /\ pc[u] \in Preparing => t = u
        /\ \A i \in Index : ready[i] => Whole /\ \A t \in Thread : pc[t] \notin Repopulating

\* A thread that is still at work has a search to make.
SearchLeft == \A t \in Thread : pc[t] \notin {"idle"} \cup Ended => left[t] # 0

IndexInv == TypeOK /\ SearchLeft /\ WholeOnceSettled /\ Alone

USE DEF Thread, Index, IndexOf, collection, history, vars, Rebuilding, Preparing, Repopulating,
        Ended, PC, Whole, Goto, Unavailable, Call

-----------------------------------------------------------------------------
\* Every step keeps the types; a search that is counted off was left to make.
LEMMA TypeStep ==
    ASSUME TypeOK, SearchLeft, [Next]_vars
    PROVE  TypeOK' /\ SearchLeft'
<1> USE SearchesAssumption, MaxRestartsAssumption DEF TypeOK, SearchLeft
<1>1. ASSUME NEW t \in Thread, Start(t)
      PROVE  TypeOK' /\ SearchLeft'
  BY <1>1 DEF Start
<1>2. ASSUME NEW t \in Thread, Ensure(t)
      PROVE  TypeOK' /\ SearchLeft'
  BY <1>2 DEF Ensure
<1>3. ASSUME NEW t \in Thread, Count(t)
      PROVE  TypeOK' /\ SearchLeft'
  BY <1>3 DEF Count
<1>4. ASSUME NEW t \in Thread, EncodePassages(t)
      PROVE  TypeOK' /\ SearchLeft'
  BY <1>4 DEF EncodePassages
<1>5. ASSUME NEW t \in Thread, DeleteCollection(t)
      PROVE  TypeOK' /\ SearchLeft'
  BY <1>5 DEF DeleteCollection
<1>6. ASSUME NEW t \in Thread, CreateCollection(t)
      PROVE  TypeOK' /\ SearchLeft'
  BY <1>6 DEF CreateCollection
<1>7. ASSUME NEW t \in Thread, CreatePayloadIndexes(t)
      PROVE  TypeOK' /\ SearchLeft'
  BY <1>7 DEF CreatePayloadIndexes
<1>8. ASSUME NEW t \in Thread, Upsert(t)
      PROVE  TypeOK' /\ SearchLeft'
  <2>1. pc[t] = "upsert" /\ UNCHANGED <<exists, model, left, seen, overlapped, restarts>>
    BY <1>8 DEF Upsert
  <2>2. CASE ~exists
    BY <1>8, <2>1, <2>2 DEF Upsert
  <2>3. CASE exists
    <3>1. /\ pc' = [pc EXCEPT ![t] = "embed"] /\ points' = Control /\ cutShort' = FALSE
          /\ ready' = [ready EXCEPT ![IndexOf(t)] = TRUE]
      BY <1>8, <2>3 DEF Upsert
    <3>2. TypeOK'
      BY <2>1, <2>3, <3>1
    <3>3. SearchLeft'
      BY <2>1, <3>1
    <3> QED BY <3>2, <3>3
  <2> QED BY <2>2, <2>3
<1>9. ASSUME NEW t \in Thread, EncodeQuery(t)
      PROVE  TypeOK' /\ SearchLeft'
  BY <1>9 DEF EncodeQuery
<1>10. ASSUME NEW t \in Thread, Query(t)
       PROVE  TypeOK' /\ SearchLeft'
  BY <1>10 DEF Query
<1>11. ASSUME NEW t \in Thread, CallFails(t)
       PROVE  TypeOK' /\ SearchLeft'
  <2>1. exists' \in BOOLEAN /\ points' \subseteq Control /\ (exists' \/ points' = {})
    <3>1. \/ UNCHANGED collection
          \/ exists' = FALSE /\ points' = {}
          \/ exists' = TRUE /\ UNCHANGED points
          \/ exists /\ exists' = exists /\ \E p \in SUBSET Control : points' = points \cup p
      BY <1>11 DEF CallFails
    <3>2. QED
      BY <3>1
  <2>2. /\ pc' = [pc EXCEPT ![t] = "unavailable"]
        /\ cutShort' = (cutShort \/ pc[t] \in Rebuilding \cup {"delete"})
    BY <1>11 DEF CallFails
  <2>3. UNCHANGED <<ready, model, left, seen, overlapped, restarts>>
    BY <1>11 DEF CallFails
  <2>4. pc' \in [Thread -> PC] /\ cutShort' \in BOOLEAN
    BY <2>2
  <2>5. SearchLeft'
    BY <2>2, <2>3
  <2>6. QED
    BY <2>1, <2>3, <2>4, <2>5
<1>12. CASE Restart
  <2>1. restarts' \in 0..MaxRestarts
    BY <1>12 DEF Restart
  <2>2. pc' \in [Thread -> PC] /\ SearchLeft'
    BY <1>12 DEF Restart
  <2>3. ready' \in [Index -> BOOLEAN]
    BY <1>12 DEF Restart
  <2>4. QED
    BY <1>12, <2>1, <2>2, <2>3 DEF Restart
<1>13. CASE UNCHANGED vars
  BY <1>13
<1>14. QED
  BY <1>1, <1>2, <1>3, <1>4, <1>5, <1>6, <1>7, <1>8, <1>9, <1>10, <1>11, <1>12, <1>13
  DEF Next, Step

\* Only the last call of a rebuild ends one without a trace, and it leaves a whole
\* collection.
LEMMA SettledStep ==
    ASSUME TypeOK, WholeOnceSettled, [Next]_vars
    PROVE  WholeOnceSettled'
<1> USE DEF TypeOK, WholeOnceSettled
<1>1. ASSUME NEW t \in Thread, Start(t)
      PROVE  WholeOnceSettled'
  BY <1>1 DEF Start
<1>2. ASSUME NEW t \in Thread, Ensure(t)
      PROVE  WholeOnceSettled'
  BY <1>2 DEF Ensure
<1>3. ASSUME NEW t \in Thread, Count(t)
      PROVE  WholeOnceSettled'
  BY <1>3 DEF Count
<1>4. ASSUME NEW t \in Thread, EncodePassages(t)
      PROVE  WholeOnceSettled'
  BY <1>4 DEF EncodePassages
<1>5. ASSUME NEW t \in Thread, DeleteCollection(t)
      PROVE  WholeOnceSettled'
  BY <1>5 DEF DeleteCollection
<1>6. ASSUME NEW t \in Thread, CreateCollection(t)
      PROVE  WholeOnceSettled'
  BY <1>6 DEF CreateCollection
<1>7. ASSUME NEW t \in Thread, CreatePayloadIndexes(t)
      PROVE  WholeOnceSettled'
  BY <1>7 DEF CreatePayloadIndexes
<1>8. ASSUME NEW t \in Thread, Upsert(t)
      PROVE  WholeOnceSettled'
  BY <1>8 DEF Upsert
<1>9. ASSUME NEW t \in Thread, EncodeQuery(t)
      PROVE  WholeOnceSettled'
  BY <1>9 DEF EncodeQuery
<1>10. ASSUME NEW t \in Thread, Query(t)
       PROVE  WholeOnceSettled'
  BY <1>10 DEF Query
<1>11. ASSUME NEW t \in Thread, CallFails(t)
       PROVE  WholeOnceSettled'
  BY <1>11 DEF CallFails
<1>12. CASE Restart
  BY <1>12 DEF Restart
<1>13. CASE UNCHANGED vars
  BY <1>13
<1>14. QED
  BY <1>1, <1>2, <1>3, <1>4, <1>5, <1>6, <1>7, <1>8, <1>9, <1>10, <1>11, <1>12, <1>13
  DEF Next, Step

\* A thread that prepares the collection alone finds no index ready when it has it
\* made again, and leaves it whole when it makes one ready.
LEMMA AloneStep ==
    ASSUME TypeOK, Alone, [Next]_vars
    PROVE  Alone'
<1> USE StartupAssumption DEF TypeOK, Alone
<1>1. ASSUME NEW t \in Thread, Start(t)
      PROVE  Alone'
  BY <1>1 DEF Start
<1>2. ASSUME NEW t \in Thread, Ensure(t)
      PROVE  Alone'
  <2> SUFFICES ASSUME ~overlapped'
               PROVE  Alone'
    OBVIOUS
  <2>1. UNCHANGED <<collection, ready>> /\ ~overlapped
    BY <1>2 DEF Ensure
  <2>2. CASE ready[IndexOf(t)]
    <3>1. pc' = [pc EXCEPT ![t] = "embed"]
      BY <1>2, <2>2 DEF Ensure
    <3>2. QED
      BY <2>1, <3>1
  <2>3. CASE ~ready[IndexOf(t)]
    <3>1. pc' = [pc EXCEPT ![t] = IF exists THEN "count" ELSE "encode"]
      BY <1>2, <2>3 DEF Ensure
    <3>2. \A u \in Thread \ {t} : pc[u] \notin Preparing
      BY <1>2, <2>1, <2>3 DEF Ensure
    <3>3. \A i \in Index : ready[i] => exists
      BY <2>1
    <3>4. QED
      BY <2>1, <3>1, <3>2, <3>3
  <2>4. QED
    BY <2>2, <2>3
<1>3. ASSUME NEW t \in Thread, Count(t)
      PROVE  Alone'
  BY <1>3 DEF Count
<1>4. ASSUME NEW t \in Thread, EncodePassages(t)
      PROVE  Alone'
  BY <1>4 DEF EncodePassages
<1>5. ASSUME NEW t \in Thread, DeleteCollection(t)
      PROVE  Alone'
  BY <1>5 DEF DeleteCollection
<1>6. ASSUME NEW t \in Thread, CreateCollection(t)
      PROVE  Alone'
  BY <1>6 DEF CreateCollection
<1>7. ASSUME NEW t \in Thread, CreatePayloadIndexes(t)
      PROVE  Alone'
  BY <1>7 DEF CreatePayloadIndexes
<1>8. ASSUME NEW t \in Thread, Upsert(t)
      PROVE  Alone'
  BY <1>8 DEF Upsert
<1>9. ASSUME NEW t \in Thread, EncodeQuery(t)
      PROVE  Alone'
  BY <1>9 DEF EncodeQuery
<1>10. ASSUME NEW t \in Thread, Query(t)
       PROVE  Alone'
  BY <1>10 DEF Query
<1>11. ASSUME NEW t \in Thread, CallFails(t)
       PROVE  Alone'
  BY <1>11 DEF CallFails
<1>12. CASE Restart
  BY <1>12 DEF Restart
<1>13. CASE UNCHANGED vars
  BY <1>13
<1>14. QED
  BY <1>1, <1>2, <1>3, <1>4, <1>5, <1>6, <1>7, <1>8, <1>9, <1>10, <1>11, <1>12, <1>13
  DEF Next, Step

-----------------------------------------------------------------------------
LEMMA IndexInvariant == Spec => []IndexInv
<1>1. Init => IndexInv
  <2> SUFFICES ASSUME Init
               PROVE  IndexInv
    OBVIOUS
  <2>1. TypeOK
    <3>1. left \in [Thread -> 0..Searches] /\ restarts \in 0..MaxRestarts
      BY SearchesAssumption, MaxRestartsAssumption DEF Init
    <3>2. pc \in [Thread -> PC]
      BY DEF Init
    <3>3. ready \in [Index -> BOOLEAN] /\ seen \in [Thread -> SUBSET Control]
      BY DEF Init
    <3>4. QED
      BY <3>1, <3>2, <3>3 DEF Init, TypeOK
  <2>2. SearchLeft
    BY DEF Init, SearchLeft
  <2>3. WholeOnceSettled
    BY DEF Init, WholeOnceSettled
  <2>4. Alone
    BY DEF Init, Alone
  <2>5. QED
    BY <2>1, <2>2, <2>3, <2>4 DEF IndexInv
<1>2. IndexInv /\ [Next]_vars => IndexInv'
  BY TypeStep, SettledStep, AloneStep DEF IndexInv
<1>3. QED
  BY <1>1, <1>2, PTL DEF Spec

\* The store, the flags and the threads keep their types, for any catalog and
\* any number of requests, searches and restarts.
THEOREM IndexTypeCorrect == Spec => []TypeOK
<1>1. IndexInv => TypeOK
  BY DEF IndexInv
<1>2. QED
  BY <1>1, IndexInvariant, PTL

\* CatalogIndex._ready is wrong about the collection only if two threads
\* prepared it at once.
THEOREM ReadyUnlessOverlap == Spec => []NotWholeOnlyByOverlap
<1>1. IndexInv => NotWholeOnlyByOverlap
  BY DEF IndexInv, Alone, NotWholeOnlyByOverlap
<1>2. QED
  BY <1>1, IndexInvariant, PTL

\* Whoever made it wrong, it is whole again once no _populate is under way and
\* none was cut short.
THEOREM WholeAfterRebuilds == Spec => []WholeOnceSettled
<1>1. IndexInv => WholeOnceSettled
  BY DEF IndexInv
<1>2. QED
  BY <1>1, IndexInvariant, PTL
=============================================================================
