---------------------------- MODULE CatalogIndex ----------------------------
(***************************************************************************)
(* retrieval/index.py: the catalog as a collection of a vector store, made *)
(* by whoever finds it missing or incomplete.  A process has two objects   *)
(* of class CatalogIndex, each with a flag of its own that it is ready:    *)
(* that of the start-up task (main.py) and that of the candidates service, *)
(* which the worker threads of all requests share.                         *)
(*                                                                         *)
(* The name of the collection is a fingerprint of the catalog: a process   *)
(* with another catalog works on another collection.                       *)
(***************************************************************************)
EXTENDS Naturals, FiniteSets

CONSTANTS Control,      \* the controls of the catalog, one point each
          Request,      \* the threads of requests that retrieve
          Startup,      \* the thread of the start-up task
          Searches,     \* how many searches a retrieval makes
          MaxRestarts   \* bound: how often the process is replaced

ASSUME StartupAssumption == Startup \notin Request
ASSUME SearchesAssumption == Searches \in Nat \ {0}
ASSUME MaxRestartsAssumption == MaxRestarts \in Nat

Thread == Request \cup {Startup}
Index == {"startup", "service"}
IndexOf(t) == IF t = Startup THEN "startup" ELSE "service"

VARIABLES exists,       \* whether the store has the collection
          points,       \* the controls it holds
          ready,        \* CatalogIndex._ready
          model,        \* whether the embedding model is loaded
          pc,           \* what each thread is about to do
          left,         \* the searches it has still to make
          seen,         \* the controls all its searches ranked
          overlapped,   \* two threads prepared the collection at once (history)
          cutShort,     \* a rebuild ended before its last call (history)
          restarts

collection == <<exists, points>>
history == <<overlapped, cutShort>>
vars == <<collection, ready, model, pc, left, seen, history, restarts>>

\* Between the delete and the upsert of _populate.
Rebuilding == {"create", "filterable", "upsert"}
\* Found the index not ready and has not made it so.
Preparing == {"count", "encode", "delete"} \cup Rebuilding
Ended == {"answered", "unavailable", "failed"}
PC == {"idle", "ensure", "embed", "query"} \cup Preparing \cup Ended

TypeOK ==
    /\ exists \in BOOLEAN
    /\ points \subseteq Control
    /\ exists \/ points = {}
    /\ ready \in [Index -> BOOLEAN]
    /\ model \in BOOLEAN
    /\ pc \in [Thread -> PC]
    /\ left \in [Thread -> 0..Searches]
    /\ seen \in [Thread -> SUBSET Control]
    /\ overlapped \in BOOLEAN
    /\ cutShort \in BOOLEAN
    /\ restarts \in 0..MaxRestarts

Whole == exists /\ points = Control

-----------------------------------------------------------------------------
Goto(t, where) == pc' = [pc EXCEPT ![t] = where]

\* Faulty variant: a call that is refused has the population done again.
PopulateAgain(t) ==
    /\ Goto(t, "delete")
    /\ cutShort' = (cutShort \/ pc[t] \in Rebuilding)

\* IndexUnavailableError: the request goes on without retrieval.
Unavailable(t) ==
    /\ Goto(t, "unavailable")
    /\ cutShort' = (cutShort \/ pc[t] \in Rebuilding)

\* A call on the collection, refused unless the store is as it has to be.
Call(t, accepted, next) ==
    \/ accepted /\ Goto(t, next) /\ UNCHANGED cutShort
    \/ ~accepted /\ Unavailable(t)

Start(t) ==
    /\ pc[t] = "idle"
    /\ Goto(t, "ensure")
    /\ left' = [left EXCEPT ![t] = Searches]
    /\ seen' = [seen EXCEPT ![t] = Control]
    /\ UNCHANGED <<collection, ready, model, history, restarts>>

\* CatalogIndex.ensure: the flag, then collection_exists.
Ensure(t) ==
    /\ pc[t] = "ensure"
    /\ \/ /\ ready[IndexOf(t)]
          /\ Goto(t, "embed")
          /\ UNCHANGED overlapped
       \/ /\ ~ready[IndexOf(t)]
          /\ Goto(t, IF exists THEN "count" ELSE "encode")
          /\ overlapped' = (overlapped \/ \E u \in Thread \ {t} : pc[u] \in Preparing)
    /\ UNCHANGED <<collection, ready, model, left, seen, cutShort, restarts>>

\* Faulty variant: a collection that exists is taken to be whole.
CountIgnored(t) ==
    /\ pc[t] = "count"
    /\ Call(t, exists, "embed")
    /\ ready' = [ready EXCEPT ![IndexOf(t)] = exists]
    /\ UNCHANGED <<collection, model, left, seen, overlapped, restarts>>

\* An incomplete collection is one whose population was interrupted.
Count(t) ==
    /\ pc[t] = "count"
    /\ Call(t, exists, IF Whole THEN "embed" ELSE "encode")
    /\ ready' = [ready EXCEPT ![IndexOf(t)] = @ \/ Whole]
    /\ UNCHANGED <<collection, model, left, seen, overlapped, restarts>>

\* _populate encodes the passages before it touches the collection.  The model
\* is loaded once per process; a load that fails is tried again by the next.
EncodePassages(t) ==
    /\ pc[t] = "encode"
    /\ \/ model' = TRUE /\ Goto(t, "delete") /\ UNCHANGED cutShort
       \/ ~model /\ Unavailable(t) /\ UNCHANGED model
    /\ UNCHANGED <<collection, ready, left, seen, overlapped, restarts>>

\* Deleting a collection that is not there is no error.
DeleteCollection(t) ==
    /\ pc[t] = "delete"
    /\ exists' = FALSE
    /\ points' = {}
    /\ Goto(t, "create")
    /\ UNCHANGED <<ready, model, left, seen, history, restarts>>

CreateCollection(t) ==
    /\ pc[t] = "create"
    /\ Call(t, ~exists, "filterable")
    /\ exists' = TRUE
    /\ UNCHANGED <<points, ready, model, left, seen, overlapped, restarts>>

CreatePayloadIndexes(t) ==
    /\ pc[t] = "filterable"
    /\ Call(t, exists, "upsert")
    /\ UNCHANGED <<collection, ready, model, left, seen, overlapped, restarts>>

\* Faulty variant: the index is ready when the points are accepted, not when
\* they are stored.
UpsertWithoutWait(t) ==
    /\ pc[t] = "upsert"
    /\ Call(t, exists, "embed")
    /\ points' \in IF exists THEN SUBSET Control ELSE {points}
    /\ ready' = [ready EXCEPT ![IndexOf(t)] = @ \/ exists]
    /\ UNCHANGED <<exists, model, left, seen, overlapped, restarts>>

\* The last call of _populate, with wait=True.
Upsert(t) ==
    /\ pc[t] = "upsert"
    /\ \/ /\ exists
          /\ Goto(t, "embed")
          /\ points' = Control
          /\ ready' = [ready EXCEPT ![IndexOf(t)] = TRUE]
          /\ cutShort' = FALSE
       \/ /\ ~exists
          /\ Unavailable(t)
          /\ UNCHANGED <<points, ready>>
    /\ UNCHANGED <<exists, model, left, seen, overlapped, restarts>>

\* encode_query: in search, where the error of a model that cannot be loaded is
\* not one the candidates service catches; and in warm, where it is logged.
EncodeQuery(t) ==
    /\ pc[t] = "embed"
    /\ \/ /\ model' = TRUE
          /\ Goto(t, IF t = Startup THEN "answered" ELSE "query")
       \/ /\ ~model
          /\ Goto(t, IF t = Startup THEN "unavailable" ELSE "failed")
          /\ UNCHANGED model
    /\ UNCHANGED <<collection, ready, left, seen, history, restarts>>

\* query_points ranks the points there are.
Query(t) ==
    /\ pc[t] = "query"
    /\ Call(t, exists, IF left[t] = 1 THEN "answered" ELSE "ensure")
    /\ left' = [left EXCEPT ![t] = @ - 1]
    /\ seen' = [seen EXCEPT ![t] = @ \cap points]
    /\ UNCHANGED <<collection, ready, model, overlapped, restarts>>

Step(t) ==
    \/ Ensure(t) \/ Count(t) \/ EncodePassages(t)
    \/ DeleteCollection(t) \/ CreateCollection(t) \/ CreatePayloadIndexes(t) \/ Upsert(t)
    \/ EncodeQuery(t) \/ Query(t)

\* The store cannot be reached, or does not answer in time: what was asked may
\* have been done, all of it or in part.
CallFails(t) ==
    /\ \/ pc[t] \in {"count", "query", "delete"} \cup Rebuilding
       \/ pc[t] = "ensure" /\ ~ready[IndexOf(t)]
    /\ \/ UNCHANGED collection
       \/ /\ pc[t] = "delete"
          /\ exists' = FALSE /\ points' = {}
       \/ /\ pc[t] = "create"
          /\ exists' = TRUE /\ UNCHANGED points
       \/ /\ pc[t] = "upsert" /\ exists
          /\ \E p \in SUBSET Control : points' = points \cup p
          /\ UNCHANGED exists
    /\ Goto(t, "unavailable")
    /\ cutShort' = (cutShort \/ pc[t] \in Rebuilding \cup {"delete"})
    /\ UNCHANGED <<ready, model, left, seen, overlapped, restarts>>

\* The process is replaced by another with the same catalog.
Restart ==
    /\ restarts < MaxRestarts
    /\ restarts' = restarts + 1
    /\ ready' = [i \in Index |-> FALSE]
    /\ model' = FALSE
    /\ pc' = [t \in Thread |-> "idle"]
    /\ overlapped' = FALSE
    /\ cutShort' = FALSE
    /\ UNCHANGED <<collection, left, seen>>

Init ==
    /\ exists = FALSE
    /\ points = {}
    /\ ready = [i \in Index |-> FALSE]
    /\ model = FALSE
    /\ pc = [t \in Thread |-> "idle"]
    /\ left = [t \in Thread |-> 0]
    /\ seen = [t \in Thread |-> Control]
    /\ overlapped = FALSE
    /\ cutShort = FALSE
    /\ restarts = 0

Next ==
    \/ \E t \in Thread : Start(t) \/ Step(t) \/ CallFails(t)
    \/ Restart

\* A thread runs on, and every call on the store returns or times out.
Fairness == \A t \in Thread : WF_vars(Step(t))

Spec == Init /\ [][Next]_vars /\ Fairness

(***************************************************************************)
(* Properties                                                              *)
(***************************************************************************)

\* An index that takes the collection for whole when it is not owes it to two
\* threads that prepared it at once: one that prepares it alone, whatever an
\* earlier process left behind and whichever calls fail, is never wrong.
NotWholeOnlyByOverlap ==
    \A i \in Index : ready[i] /\ ~Whole => overlapped

\* And even then it is wrong only while a rebuild is under way, or after one was
\* cut short: concurrent rebuilds that come to an end leave a whole collection.
WholeOnceSettled ==
    \/ \A i \in Index : ~ready[i]
    \/ Whole
    \/ cutShort
    \/ \E t \in Thread : pc[t] \in Rebuilding

\* Threads that delete the collection under each other do not keep each other
\* from ending: every retrieval and the start-up task end.
EveryRetrievalEnds ==
    \A t \in Thread : pc[t] # "idle" ~> pc[t] \in Ended \cup {"idle"}

\* search: the one thing this pass may not do is restrict in silence.  A
\* retrieval that ended well ranked every control of the catalog.
NothingRestrictedInSilence ==
    \A t \in Request : pc[t] = "answered" => seen[t] = Control
=============================================================================
