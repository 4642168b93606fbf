--------------------------- MODULE BaselineReads ----------------------------
(***************************************************************************)
(* The reads of baseline/router.py, beside the requests that write:        *)
(* GET /baselines, and the trail of one baseline, which both               *)
(* GET /baseline/{id}/audit-log and GET /baseline/{id}/statement serve.    *)
(*                                                                         *)
(* Neither is one query.  Each reads the ledger twice, compositions are    *)
(* committed in between, and the answer is put together from both reads.   *)
(***************************************************************************)
EXTENDS CompositionFlow

VARIABLE reading        \* the read under way, or the last one answered

readVars == <<vars, reading>>

NoReading == [get |-> "nothing"]

CountedTypes == {"OPTION_REJECTED", "CLOSED", "MECHANISM_RATIFIED", "BASELINE_SIGNED"}

\* composition_counts: how many entries of each type every baseline carries.
CompositionCounts ==
    [n \in Request |-> [t \in CountedTypes |->
        Cardinality({r \in rows : r.entry.baseline = n /\ r.entry.type = t})]]

\* One signature read as the baseline it closed.
SummaryOf(s, counts) ==
    [baseline |-> s.entry.baseline, run |-> s.entry.run,
     conflicts_resolved |-> counts["OPTION_REJECTED"],
     audit_events |-> counts["OPTION_REJECTED"] + counts["CLOSED"]
                      + counts["MECHANISM_RATIFIED"] + counts["BASELINE_SIGNED"]]

ListingOf(signatures, counts) ==
    {SummaryOf(s, counts[s.entry.baseline]) : s \in signatures}

\* Faulty variant: only the events stamped with the baseline.
StampedTrail(n) == StampedWith(n)

\* Every event of every run that has an event of the baseline.
TrailForBaseline(n) ==
    {r \in rows : \E s \in StampedWith(n) : r.entry.run = s.entry.run}

Idle == reading.get \in {"nothing", "listed", "served", "not_found"}

ReadInit == Init /\ reading = NoReading

-----------------------------------------------------------------------------
\* Faulty variant: the entries are counted before the signatures are read.
CountThenList ==
    /\ \/ /\ Idle
          /\ reading' = [get |-> "list", counts |-> CompositionCounts]
       \/ /\ reading.get = "list"
          /\ reading' = [get |-> "listed",
                         summaries |-> ListingOf(Signatures, reading.counts)]
    /\ UNCHANGED vars

\* list_baselines: the signatures, then the counts.
ListBaselines ==
    /\ \/ /\ Idle
          /\ reading' = [get |-> "list", signatures |-> Signatures]
       \/ /\ reading.get = "list"
          /\ reading' = [get |-> "listed",
                         summaries |-> ListingOf(reading.signatures, CompositionCounts)]
    /\ UNCHANGED vars

\* Faulty variant: the chain is verified before the trail is read.
VerifyThenServe(n) ==
    /\ \/ /\ Idle
          /\ reading' = [get |-> "trail", baseline |-> n, verified |-> TrailForBaseline(n)]
       \/ /\ reading.get = "trail" /\ reading.baseline = n
          /\ reading' = [get |-> "served", baseline |-> n, events |-> TrailForBaseline(n),
                         verified |-> reading.verified]
    /\ UNCHANGED vars

\* The trail, which is a 404 when it is empty; then the verdict on the chain,
\* from a read of its own.
ServeTrail(n) ==
    /\ \/ /\ Idle
          /\ reading' = IF TrailForBaseline(n) = {}
                        THEN [get |-> "not_found", baseline |-> n]
                        ELSE [get |-> "trail", baseline |-> n, events |-> TrailForBaseline(n)]
       \/ /\ reading.get = "trail" /\ reading.baseline = n
          /\ reading' = [get |-> "served", baseline |-> n, events |-> reading.events,
                         verified |-> TrailForBaseline(n)]
    /\ UNCHANGED vars

ReadNext ==
    \/ (\E n \in Request : Step(n)) /\ UNCHANGED reading
    \/ Restart /\ reading' = IF Idle THEN reading ELSE NoReading
    \/ ListBaselines
    \/ \E n \in Request : ServeTrail(n)

ReadSpec == ReadInit /\ [][ReadNext]_readVars /\ Fairness

(***************************************************************************)
(* Properties                                                              *)
(***************************************************************************)

\* Every baseline listed is counted whole: whatever is committed while the list
\* is being read, no summary shows a signature without the entries it closed.
ListedWhole ==
    reading.get = "listed" =>
        \A b \in reading.summaries :
            /\ b.audit_events = Cardinality(StampedWith(b.baseline))
            /\ b.conflicts_resolved =
                  Cardinality({r \in StampedWith(b.baseline) : r.entry.type = "OPTION_REJECTED"})

\* A trail that is served holds its signature, every entry of the composition
\* and every event the engine ever records on the run: nothing it leaves out
\* can appear later but the decisions of another composition over that run.
ServedWhole ==
    reading.get \in {"trail", "served"} =>
        /\ \E s \in Signatures \cap reading.events : s.entry.baseline = reading.baseline
        /\ \A r \in ByRun(request[reading.baseline].run) \ reading.events :
              r.entry.type \in HumanEvent /\ r.entry.baseline # reading.baseline

\* No event is served that the verdict shown beside it does not cover.
ServedIsVerified ==
    reading.get = "served" => reading.events \subseteq reading.verified
=============================================================================
