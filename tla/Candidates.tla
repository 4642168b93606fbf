----------------------------- MODULE Candidates -----------------------------
(***************************************************************************)
(* The requests one process serves from the declared data: POST            *)
(* /candidates (candidates/service.py), POST /delta and POST /asset/parse  *)
(* (parse/service.py).                                                     *)
(*                                                                         *)
(* A candidates request runs the core, records it, widens it with the      *)
(* retrieval, records that, and has a model write next to what the         *)
(* operator has open.  Every pass after the first may not be there to be   *)
(* run.  CompositionFlow follows the same requests as the ledger sees      *)
(* them, with the data left out.                                           *)
(***************************************************************************)
EXTENDS Answer, Delta, PinnedModel

CONSTANTS Request,          \* the requests of one behaviour
          Loads,            \* what they may ask for together, in families
          Drafts,           \* what the model may answer to a fact sheet
          EXPLAIN_ENABLED,
          MaxRestarts       \* bound: how often the process dies

ASSUME ExplainEnabledAssumption == EXPLAIN_ENABLED \in BOOLEAN
ASSUME MaxRestartsAssumption == MaxRestarts \in Nat

NoScope == [zone |-> 0, capabilities |-> {}]

\* What a request asks for, with the declared data it is answered from.  The index
\* holds a control once, and dependencies with a cycle do not load.
AskedCandidates ==
    [kind: {"candidates"}, profile: Profile, zones: Seq(Zone), mappings: SUBSET Mapping,
     contradictions: Seq(Contradiction), gating: Seq(GatingRule),
     prioritization: {rules \in PrioritizationRules : Acyclic(rules)},
     retrieval: BOOLEAN, lens: PayloadFilter,
     ranking: [Capability -> {s \in Seq(IndexHit) :
                                 \A i, j \in DOMAIN s : s[i].control = s[j].control => i = j}],
     explain: [zone: Nat, capabilities: SUBSET Nat]]
AskedDelta ==
    [kind: {"delta"}, profile: Profile, zones: Seq(Zone), zone: Nat, mappings: SUBSET Mapping,
     contradictions: Seq(Contradiction), regions: Seq(Jurisdiction), mode: DeltaMode,
     regime: DeltaRegime]
AskedParse == [kind: {"parse"}, empty: BOOLEAN]
Asked == AskedCandidates \cup AskedDelta \cup AskedParse \cup [kind: {"none"}]

\* A load gives every request what it asks for.  Only an unsettled one sees
\* other weights pulled and the process die: a bound.
ASSUME LoadsAssumption ==
    \A family \in DOMAIN Loads : \A load \in Loads[family] :
        load.asks \in [Request -> Asked] /\ load.unsettled \in BOOLEAN

VARIABLES asks,         \* asks[r]: what r asks for
          unsettled,    \* whether the weights and the process may change
          stage,        \* stage[r]: the await r is at, or its end
          run,          \* run[r]: what the core computed, zone by zone
          retrieved,    \* retrieved[r]: what the retrieval added to it
          open,         \* open[r]: the capabilities still to be explained
          explained,    \* explained[r]: the explanations of the others
          tags,         \* tags[r]: what Ollama answered r
          answer,       \* answer[r]: the answer to a candidates request
          delta,        \* delta[r]: the answer to a delta request
          ledger,       \* what was appended, batch by batch
          prose,        \* every text a model wrote (history)
          faults,       \* faults[r]: what broke under r (history)
          restarts

dataVars == <<run, retrieved, open, explained, tags, answer, delta>>
requestVars == <<stage, dataVars, faults>>
recordVars == <<ledger, prose>>
environmentVars == <<asks, unsettled, restarts>>
vars == <<modelVars, requestVars, recordVars, environmentVars>>

Nothing == << >>
NoAnswer == [digest |-> NoWeights, at |-> 0]

Ended == {"idle", "answered", "refused", "failed", "lost"}
Stage == Ended \cup {"received", "computed", "recorded", "widened", "explaining",
                     "verifying", "asking"}

Init ==
    /\ \E family \in DOMAIN Loads : \E load \in Loads[family] :
          asks = load.asks /\ unsettled = load.unsettled
    /\ ModelInit
    /\ ~unsettled => weights = Pinned
    /\ stage = [r \in Request |-> IF asks[r].kind = "none" THEN "idle" ELSE "received"]
    /\ run = [r \in Request |-> Nothing]
    /\ retrieved = [r \in Request |-> Nothing]
    /\ open = [r \in Request |-> Nothing]
    /\ explained = [r \in Request |-> Nothing]
    /\ tags = [r \in Request |-> NoAnswer]
    /\ answer = [r \in Request |-> Nothing]
    /\ delta = [r \in Request |-> Nothing]
    /\ ledger = << >>
    /\ prose = {}
    /\ faults = [r \in Request |-> {}]
    /\ restarts = 0

\* Only the stage of a request moves, or what broke under it.
Unmoved == UNCHANGED <<modelVars, environmentVars, recordVars, dataVars>>

Is(r, kind) == asks[r].kind = kind
Move(r, from, to) == stage[r] = from /\ stage' = [stage EXCEPT ![r] = to]
Fault(r, what) == faults' = [faults EXCEPT ![r] = @ \cup {what}]

-----------------------------------------------------------------------------
(***************************************************************************)
(* The core, and the ledger                                                *)
(***************************************************************************)
\* The scope of the explanations is checked before anything is recorded.
ScopeIsReachable(ask) ==
    \/ ask.explain = NoScope
    \/ ask.explain.zone \in DOMAIN ask.zones /\ ask.explain.capabilities \subseteq Capability

RefuseScope(r) ==
    /\ Is(r, "candidates")
    /\ ~ScopeIsReachable(asks[r])
    /\ Move(r, "received", "refused")
    /\ Unmoved /\ UNCHANGED faults

\* The rules do not fit the catalog: the engine refuses to run, and so does the
\* delta.  That error is not of the kind a request answers with.
RulesRefused(r) ==
    /\ \/ Is(r, "candidates") /\ ScopeIsReachable(asks[r])
       \/ Is(r, "delta") /\ AcceptedRegions(asks[r].regions)
    /\ ~ValidateAgainst(asks[r].contradictions, asks[r].mappings)
    /\ Move(r, "received", "failed")
    /\ Fault(r, "rules")
    /\ Unmoved

ComputeCore(r) ==
    /\ Is(r, "candidates")
    /\ ScopeIsReachable(asks[r])
    /\ ValidateAgainst(asks[r].contradictions, asks[r].mappings)
    /\ Move(r, "received", "computed")
    /\ run' = [run EXCEPT ![r] = Core(asks[r])]
    /\ UNCHANGED <<modelVars, environmentVars, recordVars, retrieved, open, explained, tags,
                   answer, delta, faults>>

RecordCore(r) ==
    /\ Move(r, "computed", "recorded")
    /\ ledger' = Append(ledger, [by |-> r, entries |-> CoreTrail(run[r])])
    /\ UNCHANGED <<modelVars, environmentVars, dataVars, prose, faults>>

\* The head of the ledger moved under the append: the request fails.
AppendRefused(r) ==
    /\ Move(r, "computed", "failed") \/ Move(r, "widened", "failed")
    /\ Fault(r, "ledger")
    /\ Unmoved

\* The response is put together and checked: one the schemas refuse is an error.
Respond(r, from, report) ==
    LET events == FoldLeft(LAMBDA n, b : n + IF b.by = r THEN Len(b.entries) ELSE 0, 0, ledger)
        response == CandidatesResponse(run[r], retrieved[r], report, events)
    IN  /\ Move(r, from, IF IsWellFormed(run[r], response) THEN "answered" ELSE "failed")
        /\ answer' = [answer EXCEPT ![r] = response]
        /\ UNCHANGED <<modelVars, environmentVars, recordVars, run, retrieved, open,
                       explained, tags, delta>>

-----------------------------------------------------------------------------
(***************************************************************************)
(* The retrieval                                                           *)
(***************************************************************************)
\* Without it there is no answer of the index to explain either.
SkipRetrieval(r) ==
    /\ Is(r, "candidates") /\ ~asks[r].retrieval
    /\ Respond(r, "recorded", NotRun("disabled")) /\ UNCHANGED faults

\* Faulty variant: only a disabled pass is degraded, a missing index is not.
IndexErrorPropagates(r) ==
    /\ Is(r, "candidates") /\ asks[r].retrieval
    /\ Move(r, "recorded", "failed")
    /\ Fault(r, "index")
    /\ Unmoved

\* The candidates of the catalog are offered all the same.
IndexUnavailable(r) ==
    /\ Is(r, "candidates") /\ asks[r].retrieval
    /\ Respond(r, "recorded", NotRun("unavailable"))
    /\ Fault(r, "index")

\* The index stands and the model that encodes the query does not load.  That
\* error is not of the kind the service catches.
EncoderBroken(r) ==
    /\ Is(r, "candidates") /\ asks[r].retrieval
    /\ Move(r, "recorded", "failed")
    /\ Fault(r, "encoder")
    /\ Unmoved

Retrieve(r) ==
    /\ Is(r, "candidates") /\ asks[r].retrieval
    /\ Move(r, "recorded", "widened")
    /\ retrieved' = [retrieved EXCEPT ![r] =
          [i \in DOMAIN run[r] |-> RetrieveZone(asks[r], run[r][i])]]
    /\ UNCHANGED <<modelVars, environmentVars, recordVars, run, open, explained, tags,
                   answer, delta, faults>>

RecordRetrieval(r) ==
    /\ Move(r, "widened", "explaining")
    /\ ledger' = Append(ledger, [by |-> r, entries |-> RetrievalTrail(retrieved[r])])
    /\ open' = [open EXCEPT ![r] = Ascending(asks[r].explain.capabilities)]
    /\ UNCHANGED <<modelVars, environmentVars, run, retrieved, explained, tags, answer,
                   delta, prose, faults>>

-----------------------------------------------------------------------------
(***************************************************************************)
(* The pinned model                                                        *)
(***************************************************************************)
\* The capability r has explained next, and what is offered for it.
Opened(r) == Head(open[r])
Found(r) == retrieved[r][asks[r].explain.zone][Opened(r)]
OptionsOf(r) == run[r][asks[r].explain.zone].resolved[Opened(r)]

\* A request is about to be verified for: a parse, or the next capability.
Asks(r) ==
    \/ Is(r, "parse") /\ stage[r] = "received" /\ ~asks[r].empty
    \/ /\ stage[r] = "explaining" /\ open[r] # << >> /\ EXPLAIN_ENABLED
       /\ OfferedControlIds(Found(r)) # << >>

VerifyFromCache(r) ==
    /\ Asks(r) /\ Cached
    /\ stage' = [stage EXCEPT ![r] = "asking"]
    /\ tags' = [tags EXCEPT ![r] = [digest |-> verified, at |-> verifiedAt]]
    /\ UNCHANGED <<modelVars, environmentVars, recordVars, run, retrieved, open, explained,
                   answer, delta, faults>>

AskTags(r) ==
    /\ Asks(r) /\ ~Cached
    /\ stage' = [stage EXCEPT ![r] = "verifying"]
    /\ tags' = [tags EXCEPT ![r] = Tags]
    /\ UNCHANGED <<modelVars, environmentVars, recordVars, run, retrieved, open, explained,
                   answer, delta, faults>>

\* Faulty variant: the digest is kept before it is compared.
KeptBeforeCompared(r) ==
    /\ tags[r].digest # NoWeights
    /\ Keep(tags[r])
    /\ Move(r, "verifying", IF Accepts(tags[r]) THEN "asking" ELSE "failed")
    /\ UNCHANGED <<environmentVars, recordVars, dataVars, faults>>

Verify(r) ==
    /\ Accepts(tags[r])
    /\ Keep(tags[r])
    /\ Move(r, "verifying", "asking")
    /\ UNCHANGED <<environmentVars, recordVars, dataVars, faults>>

\* The next capability is shown with the text of the engine.
ShowFlat(r, status) ==
    /\ explained' = [explained EXCEPT ![r] =
          Append(@, [capability |-> Opened(r), explanations |-> Flat(Found(r), status)])]
    /\ open' = [open EXCEPT ![r] = Tail(@)]

\* Ollama is not there, has not the tag, or serves other weights.  A parse fails,
\* an explanation is only missing.
VerifyFails(r) ==
    /\ stage[r] = "verifying"
    /\ IF Is(r, "parse")
       THEN stage' = [stage EXCEPT ![r] = "failed"] /\ UNCHANGED <<open, explained>>
       ELSE stage' = [stage EXCEPT ![r] = "explaining"] /\ ShowFlat(r, "unavailable")
    /\ UNCHANGED <<modelVars, environmentVars, recordVars, run, retrieved, tags, answer,
                   delta, faults>>

\* The body of the answer is not the JSON that is expected: an error that is not
\* of the kind the service catches.
TagsGarbled(r) ==
    /\ Move(r, "verifying", "failed")
    /\ Fault(r, "tags")
    /\ Unmoved

-----------------------------------------------------------------------------
(***************************************************************************)
(* The explanations                                                        *)
(***************************************************************************)
\* What was written, by which weights, under which digest.
Written(r) ==
    [by |-> r, digest |-> tags[r].digest, weights |-> weights, verified_at |-> tags[r].at,
     written_at |-> pulls]

\* No candidate, or no layer: nothing is asked.
ExplainWithoutModel(r) ==
    /\ stage[r] = "explaining" /\ open[r] # << >> /\ ~Asks(r)
    /\ ShowFlat(r, IF OfferedControlIds(Found(r)) = << >> THEN "unavailable" ELSE "disabled")
    /\ UNCHANGED <<modelVars, environmentVars, recordVars, stage, run, retrieved, tags,
                   answer, delta, faults>>

AgentAnswers(r) ==
    /\ Is(r, "candidates")
    /\ Move(r, "asking", "explaining")
    /\ \E drafts \in Drafts :
          explained' = [explained EXCEPT ![r] = Append(@,
              [capability |-> Opened(r),
               explanations |-> AssembleExplanations(OptionsOf(r), asks[r].mappings, Found(r),
                                                     drafts)])]
    /\ open' = [open EXCEPT ![r] = Tail(@)]
    /\ prose' = prose \cup {Written(r)}
    /\ UNCHANGED <<modelVars, environmentVars, ledger, run, retrieved, tags, answer, delta,
                   faults>>

\* A timeout, a provider error, or no valid answer after the retries.
AgentFails(r) ==
    /\ Is(r, "candidates")
    /\ Move(r, "asking", "explaining")
    /\ ShowFlat(r, "unavailable")
    /\ UNCHANGED <<modelVars, environmentVars, recordVars, run, retrieved, tags, answer,
                   delta, faults>>

AnswerCandidates(r) ==
    /\ open[r] = << >>
    /\ Respond(r, "explaining", RetrievalReport(retrieved[r])) /\ UNCHANGED faults

-----------------------------------------------------------------------------
(***************************************************************************)
(* Parse and delta: neither writes to the ledger.                          *)
(***************************************************************************)
RefuseEmptyDescription(r) ==
    /\ Is(r, "parse") /\ asks[r].empty
    /\ Move(r, "received", "refused")
    /\ Unmoved /\ UNCHANGED faults

AnswerParse(r) ==
    /\ Is(r, "parse")
    /\ Move(r, "asking", "answered")
    /\ prose' = prose \cup {Written(r)}
    /\ UNCHANGED <<modelVars, environmentVars, ledger, run, retrieved, open, explained,
                   tags, answer, delta, faults>>

\* The model did not answer, or its draft is not valid.
ParseFails(r) ==
    /\ Is(r, "parse")
    /\ Move(r, "asking", "failed")
    /\ Unmoved /\ UNCHANGED faults

DeltaQuery(ask) ==
    [regions |-> ask.regions, mode |-> ask.mode, regime |-> ask.regime,
     mappings |-> ask.mappings, contradictions |-> ask.contradictions,
     zone |-> ZoneContext(ask.zones[ask.zone], ask.profile)]

\* Repeated or too few regions, or a zone the profile does not declare.
RefuseDelta(r) ==
    /\ Is(r, "delta")
    /\ \/ ~AcceptedRegions(asks[r].regions)
       \/ /\ ValidateAgainst(asks[r].contradictions, asks[r].mappings)
          /\ asks[r].zone \notin DOMAIN asks[r].zones
    /\ Move(r, "received", "refused")
    /\ Unmoved /\ UNCHANGED faults

AnswerDelta(r) ==
    /\ Is(r, "delta")
    /\ AcceptedRegions(asks[r].regions) /\ asks[r].zone \in DOMAIN asks[r].zones
    /\ ValidateAgainst(asks[r].contradictions, asks[r].mappings)
    /\ Move(r, "received", "answered")
    /\ delta' = [delta EXCEPT ![r] = RegionalDelta(DeltaQuery(asks[r]))]
    /\ UNCHANGED <<modelVars, environmentVars, recordVars, run, retrieved, open, explained,
                   tags, answer, faults>>

-----------------------------------------------------------------------------
(***************************************************************************)
(* The environment                                                         *)
(***************************************************************************)
PullWeights ==
    /\ unsettled
    /\ \E w \in Weights : Pull(w)
    /\ UNCHANGED <<environmentVars, requestVars, recordVars>>

\* warm_model verifies as the process starts.
WarmUp ==
    /\ unsettled /\ ~Cached /\ Accepts(Tags)
    /\ Keep(Tags)
    /\ UNCHANGED <<environmentVars, requestVars, recordVars>>

\* The requests under way are lost with the process, what is appended stays.
Restart ==
    /\ unsettled /\ restarts < MaxRestarts
    /\ restarts' = restarts + 1
    /\ Forget
    /\ stage' = [r \in Request |-> IF stage[r] \in Ended THEN stage[r] ELSE "lost"]
    /\ UNCHANGED <<asks, unsettled, recordVars, dataVars, faults>>

AllEnded == \A r \in Request : stage[r] \in Ended
Rest == AllEnded /\ UNCHANGED vars

Step(r) ==
    \/ RefuseScope(r) \/ RulesRefused(r) \/ ComputeCore(r) \/ RecordCore(r) \/ AppendRefused(r)
    \/ SkipRetrieval(r) \/ IndexUnavailable(r) \/ EncoderBroken(r) \/ Retrieve(r)
    \/ RecordRetrieval(r)
    \/ VerifyFromCache(r) \/ AskTags(r) \/ Verify(r) \/ VerifyFails(r) \/ TagsGarbled(r)
    \/ ExplainWithoutModel(r) \/ AgentAnswers(r) \/ AgentFails(r) \/ AnswerCandidates(r)
    \/ RefuseEmptyDescription(r) \/ AnswerParse(r) \/ ParseFails(r)
    \/ RefuseDelta(r) \/ AnswerDelta(r)

Next == (\E r \in Request : Step(r)) \/ PullWeights \/ WarmUp \/ Restart \/ Rest

Spec == Init /\ [][Next]_vars

-----------------------------------------------------------------------------
(***************************************************************************)
(* Properties                                                              *)
(***************************************************************************)
\* Contradictions are settled one after another, and the trail says that the
\* outcome does not depend on how the rules were read.  It depends on it for one
\* kind of mechanism alone: one that a rule sets aside and another leaves to the
\* human.
RuleOrderMattersOnlyUnderSafety ==
    \A r \in Request : \A i \in DOMAIN run[r] : stage[r] = "computed" => \A k \in Capability :
        LET zone == run[r][i].zone
            built == BuildOptions(asks[r].mappings, k)
            declared == ContradictionsFor(asks[r].contradictions, k, built, zone)
            settled(p) == Settled(built, [n \in DOMAIN declared |-> declared[p[n]]], zone)
            setAside == UNION {Involved(rule, built) \ {Prevailing(rule, built, zone)} :
                rule \in {d \in ToSet(declared) : d.resolution = "framework_precedence"}}
            leftToTheHuman == UNION {Involved(rule, built) :
                rule \in {d \in ToSet(declared) : d.resolution = "safety_override"}}
        IN  \A p \in Injection(DOMAIN declared, DOMAIN declared) :
               \A c \in DOMAIN built \ (setAside \cap leftToTheHuman) :
                  settled(p)[c].status = run[r][i].resolved[k][c].status

\* k and all that it waits for: what it requires, and what that requires in its
\* turn unless it is mandatory.
WaitsFor(rules, items, k) ==
    LET behind[n \in 0..Cardinality(Capability)] ==
            IF n = 0 THEN {k}
            ELSE behind[n - 1] \cup
                 UNION {rules.requires[d] : d \in {e \in behind[n - 1] : items[e].tier = "tier_1"}}
    IN  behind[Cardinality(Capability)]

\* A discretionary capability is scheduled in the latest phase that anything it
\* waits for asks for, however long the chain and in whatever order the ids fall,
\* and no later; a mandatory one is not delayed by what it requires.
PhaseIsLatestWaitedFor ==
    \A r \in Request : \A i \in DOMAIN run[r] : stage[r] = "computed" =>
        LET items == run[r][i].items
            rules == asks[r].prioritization
        IN  \A k \in Capability :
               items[k].phase =
                  IF items[k].tier = "tier_0" THEN 0
                  ELSE Max({items[d].assessed.band_phase : d \in WaitsFor(rules, items, k)})

\* What a trail says of capability k in zone i with such events.
Told(trail, i, k, events) ==
    Only(trail, {e \in ToSet(trail) :
        e.zone = i /\ e.capability = k /\ e.event_type \in events})

\* Options once a conflict a trail tells of is settled, and once all of them are,
\* one after another.
SettleAsTold(o, e) ==
    IF e.event_type = "CONFLICT_ESCALATED"
    THEN WithStatus(o, e.payload.control_ids, "contested")
    ELSE WithStatus(o, e.payload.superseded, "superseded")

SettledAsTold(o, conflicts) ==
    LET settled[n \in 0..Len(conflicts)] ==
            IF n = 0 THEN o ELSE SettleAsTold(settled[n - 1], conflicts[n])
    IN  settled[Len(conflicts)]

\* Options once what a trail excludes is excluded.
LeftAsTold(o, exclusions) ==
    LET outcomes(c) == {e.payload.outcome : e \in {x \in ToSet(exclusions) : x.payload.control = c}}
    IN  [c \in DOMAIN o |-> [o[c] EXCEPT
            !.excluded = IF outcomes(c) = {} THEN None ELSE CHOOSE x \in outcomes(c) : TRUE]]

(***************************************************************************)
(* The ledger alone tells the run: from the candidates a capability was    *)
(* mapped with, the conflicts in the order they are recorded and the       *)
(* exclusions, a reader rebuilds where every mechanism was left, and the   *)
(* last gap declared is the one that stands - unless the capability was    *)
(* deferred, whose gap is declared before the deferral and never           *)
(* withdrawn.                                                              *)
(***************************************************************************)
LedgerRetellsTheRun ==
    \A r \in Request : \A i \in DOMAIN run[r] : stage[r] = "recorded" => \A k \in Capability :
        LET trail == Last(Only(ledger, {b \in ToSet(ledger) : b.by = r})).entries
            told(events) == Told(trail, i, k, events)
            mapped == told({"CAPABILITY_MAPPED"})[1].payload
            settled == SettledAsTold(WithStatus(mapped, DOMAIN mapped, "eligible"),
                                     told({"CONFLICT_RESOLVED", "CONFLICT_ESCALATED"}))
            left == LeftAsTold(settled, told({"MECHANISM_EXCLUDED"}))
            gaps == told({"GAP_DECLARED"})
        IN  /\ left = run[r][i].gated[k]
            /\ CapabilityStatus(left) # "deferred_to_organizational_layer" =>
                  IF Gap(left) = None THEN gaps = << >>
                  ELSE Last(gaps).payload.kind = Gap(left)
                       /\ Last(gaps).payload.coverage = Coverage(left)

\* Whatever the regions, the order, the mode and the regime: nothing that governs
\* the zone is missing from the union of the readings, a reading shows or sets
\* aside everything, and the additions account for the readings, each once.
ReadingsAddUp ==
    \A r \in Request, k \in Capability : delta[r] # Nothing =>
        LET query == DeltaQuery(asks[r])
            d == delta[r].capabilities[k]
            governing == {c \in DOMAIN BuildOptions(query.mappings, k) : ~SectorExcluded(query, c)}
            offered(i) == d.views[i].offered
            added == {a.control : a \in d.added}
        IN  /\ UNION {offered(i) : i \in DOMAIN d.views} = governing
            /\ \A i \in DOMAIN d.views : d.views[i].set_aside = governing \ offered(i)
            /\ Cardinality(added) = Cardinality(d.added)
            /\ IF query.mode = "cumulative"
               THEN /\ offered(Len(d.views)) = offered(1) \cup added
                    /\ offered(1) \cap added = {}
               ELSE governing = d.common \cup added /\ d.common \cap added = {}

\* A requirement that is only an overlay is reported as one that moves no
\* coverage.  From one cumulative reading to the next coverage rises only with a
\* mechanism or with a contradiction that names what is added, and it falls only
\* with such a contradiction.
CoverageMovesByMechanismOrContradiction ==
    \A r \in Request, k \in Capability : delta[r] # Nothing /\ asks[r].mode = "cumulative" =>
        LET query == DeltaQuery(asks[r])
            views == delta[r].capabilities[k].views
            brings(i) == {a \in delta[r].capabilities[k].added : a.added_by = query.regions[i]}
            contradicted(i) == \E rule \in ToSet(query.contradictions) :
                /\ AppliesTo(rule, k, query.zone)
                /\ Cardinality(rule.control_ids \cap views[i].offered) >= 2
                /\ \E a \in brings(i) : a.control \in rule.control_ids
        IN  \A i \in 2..Len(views) :
               /\ views[i].coverage > views[i - 1].coverage =>
                     contradicted(i) \/ \E a \in brings(i) : a.changes_coverage
               /\ views[i].coverage < views[i - 1].coverage => contradicted(i)

(***************************************************************************)
(* The lens and the cut bound what is suggested and hide nothing: every    *)
(* control among those the index was asked for is shown, counted below the *)
(* cut, or set aside on a named axis.  What the cut drops above something  *)
(* it keeps has a framework that had its share, and the cap never costs    *)
(* the floor.                                                              *)
(***************************************************************************)
NothingVanishes ==
    \A r \in Request : \A i \in DOMAIN run[r] : stage[r] = "widened" => \A k \in Capability :
        LET found == retrieved[r][i][k]
            limit == RETRIEVAL_DEPTH + Len(found.catalog_control_ids)
            asked == Take(asks[r].ranking[k], limit)
            kept == ToSet(found.cut.kept)
            dropped == ToSet(found.cut.rank \o found.cut.cap)
            rank(h) == CHOOSE j \in DOMAIN asks[r].ranking[k] : asks[r].ranking[k][j] = h
            ofFramework(f) == {h \in kept : Attributes[h.control].framework = f}
        IN  /\ ToSet(asked) \subseteq ToSet(found.retrieved) \cup dropped \cup ToSet(found.set_aside)
            /\ Cardinality(kept) >= Min({TOP_K, Cardinality(kept \cup dropped)})
            /\ \A d \in dropped, h \in kept : rank(d) < rank(h) =>
                  Cardinality(ofFramework(Attributes[d.control].framework)) >= FRAMEWORK_CAP

\* Whatever the model answered, and whatever broke: the explanations of a
\* capability are its candidates, all of them once, those of the catalog first and
\* in the order the engine shows them.
ExplainedAsOffered ==
    \A r \in Request : \A j \in DOMAIN explained[r] :
        LET i == asks[r].explain.zone
            k == explained[r][j].capability
            shown == explained[r][j].explanations
            catalog == Presented(run[r][i].resolved[k], run[r][i].zone)
            controls == [n \in DOMAIN shown |-> shown[n].control_id]
        IN  /\ IsPrefix(catalog, controls)
            /\ IsInjective(controls)
            /\ ToSet(controls) = DOMAIN run[r][i].resolved[k] \cup
                                 {h.control : h \in ToSet(retrieved[r][i][k].retrieved)}

\* A text is always said to be of the pinned weights.  It is of others only if
\* they were pulled after Ollama gave the digest this process still trusts.
ProseFromPinnedWeights ==
    \A p \in prose : /\ p.digest = Pinned
                     /\ p.weights # Pinned => p.written_at > p.verified_at

\* An optional pass costs the operator itself and nothing else: a run that is
\* recorded is answered with every candidate of the catalog first, in the order of
\* the engine, unless the ledger refuses what follows or an error comes up that
\* nothing catches - the model of the index that does not load, or an answer of
\* Ollama that cannot be read.
OptionalPassesCostNothing ==
    \A r \in Request : asks[r].kind = "candidates" =>
        LET batches == Cardinality({b \in DOMAIN ledger : ledger[b].by = r}) IN
        /\ stage[r] = "failed" /\ batches > 0 => faults[r] \cap {"ledger", "encoder", "tags"} # {}
        /\ stage[r] = "answered" =>
              /\ batches = IF answer[r].retrieval.status = "ok" THEN 2 ELSE 1
              /\ \A i \in DOMAIN run[r] : \A k \in Capability :
                    LET shown == answer[r].zones[i].capabilities[k].offered_control_ids
                    IN  /\ IsPrefix(Presented(run[r][i].resolved[k], run[r][i].zone), shown)
                        /\ IsInjective(shown)
              /\ answer[r].retrieval.status = "ok" =>
                    [j \in DOMAIN explained[r] |-> explained[r][j].capability]
                       = Ascending(asks[r].explain.capabilities)
=============================================================================
