# A verification of the harmonization engine

The repository is a decision tool. An operator describes an industrial asset, an engine maps its
zones to the controls of several frameworks, gates and prioritises them, a retrieval pass widens
the options, and the operator signs a baseline over them. Every decision, the engine's and the
operator's, is kept in a hash-chained, append-only ledger, and the declaration of applicability is
read back off that ledger.

This directory holds TLA+ models of the part of the system that decides, records and signs, the TLC
runs that check them on small instances, and theorems that TLAPS proves for every value of the
constants. `PROJECT.json` maps every definition to the source lines it models.

Contents: 1 Inventory · 2 Modules and code · 3 Runs · 4 Fairness · 5 Proofs · 6 Findings ·
7 What is abstracted and what is missing · 8 Plan


## 1. Inventory

### 1.1 Components

Paths are under `src/server/app/` unless they start with `client`.

| component | state it keeps | operations | what makes it correct |
|---|---|---|---|
| **audit ledger** `audit/repository.py`, `audit/models.py`, `core/database.py` | table `audit_events`: sequence, content, `prev_hash`, `event_hash`; UNIQUE on sequence and event_hash; triggers abort UPDATE and DELETE | `append_many`, `head`, `by_run`, `trail_for_baseline`, `composition_counts`, `signatures` | one chain, no fork, no hole; a batch whole or not at all; a stale appender refused and a fresh one never |
| **chain verification** `audit/chain.py`, `audit/service.py` | none | `event_digest`, `verify_chain` (whole ledger or the slice of a run) | what the program writes verifies; what someone does to the file behind it is detected, unless every digest from there to the end is taken again, and then against a hash or a copy kept outside the file |
| **candidates requests** `candidates/service.py`, `candidates/router.py` | rows of a run | `candidates_for`: core, append, retrieval, append, explain | the run is whole on the ledger before its id is known |
| **trail derivation** `audit/trail.py`, `retrieval/trail.py` | none | `trail_for_core_run`, `trail_for_retrieval` | every decision has an entry; every mandate left open is announced |
| **baseline composition** `baseline/service.py`, `baseline/trail.py`, `baseline/schemas.py` | rows of a baseline | `compose`: check run, versions, choices and mandates, build, append | a signature has a run of the same profile and versions; a mandate is in someone's name; signed once |
| **listing and trail reads** `baseline/router.py`, `baseline/listing.py` | none, two queries each | list of baselines, audit log, statement | answers put together from two reads are coherent |
| **statement** `baseline/statement.py` | none | dispositions, inclusion, outcome per capability | says what the operator decided and the baseline holds |
| **OSCAL export** `baseline/oscal.py` | none | zones as components, capabilities as requirements with a state | read by the states of OSCAL alone it says no more than the statement |
| **mapping, conflicts** `engine/mapping.py`, `engine/conflicts.py`, `engine/rules.py`, `engine/zones.py` | none | options of a capability, declared contradictions, overlaps, gap | the order of the rules decides a status only where a safety rule is involved; the trail retells the outcome |
| **gating** `engine/gating.py`, `engine/gating_rules.py`, `engine/applicability.py`, `engine/presuppositions.py` | none | exclusions, coverage, status and gap of a capability | a capability is never removed; an exclusion never silent |
| **prioritization** `engine/prioritization.py` | none | mandates, bands, phases, roadmap | outstanding mandates; nothing scheduled before what it needs |
| **retrieval** `retrieval/*.py` | a vector collection; in-process flags of what is ready | `populate`, `ensure`, `search`, cut | never restricts the options; survives an index that is missing or half built |
| **explanations** `explain/*.py` | none | drafts screened and put against the candidates | every candidate once, in the order offered; never touches options or ledger; fails open |
| **parsing** `parse/*.py` | the digest of the verified weights, per process | `verify_model`, draft of a profile out of prose, `missing_required`, `to_profile` | no text of weights other than the pinned ones; what is missing is named and never filled in |
| **regional delta** `delta/*.py` | none | readings of a zone per region, alone or accumulated | the readings add up; coverage moves for a reason |
| **catalog**, **assets**, **tagging** | versioned files, loaded once | load, tag offline | data, inputs of the above |
| **client composer** `client/src/features/composition/*` | draft, candidates, selections, accepted gaps, reasons, signed baseline; persisted in local storage | parse, correct the draft, ask for candidates, choose, sign, reset | what it sends is coherent; a composition ends once; nothing crosses into the next |
| **client pages** `client/src/features/baselines/*` | none | list, trail, print | presentation |

### 1.2 How they interact

    client ── POST /candidates ──> candidates service ── engine (worker thread, pure)
       │                                │  append core trail  ──────────┐
       │                                │  retrieval (vector index)     ├──> audit ledger
       │                                │  append retrieval trail ──────┤      (SQLite)
       ├── POST /baseline/compose ──> composition service               │
       │                                │  read by_run, check, re-run   │
       │                                │  the engine, append signature ┘
       └── GET list / audit-log / statement ──> two queries each, put together in the router

One process, one event loop. A request is a coroutine with a database session of its own
(`api/deps.py`), and every `await` lets the others run. There is no lock anywhere: what protects the
ledger are its two UNIQUE constraints and the transaction of each append. Everything a process
knows besides the ledger (catalog, rules, their versions) is loaded when it starts.

### 1.3 What is hard

* **Interleaving.** `append_many` reads the head in one await and commits in another; `compose`
  decides whether a run may be signed on events it read before the engine ran again in a thread.
* **Stale state.** The composition carries its own copy of the profile; the ledger only knows its id.
  The process may have been replaced by one with another catalog since the run.
* **Partial failure.** A run is recorded in two appends with a vector search between them.
* **Two derivations of one truth.** The signed baseline is computed from the choices, the statement
  from the entries the choices became, by different code.
* **Composite reads.** The list of baselines, the audit log and the statement are each two queries.
* **Legal steps that add up to an illegal state.** Rejections, declarations and accepted gaps about
  one mandate are checked pair by pair, and not every pair is.
* **Crash and lost answers.** The process may die between the commit and the answer.
* **Shared rebuilds.** The start-up task and the requests' threads delete and make again one vector
  collection, each trusting a flag that nothing takes back.
* **Optional passes.** The index, the encoder and the model server may each be missing, slow, wrong or
  garbled; a run that is already recorded must be answered all the same.
* **Pinned weights.** The digest is compared once per process, and the weights can be pulled at any time.
* **Rules read one after another.** Contradictions supersede options in the order of the file, phases are
  propagated in the order of a walk, the trail retells both in the order they were met.
* **Index or name.** A zone of a draft is found by its id in the corrections, the gaps and the engine, and by
  its index in the forms; adding, removing and renaming zones is where the two part.
* **Two languages.** What a draft still misses and the profile it becomes are computed in the server and,
  again, in the client while the operator types.
* **Late answers.** The client keeps what the operator did in a store that outlives the page, and
  an answer that arrives after a new composition was begun is still written into it.

The hazards, each at its line, are in `PROJECT.json`; those no property covers yet say so.


## 2. Modules and code

    EventLog  <--implements--  AuditLedger  <--INSTANCE--  CompositionFlow  <--EXTENDS--  BaselineReads
                                    ^   ^
                                    |   +--EXTENDS--  ChainVerification, ChainVerification_proofs
                             AuditLedger_proofs

    Gating  <--EXTENDS--  Composition  <--EXTENDS--  Statement  <--EXTENDS--  Oscal
      ^
      +--EXTENDS--  Applicability  <-----  Conflicts  <-----  Roadmap  <-----  Retrieval  <-----  CoreTrail
                                              ^                                                      |
                                            Delta                                    Answer  ----->  Explain
                                              ^                                        ^
                                              +-----  Candidates  ----->  PinnedModel  |
                                                          +----------------------------+

    CatalogIndex        ClientSession        ProfileDraft

The theorems about `X` are in `X_proofs`, which EXTENDS it: `AuditLedger_proofs`, `ChainVerification_proofs`,
`CompositionFlow_proofs` (of CompositionFlow and BaselineReads; it instantiates the first),
`Statement_proofs` (of Statement and Oscal), `Candidates_proofs`, `CatalogIndex_proofs`,
`ClientSession_proofs`, `ProfileDraft_proofs`.

**EventLog** is the abstract specification of the ledger: a list that grows by whole batches.

**AuditLedger** is the table and `append_many`. `rows` is a *set*, so nothing in the model keeps two
appenders apart but `Unique`, the constraints of `audit/models.py`. `head[a]` and `batch[a]` are the
local variables of the appender `a` between its two awaits. `ReadHead` is the first await; `Commit`
and `Refuse` the two outcomes of the second (rows stored, `IntegrityError`); `Abort` every other way
a transaction ends without committing; `Restart` a process that dies with its transactions open. A
digest *is* the content it is taken over, which is SHA-256 without collisions. There is no action for
UPDATE or DELETE: the triggers abort them.

**CompositionFlow** puts two kinds of request on one ledger, `INSTANCE AuditLedger` with the requests
as appenders. `pc[n]` is the await request `n` is at:

| `pc` | code |
|---|---|
| `core` | appending the core trail, `candidates_for` |
| `retrieve` | in the retrieval pass, `_retrieve` |
| `widen` | appending what it added |
| `sign` | in `compose`, after its checks: engine re-run, `append_many` |
| `answer` | building the response; of a run, explaining its candidates first, `_explain`, which may still fail it (`ExplainFails`) |
| `ok`, `refused`, `failed`, `lost` | answered, turned away (409/422), 500, gone with its process |

The checks of `compose` are the operators `CheckRun`, `CheckVersions` and `CheckMandates`, evaluated
in one step on the rows `by_run` returned: there is no await between that read and the last check
that depends on it except the engine's own thread, which reads nothing that changes. An asset profile
is a value with an id, `Id[p]`; two profiles with one id are two edits of one asset. `deployed` is
the catalog and rules of the process, which a `Restart` may change. `request[n].saw` is a history
variable: how many rows a composition had read when it was checked.

**BaselineReads** adds one client that reads: `ListBaselines` and `ServeTrail` are two steps each, one
per query, with every other request running in between.

**Gating** is what a set of exclusions leaves of one capability: `Available`, `Retained`, `Coverage`,
`CapabilityStatus`, `Gap`, `IsOutstanding`. An *option* is a function from the controls offered for a
capability to records (type, weight, status, exclusion); every stage of the engine maps options to options.

**Applicability** is why a control is excluded in a zone: `ControlApplies` (sectors), `UnmetPremises`
(presuppositions against the nature of the zone), the declared `GatingRule`s, and `Decision`, which of
several that apply is the outcome. `Attributes` is what the catalog declares of each control.

**Conflicts** is `engine/mapping.py` and `engine/conflicts.py`: `BuildOptions`, the declared contradictions
folded one after another (`ResolveContradiction`: `ApplyFrameworkPrecedence`, `ApplySafetyOverride`), the
overlaps and differences of granularity detected afterwards, and the gap. `ValidateAgainst` is why a
run may refuse its own rules. Sorting and selecting are spelled out there (`InOrder`, `Ascending`, `Only`),
and the fold over the contradictions is a recursive function (`Settled`), because the prover has no
definition of the library's.

**Roadmap** is `engine/prioritization.py`: `Mandates`, the bands, `Assess`, and `ScheduledPhases`, which
folds the phases along `TopologicalOrder`, the depth-first order of the code; `Core` puts one run of the
engine together.

**Retrieval** is the lens (`ZoneLens`, `Matches`), the cut (`ApplyCut`, with the ties of `BandWidth`, the cap
per framework and the floor it yields to) and what of a ranking widens a capability. The ranking of the
vector index is an input.

**CoreTrail** is what of all this reaches the ledger, entry by entry. **Explain** puts a model's drafts
against the candidates. **Answer** is the response and the checks its schemas make. **Delta** reads a zone
once per region with the operators of Conflicts. None of these has state: they are pure operators.

**PinnedModel** is the state of `parse/ollama.py`: the digest a process keeps, and the weights the model
server has, which a `Pull` replaces at any time. **Candidates** has the requests that use all of the above:

| `stage` | code |
|---|---|
| `received` | before the first pass; `RefuseScope`, `RulesRefused`, `ComputeCore` |
| `computed` | `record_core_run`; `RecordCore`, `AppendRefused` |
| `recorded` | `_retrieve`; `SkipRetrieval`, `IndexUnavailable`, `EncoderBroken`, `Retrieve` |
| `widened` | `record_retrieval` |
| `explaining` | `explain_zone`, one capability after another |
| `verifying` | `verify_model` awaiting the tags; `Verify`, `VerifyFails`, `TagsGarbled` |
| `asking` | the agent; `AgentAnswers`, `AgentFails`, `AnswerParse`, `ParseFails` |

`faults[r]` (what broke under a request), `prose` (every text, with the weights that wrote it) and `pulls`
are history variables. A behaviour starts from a *load*, what its requests ask together. CompositionFlow
follows candidates requests too, as the ledger sees them: there their interleaving with compositions
matters and the data does not; here it is the other way round.

**Composition** is one composition from the operator's choices to the ledger. `Decide` adds a decision
to the request, `Compose` checks and signs it. `Admissible` is `_check_choices` and `_check_mandates`,
`InBaseline` what `_capability` computes for the signed baseline, `TrailForComposition` what
`baseline/trail.py` records.

**Statement** reads the trail back as `baseline/statement.py` does. Its properties compare that
reading with the choices and with the signed baseline.

**Oscal** is `baseline/oscal.py` over that reading: `ByComponent`, `ImplementedRequirement` and `Component`
with the states OSCAL has. `Layouts` says which zone and capability the keys stand for.

**ChainVerification** adds to the ledger what `verify_chain` is for: someone at the file, while the program
goes on appending onto what is there. A digest has no key, so whoever rewrites a row may take its digest
again. A row is edited in any one field, in its place or put in next to it, with the hash it had or another
one that is known (`Alter`) or with its digest taken again (`Reseal`), or it is lost (`Lose`). What a digest
taken again cannot reach is what is no longer in the file: `Keep` is somebody who keeps the ledger as it is
(`walked`), an export, a copy or only the hash of its end. `recorded` and `resealed`, the rows as they were
committed and those whose digest was taken again, are history variables. `LedgerBreaks` and `SliceBreaks` are
the two modes of `verify_chain`.

**CatalogIndex** is `retrieval/index.py`. A process has two `CatalogIndex` objects: the start-up task's
and the candidates service's, which all worker threads share; `ready[i]` is their flag, `exists` and
`points` the collection in the store. The steps of a thread are the calls it makes to the store and the
model (`Ensure`, `Count`, `EncodePassages`, `DeleteCollection`, `CreateCollection`,
`CreatePayloadIndexes`, `Upsert`, `EncodeQuery`, `Query`); any may fail (`CallFails`), and a thread may
lose its process (`Restart`). `overlapped` and `cutShort` are history variables.

**ClientSession** is the client's half of a composition. The store (`draft`, `selections`, `reasons`,
`gaps`, `signedBaselineId`) is that of `session.ts`; the screen (`working`, `candidates`, `baseline`) that
of the mounted `CompositionProvider`, of which there is a new one after every reload and every new
composition. A request in `net` is answered to the provider that made it, whether or not that is still
mounted: `Answer` writes the store always and the screen only if it is. `TimeOut` is an answer that is
lost or too late, and the server may still handle such a signature. The server is what it answers:
`Admitted` are the checks of its schema and of `compose`, among them that there is a decision at all and none
twice, made and committed in one step; how two of them overlap is
`CompositionFlow`'s matter. `composition`, `writers`, `discarded` and `unanswered` are history variables.
A row is a zone in the list of zones and a capability of it; the store is kept by *key*, the zone's id and the
capability, which two rows share when two zones have one id.

**ProfileDraft** is the form of the asset before anything is asked of the engine: the draft a parse answered
or an empty one, every edit the form offers (`EditZones`, `EditAsset`, `EditConduits`), and the corrections
`session.ts` keeps of them, a function from paths to what a value was and became. `MissingRequired` and
`ToProfile` are `parse/completion.py`, `MissingAtClient` and `ToProfileAtClient` their transcription in
`lib/draft.ts`; `Valid` is what the schema of the profile refuses of the result. A path names a zone by its id,
an action takes its index. `moved`, whether a zone was removed or renamed since the draft was begun, is a
history variable.

The operators whose comment begins with *Faulty variant* are not part of any specification. Each is a
definition changed the way a slip in that code would change it, kept to show that the property it is
paired with in `PROJECT.json` does depend on the code: with the variant in place TLC finds the property
violated.


## 3. Runs

| run | module / cfg | distinct states | what it shows |
|---|---|---|---|
| `ledger` | `MCAuditLedger` | 4,479 | three appenders, batches of one and two entries, up to five rows, with failures and restarts: `ChainIntact`, `RefusedIffStale`, and the refinement `ImplementsLog` |
| `flow` | `MCCompositionFlow` | 213,286 | three requests of which up to two make runs, over one asset in two edits and another asset, and two versions of the catalog: what a signature guarantees about its run (`SignedOverItsRun`, `RunsMandatesClosed`, `SignedAgainOnlyByOverlap`), about the engine's events (`EngineBeforeHuman`), and an answer about the ledger (`AnswersMatchLedger`) |
| `reads` | `MCBaselineReads` | 5,644 | a run, two compositions and a reader: `ListedWhole`, `ServedWhole`, `ServedIsVerified`; and, with fairness, `EveryRequestEnds` |
| `statement` | `MCStatement` | 1,077,045 | every composition of up to three decisions over every reading of two capabilities: what the statement says against what was decided, and what its OSCAL export says against the statement |
| `candidates` | `MCCandidates` | 146,472 | candidates, delta and parse requests over five families of small catalogs, rules, profiles and rankings, with everything optional failing: what the engine computes and the ledger retells, what the delta, the retrieval and the explanations add, and at whose cost |
| `verification` | `MCChainVerification` | 280,039 | two runs append interleaved entries while rows of the file are rewritten, put in or lost, with or without their digests taken again: `IntactVerifies`, `SliceIsVouchedFor`, `WalksAgree` |
| `index` | `MCCatalogIndex` | 41,741 | the start-up task and two requests over one collection, with failing calls and a replaced process: when an index may wrongly believe it is ready (`NotWholeOnlyByOverlap`), how long (`WholeOnceSettled`); with fairness, `EveryRetrievalEnds` |
| `client` | `MCClientSession` | 302,224 | an operator drafts, decides, signs, reloads and begins anew while answers are late or lost: `SentIsCoherent`, `RefusedOnlyForKnownReasons`, `SignedAgainOnlyIfUnanswered`, `NothingCrossesButLateAnswers`; with fairness, `WorkingEnds` |
| `draft` | `MCProfileDraft` | 423,949 | up to six edits of one of three proposals or an empty draft: `WrittenTwiceAgrees`, `CorrectionsAreTheDifference` |
| `run_signed_twice` | `MCRunSignedTwice.cfg` | violated | `RunSignedOnce` |
| `restricted_in_silence` | `MCRestrictedInSilence.cfg` | violated | `NothingRestrictedInSilence` |
| `rejected_in_force` | `MCRejectedInForce.cfg` | violated | `RejectedIsNotInForce` |

The last three each check one sentence of the documentation that the program does not keep; see 6.

The properties, in words:

* `ChainIntact`: no two rows share a position or a hash, no position is empty, every row carries its
  own digest and the hash of the row before it.
* `RefusedIffStale`: an append collides exactly when the head it read is no longer the head.
* `ImplementsLog`: the table in order only grows, by whole batches.
* `SignedOverItsRun`: a signature follows, on the ledger, the start of a run with its profile id and
  its versions.
* `RunsMandatesClosed`: if the profile signed is the profile of the run, every mandate the run
  recorded as outstanding has a closing decision in that baseline, though the engine was run again
  and the process may have been replaced.
* `EngineBeforeHuman`: no engine event of a run follows a human one.
* `SignedAgainOnlyByOverlap`: a second signature over a run belongs to a composition that was checked
  before the first was committed. It bounds the defect that `run_signed_twice` shows.
* `AnswersMatchLedger`: a composition answered with success is on the ledger, one answered with an
  error left nothing, one that got no answer is there whole or not at all. A run that is offered is on the
  ledger; one that failed after its core was committed, in its retrieval, its second append or its
  explanations, or was lost, leaves the engine's entries alone, and no composition is ever signed over it.
* `ListedWhole`, `ServedWhole`, `ServedIsVerified`: the three composite reads.
* `EveryRequestEnds`: every request is answered, or lost with its process.
* `MandateInSomeonesName`: in a signed baseline every mandate has an entry by which a person adopts,
  compensates, accepts or ratifies.
* `StatementAgrees`: what the statement includes is what the baseline put in force, unless one control
  was both declared as compensatory and rejected.
* `OpenGapOnlyByLaterRejection`: that exception is the only way a mandate reads as an open gap.
* `CompensatedByDeclaration`: no mandate reads as compensated that nobody compensated.
* `NothingExcludedSilently`: what gating excluded is in force only on the operator's word, and flagged.
* `StatesDoNotMislead`: the OSCAL plan read by its states alone says no more than was signed: what is
  implemented names what is in force, what is partial, planned or not applicable has nothing in force, and
  a zone is operational unless a mandate of it is partial and nobody accepted the gap. What is `alternative`
  names a control declared to compensate, but for one reading that says more than was signed and is the
  property's exception (`OnlyRejected`): of a capability gating left nothing of, the operator only rejected. In
  Tier 0 that takes a declaration of every control rejected later; in Tier 1 the rejection of any candidate
  is enough.
* `RuleOrderMattersOnlyUnderSafety`: the order in which contradictions are listed changes the status of a
  mechanism only if one rule sets it aside and a safety rule leaves it to the human.
* `PhaseIsLatestWaitedFor`: a discretionary capability is scheduled in the latest phase asked for by
  anything it waits for, through any chain and in any order of the ids, and no later.
* `LedgerRetellsTheRun`: from the entries of a capability alone a reader rebuilds where every mechanism
  was left, and the last gap declared is the one that stands, unless the capability was deferred.
* `ReadingsAddUp`: in a delta nothing that governs the zone is missing from the union of the readings,
  each reading shows or sets aside all of it, and the additions account for the differences once each.
* `CoverageMovesByMechanismOrContradiction`: between cumulative readings coverage rises only with a
  mechanism or a contradiction that names what was added, and falls only with such a contradiction.
* `NothingVanishes`: every control among those the index was asked for is shown, counted below the cut,
  or set aside on a named axis; what the cut drops above something it keeps has a framework that had its
  share; and the cap never costs the floor.
* `ExplainedAsOffered`: whatever the model answers, the explanations of a capability are its candidates,
  each once, in the order offered.
* `ProseFromPinnedWeights`: every text is attributed to the pinned weights, and is of others only if they
  were pulled after the model server gave the digest this process still trusts.
* `OptionalPassesCostNothing`: a run that is recorded is answered whatever happens to the optional passes,
  with the candidates of the catalog first, but for a ledger that refuses, an encoder that does not load
  and a model server that answers garbage.
* `IntactVerifies`: what only the program wrote verifies, whole and in the slice of every run.
* `SliceIsVouchedFor`: a row of a slice that verifies is as it was recorded, or its digest was taken again.
  And whatever digests were taken again: where the slice holds the hash of an event that was passed in the
  ledger somebody kept, it is, from there back to the next hole the other runs leave in it, as it was kept.
* `WalksAgree`: two walks of the whole ledger, of what is in the file and of what somebody kept, that both pass
  a hash before their first break passed the same ledger up to it. That is what the chain is worth: after the
  last hash somebody kept the ledger may have been written anew without a break, and before it nothing may.
* `NotWholeOnlyByOverlap`: an index that believes it is ready over a collection that is not whole owes
  it to two threads that prepared it at once, never to a failed call or an earlier process.
* `WholeOnceSettled`: and then only while a rebuild is under way or after one was cut short.
* `EveryRetrievalEnds`: rebuilds that delete each other's collection do not keep each other from ending.
* `SentIsCoherent`: no signature the client sends holds two decisions the server takes for opposite,
  whatever draft and options each was taken on.
* `RefusedOnlyForKnownReasons`: the server refuses what the client lets the operator sign for four reasons
  only: the draft changed after its options were calculated; the run is signed already; nothing had to be
  decided and no decision is sent; or two zones have one id and a decision about them is sent twice. The
  client's list of what blocks a signature and the server's checks are written twice, in two languages.
* `SignedAgainOnlyIfUnanswered`: one composition becomes two baselines only if the answer to a signature
  over it was lost.
* `NothingCrossesButLateAnswers`: what is on the screen belongs to the composition at hand, and so does
  what is in the store, unless the one before was left with a request unanswered.
* `WorkingEnds`: whatever the screen says it is working on comes to an end.
* `WrittenTwiceAgrees`: after any edits the client's list of what is missing is the server's, but for the
  sectors of the asset (`SameList`); and what the client promotes is a profile the server accepts, with every
  level the draft states, and the same profile wherever the server promotes the draft too (`SameProfile`).
* `CorrectionsAreTheDifference`: while no zone was removed or renamed and no two share an id, the corrections
  are exactly where the draft differs from what the model proposed, with both values.

### Bounds

* `MaxEvents = 5` rows and three appenders. Two appenders can collide in every order, a third can
  commit while both hold a stale head, and a batch of two lets a stale batch collide on its second row
  as well as on its first. Longer ledgers and more appenders are covered by the proofs.
* `MaxRequests = 3`, `MaxRuns = 2`. Two compositions over one run is the smallest case of a repeated
  signature, two runs and one composition the smallest in which the wrong run could be picked. No
  check of `compose` relates more than one run and the signatures over it.
* Three profiles: a profile, an edit of it under the same id, and an unrelated one. Two versions that
  disagree on what is outstanding for each of them.
* `MaxChoices = 3` over two capabilities and two controls. The rules about choices (`Coherent`,
  `MandateClosed`, the last entry wins) each compare two decisions about one capability; a third one
  closes an outstanding mandate elsewhere, without which the signature would not be admitted.
  The seven forms of a mapped control reach every status and every gap of `Gating`.
* `Full = 2`: coverage weights are 0, 1 and 2, for none, partial and complete.
* `verification`: one appender, `MaxEvents = 3` rows of two runs and `MaxDamage = 2` acts. Three rows are a
  slice with a row of another run in its middle, the case in which neighbours are not linked; two acts are a
  row rewritten or lost and what would hide it: its digest taken again, the link of the row after it
  rewritten, or another row put in its place. Appenders that interleave are the matter of `ledger`, and the
  theorems are about any number of them.
* `candidates`: a load is one request, large where one part is hard and small elsewhere. *Rules*: every
  mapping of three controls (six kinds each), five lists of contradictions, four of gating rules, an IT
  and an OT zone: two rules that share a control, one of each resolution, are what order can matter to.
  *Phases*: every acyclic relation on three capabilities, three costs and three kinds of coverage each: a
  chain of three is the shortest in which the order of a walk shows. *Deltas*: two or three regions in
  three orders, both modes and regimes, five controls of five jurisdictions and types. *Cuts*: every
  ranking of five controls with four patterns of ties, three lenses, a cap of one per framework, a
  floor of two and a depth of three, so that ties straddle the last place. *Explanations*: two capabilities
  explained beside a parse, with `MaxPulls = 2` (away from the pinned weights and back) and
  `MaxRestarts = 1`. `Fits` keeps the rules that name no mapped control out of all loads but one per
  family, where the engine refuses to run. Only the explanations interleave two requests: the others
  share nothing but the ledger, which is CompositionFlow's matter.
* `index`: two controls make a collection that holds some of its points; two requests and the start-up
  task make two threads of one index and two indexes; two searches let a rebuild fall between them;
  `MaxRestarts = 1` leaves one process a half-made collection of another.
* `client`: one capability with two controls; three states of the draft (`mandate`, a zone with a mandate
  left open over a contradiction; `twins`, two zones of one id in which nothing needs deciding, so two rows of
  one key; `blank`, incomplete) and any of them, or none, left by an earlier visit. `MaxRuns = 2` and `MaxSignatures = 2` are what a second baseline takes,
  `MaxProviders = 2` a late answer, `MaxChanges = 1` a draft that moved. Decisions about two capabilities
  never meet in any check, so one is enough.

* `draft`: `MaxEdits = 6`, one flag of nature, two requirements and two levels: beginning a draft and cycling one
  level of a vector back to nothing takes four, which leaves two for what a correction may be confused with.
  A zone may be renamed to nothing or to the id of another. The three proposals are one with two whole zones
  of different nature, one with a vector of nulls, and one with half of everything.

Deadlock is not checked: when the bounded number of requests has been served, when the ledger has its
bounded length, when a composition is signed, or when the operator does nothing more (or no more than `MaxEdits`), the system may
stop.


## 4. Fairness

`Fairness` is weak fairness of `Serve(n)` for every request: the event loop resumes a coroutine whose
await has returned, and SQLite answers, be it with an error. The appends of a request are enabled from
the moment they are reached until they happen (committing and being refused exclude one another, and
the head it holds is never put back), so weak fairness is enough. Nothing obliges a client to
ask, the process to die (`Restart`), or the database to fail (`Abort`). Only `EveryRequestEnds` needs
it.

In `CatalogIndex` it is weak fairness of `Step(t)` for every thread: a call to the vector store or the
model returns or fails by its time-out. A request need not arrive, and no call has to succeed. In
`ClientSession` it is weak fairness of getting an answer or a time-out, for each kind of request:
`api/client.ts` gives each a time-out. The server need not handle anything, and the operator need not
do anything.


## 5. Proofs

`AuditLedger_proofs` proves, for any set of appenders and entries, any set of non-empty batches and any
bound:

| theorem | statement |
|---|---|
| `TypeCorrect` | `Spec => []TypeOK` |
| `ChainAlwaysIntact` | `Spec => []ChainIntact` |
| `OnlyStaleRefused` | `Spec => []RefusedIffStale` |
| `LedgerImplementsLog` | `Spec => ImplementsLog`, that is, `Spec => Log!Spec` under the mapping that reads the table in order |

The assumptions are `BatchAssumption` (a batch is a non-empty sequence of entries: `append_many`
returns before its first await on an empty one) and `MaxEventsAssumption` (the bound is a natural). That
digests do not collide is built into `Hash`, and used as the lemma `DigestInjective`.

*The argument.* `ChainIntact` is not inductive. Whether a batch may be stored depends on the head its
appender holds, and `ChainIntact` says nothing about heads: an appender that held an invented
position beyond the end would pass `Unique` and leave a hole. The strengthening is
`LedgerInv == TypeOK /\ ChainIntact /\ HeadWasRead`, where `HeadWasRead` says a head that is held is
the empty ledger or a row that exists, which stays true because rows are never changed. From it:

1. The rows of a batch stand at the positions after its head, without gaps (`ChainedRows`), and carry
   the hashes of `ChainHashes`.
2. If the head held is not the last row, position head + 1 is taken, because positions have no hole:
   the constraint on `sequence` refuses. If it is, every position of the batch is free, and every hash
   is new because a hash determines its position (`HashDecidesPosition`): the constraints let it
   through. That is `FreshIffUnique`, which gives `RefusedIffStale`.
3. So a batch that is stored continues the chain at its end, and `LedgerStep` follows by cases on `Next`.
4. Under the mapping, a `Commit` is a `Record` of the abstract log (`CommitRecords`) and every other
   step leaves the table, and so the log, as it is (`SameRowsSameLog`).

`ChainVerification_proofs` proves, for any runs, entries, batches and amount of damage:

| theorem | statement |
|---|---|
| `IntactAlwaysVerifies` | `ChainSpec => []IntactVerifies` |
| `VerifiedSliceIsVouchedFor` | `ChainSpec => []SliceIsVouchedFor` |
| `WalksAlwaysAgree` | `ChainSpec => []WalksAgree` |

*The argument.* Until the first damage the invariant of the ledger, `LedgerInv`, holds, and with it the
links that both modes look at. After it nothing can be said of the rows as a whole but what `ChainInv` keeps:
the file has its UNIQUE indices and so had what was kept of it (`Indexed`), every stored hash was taken by the
program or by whoever rewrote a row (`HashesWereTaken`), and each was taken over the row it was stored with
(`OwnDigestsTaken`). A digest determines what it is taken over, the hash of the row before included, so two rows
that carry their own digests and the same hash are the same row (`SameHashSameRow`). `WalksAgree` follows down
the chain: two ledgers that agree on the hash of one event both walks pass hold that very event, and since
each walk checked the link, they agree on the hash of the event before it. So of the events in which they
differ there is no last (`VouchedFor`, by well-foundedness), and the first event of both is the same because
no other can be linked to the genesis hash (`OwnDigestIsNotGenesis`). In a slice the same holds as far as
positions are adjacent.

`CatalogIndex_proofs` proves, for any number of requests, controls, searches and restarts:

| theorem | statement |
|---|---|
| `IndexTypeCorrect` | `Spec => []TypeOK` |
| `ReadyUnlessOverlap` | `Spec => []NotWholeOnlyByOverlap` |
| `WholeAfterRebuilds` | `Spec => []WholeOnceSettled` |

*The argument.* `NotWholeOnlyByOverlap` is not inductive: a state in which one thread is about to delete
the collection under an index that is ready satisfies it until the thread does. The strengthening
`IndexInv` adds `Alone` (without an overlap at most one thread prepares, and an index that is ready has a
whole collection that nobody is about to make again), `SearchLeft` (a thread that is still at work has a
search left to make) and `WholeOnceSettled` itself.

`Candidates_proofs` proves, for any requests, loads, drafts, weights and number of pulls and restarts:

| theorem | statement |
|---|---|
| `ProseIsFromPinnedWeights` | `Spec => []ProseFromPinnedWeights` |
| `DataIsDerived` | `Spec => []DataInv` |
| `OrderMattersOnlyUnderSafety` | `Spec => []RuleOrderMattersOnlyUnderSafety` |
| `ReadingsOfADeltaAddUp` | `Spec => []ReadingsAddUp` |
| `CoverageOfADeltaMoves` | `Spec => []CoverageMovesByMechanismOrContradiction` |
| `ExplanationsAreOfWhatIsOffered` | `Spec => []ExplainedAsOffered` |
| `OptionalPassesAreOptional` | `Spec => []OptionalPassesCostNothing` |
| `NothingIsLostByTheRetrieval` | `Spec => []NothingVanishes` |
| `ScheduledAsWaitedFor` | `Spec => []PhaseIsLatestWaitedFor` |
| `LedgerTellsTheRun` | `Spec => []LedgerRetellsTheRun` |

*The argument of `ProseIsFromPinnedWeights`.* The property is about texts already written and says nothing of a digest on its way to be
compared. `PinnedInv` adds that a digest the model server gave at a count of pulls is that of the weights
as long as the count stands (`SaysWhatStands`), in the three places it can be: in the answer a request is
comparing (`ComparedIsWhatWasSaid`), in the cache of the process (`CacheIsPinned`) and in the hands of the
request that has the model write (`AskedIsPinned`). Only the pinned one gets past the comparison, and a pull
moves the count. Every other action is a `QuietStep` or a `QuietMove`.

*The argument of the others.* They compare what the passes computed at different awaits, so the invariant
they need, `DataInv`, says at which stage a request holds what, and what it is of what it asked for: its
readings are those of the core, its candidates those of the retrieval or the bare catalog, the explanations
together with the capabilities still open are what was to be explained, in order, its batches and faults fit
its stage, and its delta is that of its question. Every step is one request's, and the rest keep what they
have (`OneRequestMoved`). What remains is about one value of the operators:

* *Orders and selections.* `InOrder` lists a finite set in a strict total order, each element once
  (`AscendingLists`, `PresentedLists`), and `Only` keeps what it selects, in order and once (`OnlyKeeps`,
  `OnlySet`, `OnlyOneEach`): counting the smaller elements is a bijection, by induction on a set of naturals
  (`Upward`).
* *Contradictions.* A rule never makes an option eligible again, so by induction along the rules (`Settled`)
  a mechanism ends superseded or contested only if some rule did it, and eligible only if none did; with one
  kind of rule alone the order does not matter (`Reordered`), for the prevailing mechanism of a rule depends
  on what it involves and not on the status of the others.
* *Readings.* What a reading offers is what its regions offer (`ReadingOffers`). Every control that governs
  is offered by every reading or from its own region on (`HomeRegion`), so the readings of a cumulative delta
  grow (`Accumulates`), what they add is apart (`OnlyOnce`), and it adds up. Where nothing new is in a
  contradiction the earlier mechanisms settle as before (`ReadTogether`), and coverage is a maximum
  (`CoverageMoves`).
* *Retrieval.* The index names a control once, so a search, a lens and a cut do (`TakeKeeps`, `SearchAre`,
  `SinkAre`), and what is found is put after the catalog without repeating it (`RetrievedIsFound`).
* *The cut.* What fills a band is followed hit by hit (`FilledStepwise`): kept, left for their framework and
  left for the width part what was read; the width is reached only when something is left for it, and the
  framework of what is left otherwise has had its share. Selections keep the order of what they select from
  (`OnlyInPlace`, `TakeInPlace`), so what is dropped above something kept was dropped for its framework, and
  what the cap displaced comes back up to the floor. What a lens stops among the candidates of the wide
  search is set aside on some axis (`MatchedOrSetAside`), and the rest is found (`SearchFinds`), so everything
  asked for is accounted for (`RetrievedIsAccounted`).
* *The phases.* Dependencies have no cycle, so what holds of a capability when it holds of all it requires
  holds of every one (`ByPrerequisites`). That gives the depth-first search a meaning, since its visits can be
  defined one capability at a time until none is missing (`VisitsGrow`, `AllVisits`), and it gives its order:
  all the capabilities, each after what it requires (`Enabling`, `PrerequisitesFirst`). Along such an order the
  phases of those done agree with their prerequisites and the rest are as asked for (`Scheduling`), and a
  capability met twice is left where it was (`RescheduledInPhase`). What a capability waits for is complete
  after as many steps as there are capabilities, by their number (`WaitsForAll`); nothing of it is scheduled
  later, and the phase of the capability is the band of one of them (`WaitedForIsItsPhase`).

*The argument of `LedgerTellsTheRun`.* The property is about a batch recorded earlier and the run a request
still holds, so it needs that the two stay together: as long as a request is at `recorded`, all the ledger has
of it is the trail of the core it holds (`CoreRecorded`). Only the request itself records under its name
(`OthersAreAside`), a restart records nothing, and what a request records after its core takes it out of that
stage (`RecordedStep`, next to `DataInv`). What remains is that a trail tells a core again (`CoreRetells`):

* *What is said of one capability.* A trail is one block after another, so what is kept of it is what is kept
  of its blocks (`OnlyOfBoth`, `FlatSet`). Of the blocks of a zone only that of the capability speaks of it
  (`OnlyOfBlock`, `PartOf`), and of the blocks of a capability only some have events of a kind (`ToldIs`). So
  the mapping, the conflicts, the exclusions and the gaps of a capability are each read back whole.
* *Conflicts.* A conflict is recorded for every rule that applies, in the order they are settled, and after them
  only conflicts that set nothing aside (`ConflictsAre`). What one sets aside does not depend on the conflicts
  before it (`SamePrevailing`), so settling as told and settling by the rules go together step by step
  (`SettledAgain`).
* *Exclusions.* Gating changes of an option only whether it is excluded (`OnlyExcludes`), and the trail names
  every excluded one, once (`ExclusionsListed`), so excluding as told gives the options back (`ExcludedAgain`,
  and with the conflicts `OptionsAreTold`).
* *Gaps.* Gating only takes mechanisms away, so what it leaves with no gap had none before, unless it is deferred
  (`NoGapBefore`): nothing was declared then. Where there is a gap it is declared again if it is not the one
  declared first, so the last one declared is the one that stands (`GapsAreTold`).

`Statement_proofs` proves, for any capabilities (finitely many), controls, readings, layouts and choices:

| theorem | statement |
|---|---|
| `EveryMandateInSomeonesName` | `Spec => []MandateInSomeonesName` |
| `StatementReadsBaseline` | `Spec => []StatementAgrees` |
| `OpenOnlyByLaterRejection` | `Spec => []OpenGapOnlyByLaterRejection` |
| `CompensatedOnlyByDeclaration` | `Spec => []CompensatedByDeclaration` |
| `ExcludedNeverSilently` | `Spec => []NothingExcludedSilently` |
| `ExportNeverMisleads` | `Spec => []StatesDoNotMislead` |

*The argument.* The invariant, `StatementInv`, is short: what is signed was admissible, and the trail is
the one the choices make. The work is in reading that trail. It has the choices by position first, then
what is ratified, then the signature (`SignedTrail`), so an entry that names a mechanism is a choice about
it or ratifies it (`NamedByChoiceOrRatified`), never both. What the statement takes is the last such
entry; it exists because positions are natural numbers (`LastOne`, by well-foundedness). The properties
follow from which mechanisms that leaves in force, case by case.

`CompositionFlow_proofs` proves, for any requests, profiles, versions of the catalog and choices:

| theorem | statement |
|---|---|
| `FlowTypeCorrect` | `Spec => []TypeOK` |
| `FlowLedgerIntact` | `Spec => []LP!ChainIntact` |
| `SignedOverARun` | `Spec => []SignedOverItsRun` |
| `MandatesClosedBySigning` | `Spec => []RunsMandatesClosed` |
| `EngineAlwaysFirst` | `Spec => []EngineBeforeHuman` |
| `SecondSignatureOverlaps` | `Spec => []SignedAgainOnlyByOverlap` |
| `ToldWhatIsRecorded` | `Spec => []AnswersMatchLedger` |
| `FlowImplementsLog` | `Spec => LP!ImplementsLog` |

*The argument.* The theorems of `AuditLedger_proofs` are instantiated, `LP`, with requests as appenders and
any sequence of entries as a batch: every step of the flow is a step of that ledger or leaves it alone
(`LedgerSteps`), so its invariant holds here and so does its refinement. `FlowInv` adds what ties rows to
requests. A request holds one batch, that of its stage (`Holding`), and a commit puts it after everything
stored (`CommitAppends`). So the rows are read off the requests (`RowsSayWhatWasAsked`): what the engine
recorded is about a run past its core, what a composition recorded about a run that was already offered,
whole or not at all (`CompositionsAreWhole`), after the start every run has (`RunsHaveAStart`). A run is offered
by its answer alone, so one that failed or was lost was never signed over. What a
composition was checked on still stands when it commits (`Checked`, part of `Stage`): the ledger only
grows, and a restart ends the composition with its versions. What it does not know is who signed since,
which is the overlap in `SignedAgainOnlyByOverlap`.

The same module proves of BaselineReads, over the same parameters:

| theorem | statement |
|---|---|
| `EverySummaryWhole` | `ReadSpec => []ListedWhole` |
| `EveryTrailWhole` | `ReadSpec => []ServedWhole` |
| `VerdictCoversTrail` | `ReadSpec => []ServedIsVerified` |

*The argument.* A baseline with one row on record has all it will ever have (`RecordedIsSettled`): a
composition is recorded in one batch, and the engine is done with a run before it is offered. So it does
not matter which of the two queries saw a baseline if the first saw any of it, and that is what `ReadInv`
adds to `FlowInv`: what a reader holds between its queries, whole as of the first.

`ClientSession_proofs` proves, for any drafts, capabilities, controls, answers of the engine and bounds:

| theorem | statement |
|---|---|
| `ClientTypeCorrect` | `Spec => []TypeOK` |
| `SignaturesCoherent` | `Spec => []SentIsCoherent` |
| `RefusedForAReason` | `Spec => []RefusedOnlyForKnownReasons` |
| `TwiceOnlyIfUnanswered` | `Spec => []SignedAgainOnlyIfUnanswered` |
| `NothingElseCrosses` | `Spec => []NothingCrossesButLateAnswers` |

*The argument.* None of these says anything of requests that are still on their way, and the next state
depends on them. `RequestInv` says of each which provider and composition it was made in and what the
client had checked when it made it (`SignatureInv`): a signature with the profile of its run lacks no mandate,
is empty only if nothing was asked, and says nothing twice but about rows of one key (`ChoicesAcceptable`); within a page the two change together, so a
request of the mounted provider is one of the composition at hand. `SignedOnce` says of a composition
whose signatures are all answered that it has at most one under way, and a baseline only once that one
is admitted: the flag of the screen keeps the operator from a second one until the answer is in the store,
which survives a reload.

`ProfileDraft_proofs` proves, for any requirements, sectors, levels, proposals and bounds:

| theorem | statement |
|---|---|
| `DraftTypeCorrect` | `Spec => []TypeOK` |
| `WrittenTwiceAlwaysAgrees` | `Spec => []WrittenTwiceAgrees` |
| `CorrectionsTell` | `Spec => []CorrectionsAreTheDifference` |

*The argument.* `WrittenTwiceAgrees` follows from the shape of the draft alone: a vector of which the client
misses nothing is whole or says nothing (`VectorsLackTheSame`), so leaving out those that are not whole loses
no level (`ZonePromoted`), and a dump the server accepts is the vector it was made of. The corrections need
an invariant: a zone of the draft is compared with the one the model proposed at the same index, and an
added zone with none, which is right because no proposed zone is missing until one is removed (`ZonesKept`,
the strengthening in `DraftInv`). Each edit then changes one path (`AssetEdit`, `ZoneEdit`), and the paths of
zones that are apart are different (`PathsApart`).

The assumptions on constants are facts of the schemas and the loaded files. Those `Candidates_proofs` adds to
the rest: a request asks for what its schema admits (`LoadsAssumption`, over `Asked`), and every control has
one point in the index (its id is made of the control's, `retrieval/index.py:129`); the catalog is finite
(`FiniteCatalogAssumption`) and every framework is somewhere in every precedence, once
(`PrecedenceAssumption`), as `engine/rules.py` requires. Among what is asked for, dependencies have no cycle
(`Acyclic`, in `AskedCandidates`): a rule set with one is refused when it is loaded
(`engine/prioritization_rules.py:96`).

Checked by TLC only:

* `EveryRequestEnds`, `EveryRetrievalEnds` and `WorkingEnds`: liveness under fairness is out of the prover's
  reach, and so is the `ENABLED` it would rest on.


## 6. Findings

Each is a run that TLC finds violated, with the documentation it contradicts.

1. **A run can be signed twice** (`run_signed_twice`). Two compositions over one run overlap: both read
   a run without a signature; the first commits; the second only then reads the head, chains after the
   first and is stored. The UNIQUE constraints protect the chain and nothing makes a signature unique
   per run. `baseline/service.py:15` says a run is signed once. `SignedAgainOnlyByOverlap` holds: it
   takes an overlap.
2. **A rejected mechanism can be in force** (`rejected_in_force`), in two ways. Rejecting does not count as
   deciding, so a covered mandate whose retained mechanism was rejected is ratified with that same
   mechanism; `baseline/schemas.py:157` says the ratified list is empty whenever the operator decided.
   And declaring a control as compensatory and rejecting it, in the same composition, is not compared by
   `_check_coherent`: the baseline holds it, and if the rejection comes later the statement reads the
   mandate as an open gap although the signature claims completeness. `baseline/service.py:260` says two
   decisions about one capability may not say opposite things. `OpenGapOnlyByLaterRejection` holds: it is
   the only way a mandate reads as open.
3. **A retrieval can be restricted in silence** (`restricted_in_silence`). The start-up task and a
   request both find the collection missing. The request makes it and takes it for ready; the task
   deletes it and makes it again; the request searches it while it is empty, and ends well having ranked
   nothing. `retrieval/index.py:307` says
   of searching that it may not restrict in silence. `NotWholeOnlyByOverlap` and `WholeOnceSettled`
   hold: it takes an overlap, and it ends with the rebuild unless that is cut short.

Smaller things met while modelling, which the properties name as their exceptions or abstract from:

* A mandate the run recorded as outstanding can be signed over (`RunsMandatesClosed`). The mandates are computed
  again from the profile in the composition, which only has to carry the id of the run's; if it was edited
  since, what the run announced as outstanding may have no decision, although `audit/trail.py:439` writes into
  the ledger that it must be closed before a signature is admitted.
* The server asks for the sectors of the asset, the client does not and promotes a draft without any;
  `lib/draft.ts:87` says the two lists are the same (`SameList`).
* A vector in which every requirement is null misses nothing, and `to_profile` (`parse/completion.py:130`) makes
  an empty object of it, which the profile refuses with a validation error; the client drops such a vector
  (`SameProfile`).
* Corrections are recorded under the id of a zone, and what the model had proposed is looked up by its index,
  which is another zone's once one was removed (`CompositionProvider.tsx:186`). A zone added after a removal takes
  the id of the last one, and nothing refuses two zones of one id, though the signed baseline is put together by
  id: the second gets the gating of the first (`baseline/service.py:329`, `engine/schemas.py:371`).
  `CorrectionsAreTheDifference` excepts both.
* `audit/trail.py:298` declares a gap again after gating only if it differs from the one resolution
  declared, and a deferred capability declares none: its earlier gap is then the ledger's last word on it
  (`LedgerRetellsTheRun`).
* `parse/ollama.py:53` reads the body of the tags outside the `try`: a body that is no JSON fails a run that
  is already recorded, although `explain/service.py:6` says explanations fail open, always. The encoder that
  does not load for a query (`retrieval/index.py:312`) does the same (`OptionalPassesCostNothing`).
* A capability gating left nothing of reads in OSCAL as `alternative`, "an alternative implementation", with
  nothing declared or in force if the operator only rejected (`StatesDoNotMislead`): a mandate whose every
  compensatory control was rejected later, and a Tier 1 capability of which any candidate was rejected.
  `_outcome` falls back on gating's status (`baseline/statement.py:605`), while `baseline/oscal.py:236` takes
  that outcome for a compensatory control.
* `audit/chain.py:3-7` says walking the chain turns a silent edit of the file into a detectable one. The digest
  has no key: rewritten from some row to the end with the digests taken again, the ledger verifies, and so does
  a rewritten row of a slice whose neighbours are of other runs. Against a hash or an export somebody kept the
  edit shows (`WalksAgree`, `SliceIsVouchedFor`); the API
  serves the hashes with every trail, and nothing in the program compares them with what it served before.
* `baseline/schemas.py:112` asks for at least one decision. Where no mandate is outstanding and nothing is
  contested the client blocks nothing and sends none: a 422 (`RefusedOnlyForKnownReasons`).
* Two zones of one id share in the client what was put down for either, and each decision about them is sent
  once per zone: `baseline/service.py:243` refuses the second as a repetition, so that no
  decision about them can be signed (`RefusedOnlyForKnownReasons`).
* The order in which contradictions are listed can change the status of a mechanism, where one rule sets it
  aside and a safety rule leaves it to the human (`RuleOrderMattersOnlyUnderSafety`);
  `tests/engine/test_order_independence.py:40` says without exception that it does not. The property compares
  statuses; which rule is named for it, and why, may differ more often.
* An OSCAL requirement lists the mandates of the first zone only (`baseline/oscal.py:457`), though the zones
  may have different ones.
* Within a phase the roadmap's order is by implementation group, benefit and id: a capability may be listed
  before one it requires (`engine/prioritization.py:422`).
* The catalog does not refuse two mappings of one control to one capability.


## 7. What is abstracted, and what is missing

* *Entries.* In `CompositionFlow` one entry stands for all those of its type in a batch and names the
  capabilities they are about; the engine's other entries are folded into the start and the end of the
  run. `CLOSED` stands for the three kinds of decision that close a mandate. `Composition` has them one
  by one.
* *Texts.* Rationales, names and wording are left out everywhere. A gap is its kind, its coverage and the
  pass that declared it, which is what its sentence varies with.
* *Statement.* It is modelled for a profile that is the profile of its run. The version columns of
  retrieval entries are those deployed, as the code stamps them. Ratifications are recorded in an
  arbitrary order, which no property depends on.
* *Targets.* The code asks a zone for its target on the foundational requirement of each mandate
  (`engine/prioritization.py:256`); in `Roadmap` a zone has one target for all.
* *Coverage weights* and *scores* are small integers; the code compares floats, residuals rounded to six
  digits and scores within an epsilon, here `TIE_EPSILON`.
* *The ranking* is an input: what the encoder and the vector store make of a query is not modelled, and
  a control is ranked once.
* *The guard of the prose* is one of three outcomes of a draft (described, verdict, blank); its vocabulary
  is left out, and so are the texts of the evidence.
* *A draft profile.* Texts that nothing asks for (Purdue level, role, position, references), the slug of the
  profile's id, the order of the list of what is missing and an id that is a bare number are left out; the
  endpoints of a conduit are there or not. Sectors are a set: sectors a model proposed in another order than
  the catalog's count as corrected once they are toggled and toggled back, which is not modelled.
  Signing, which ends the editing, is in ClientSession.
* *Failing candidates requests.* When the retrieval pass fails with something other than an unavailable
  index, the core run is already committed and stays on the ledger, although `api/deps.py:5` says a
  failing request is rolled back; so it does when the explanations fail. The flow models both (`Retrieve` to
  `failed`, `ExplainFails`): `AnswersMatchLedger` says that such a run is never signed over, and
  `OptionalPassesCostNothing` says which errors those are.
* *The index.* Points are not told apart beyond which controls have one.
* *The client.* Which step and zone is shown, the delta, the text of the explanations and the trail fetched
  after signing are left out; a late answer with candidates also puts another zone in the store as the one
  shown (`CompositionProvider.tsx:281`). There is one page: two of them over one local storage are not modelled. Whether a reason is blank is all
  that matters of it. Versions do not change under the client; controls are always in the catalog.
  Requests other than signatures are handled as they are answered, for the server keeps nothing of them
  that another request could see; a run whose answer is lost takes no part. A second provider may start
  a run while that of the first is under way, which `CompositionProvider.tsx:259` means to prevent; the
  ledger bears it (`RefusedIffStale`).
* *Not modelled:* the loading of the catalog and the assets (files read once per process: their contents
  are the constants of these models, their versions in `CompositionFlow`); tagging (an offline tool for the
  catalog's data); the pages of the client; scripts and deployment.


## 8. Plan

Done: 1 **EventLog, AuditLedger** and proofs · 2 **CompositionFlow, BaselineReads** · 3 **Gating, Composition,
Statement** · 4 **ChainVerification** and proofs · 5 **CatalogIndex** and proofs · 6 **ClientSession** ·
7 **Applicability, Conflicts** · 8 **Roadmap** · 9 **Retrieval, CoreTrail** · 10 **Explain, Answer, Delta,
PinnedModel, Candidates** and proofs · 11 **Oscal** · 12 proofs of **CompositionFlow, BaselineReads,
Statement, Oscal, ClientSession** · 13 **ProfileDraft** · 14 proofs of every property
of the passing runs that is not liveness.

What is left, by what it would add:

* *The client's navigation:* which step and zone is shown after a reload, the delta on the screen, and the trail
  that is fetched after signing, which is a third read put together with the signed baseline.
* *Loading and tagging:* which catalogs and assets are refused at start-up, and that offline tags cannot
  put in the catalog what its schemas refuse.
