-------------------------- MODULE CompositionFlow ---------------------------
(***************************************************************************)
(* The requests that write the audit ledger: POST /candidates, which       *)
(* records a run of the engine, and POST /baseline/compose, which signs a  *)
(* baseline over one.                                                      *)
(*                                                                         *)
(* A request is a coroutine.  It touches the ledger in separate awaits and *)
(* the others run in between: what it checked may no longer hold when its  *)
(* batch is committed.  The process may die and come back with other       *)
(* versions of the catalog and the rules.  AuditLedger gives the appends.  *)
(***************************************************************************)
EXTENDS Naturals, Sequences, FiniteSets

CONSTANTS MaxRequests,  \* bound: requests ever received
          MaxRuns,      \* bound: how many of them ask for candidates
          Profile,      \* the asset profiles clients submit
          Id,           \* Id[p]: the id p carries, which an edit of p keeps
          Version,      \* versions of the catalog and the rules
          Capability,
          Tier0,        \* Tier0[v][p]: the mandates of p under version v
          Outstanding,  \* Outstanding[v][p]: those the engine could not close
          Choices       \* what an operator decides in one composition

ProfileIds == {Id[p] : p \in Profile}

ASSUME BoundsAssumption == MaxRequests \in Nat /\ MaxRuns \in Nat
ASSUME ProfileAssumption == Profile # {}
ASSUME IdAssumption == Id \in [Profile -> ProfileIds]
ASSUME MandateAssumption ==
    /\ Tier0 \in [Version -> [Profile -> SUBSET Capability]]
    /\ Outstanding \in [Version -> [Profile -> SUBSET Capability]]
    /\ \A v \in Version, p \in Profile : Outstanding[v][p] \subseteq Tier0[v][p]

\* closed: a mechanism, a compensatory control or an accepted gap; rejected:
\* some candidate discarded.  ComposeRequest asks for at least one decision.
ASSUME ChoicesAssumption ==
    Choices \subseteq {c \in [closed: SUBSET Capability, rejected: SUBSET Capability] :
                          c.closed \cup c.rejected # {}}

VARIABLES rows, head, batch,    \* see AuditLedger
          pc,                   \* pc[n]: the await request n is at, or its end
          request,              \* request[n]: what n asks for
          deployed              \* the versions this process loaded

(***************************************************************************)
(* A request is the n-th received.  n also stands for the uuid4 it mints:  *)
(* the run id of a candidates request, the baseline id of a composition.   *)
(***************************************************************************)
Request == 1..MaxRequests
None == 0               \* an id no request minted

NoChoices == [closed |-> {}, rejected |-> {}]

\* saw: how many rows a composition had read when it was checked (history).
RequestRecord ==
    [run: Request \cup {None}, profile: Profile, choices: Choices \cup {NoChoices},
     saw: Nat]

NoRequest ==
    [run |-> None, profile |-> CHOOSE p \in Profile : TRUE, choices |-> NoChoices, saw |-> 0]

Live == {"core", "retrieve", "widen", "sign", "answer"}
Ended == {"ok", "refused", "failed", "lost"}

-----------------------------------------------------------------------------
(***************************************************************************)
(* What is recorded.  One entry here stands for all the entries of its     *)
(* type in a batch: `about` gathers the capabilities they name.            *)
(***************************************************************************)
EngineEvent == {"RUN_STARTED", "RUN_COMPLETED", "CANDIDATES_RETRIEVED"}
HumanEvent == {"CLOSED", "OPTION_REJECTED", "MECHANISM_RATIFIED", "BASELINE_SIGNED"}
EventType == EngineEvent \cup HumanEvent

Entry ==
    [type: EventType, run: Request, baseline: Request \cup {None},
     profile: ProfileIds, version: Version, about: SUBSET Capability]

Event(type, n, req, v, about) ==
    [type |-> type, run |-> req.run,
     baseline |-> IF type \in EngineEvent THEN None ELSE n,
     profile |-> Id[req.profile], version |-> v, about |-> about]

\* audit/trail.py: the run, and the mandates it leaves outstanding.
CoreTrail(n, req, v) ==
    << Event("RUN_STARTED", n, req, v, {}),
       Event("RUN_COMPLETED", n, req, v, Outstanding[v][req.profile]) >>

\* retrieval/trail.py: what the RAG pass added to the run.
RetrievalTrail(n, req, v) == << Event("CANDIDATES_RETRIEVED", n, req, v, {}) >>

\* baseline/trail.py: the decisions, the mandates ratified by signing, and the
\* signature last.
CompositionTrail(n, req, v) ==
    LET says(type, about) ==
          IF about = {} THEN << >> ELSE << Event(type, n, req, v, about) >>
    IN  says("CLOSED", req.choices.closed)
        \o says("OPTION_REJECTED", req.choices.rejected)
        \o says("MECHANISM_RATIFIED", Tier0[v][req.profile] \ req.choices.closed)
        \o << Event("BASELINE_SIGNED", n, req, v, Outstanding[v][req.profile]) >>

\* The batch request n has to append at the stage it is in.
Work(n) ==
    CASE pc[n] = "core"  -> CoreTrail(n, request[n], deployed)
      [] pc[n] = "widen" -> RetrievalTrail(n, request[n], deployed)
      [] pc[n] = "sign"  -> CompositionTrail(n, request[n], deployed)

\* The requests are the appenders; the bound leaves room for all they append.
Ledger == INSTANCE AuditLedger
            WITH Appender <- Request, Batch <- Seq(Entry) \ {<< >>},
                 MaxEvents <- 4 * MaxRequests

Events == {r.entry : r \in rows}
ByRun(run) == {r \in rows : r.entry.run = run}
First(recorded) == CHOOSE r \in recorded : \A s \in recorded : r.sequence <= s.sequence

vars == <<rows, head, batch, pc, request, deployed>>
ledgerVars == <<rows, head, batch>>

TypeOK ==
    /\ Ledger!TypeOK
    /\ pc \in [Request -> {"unsent"} \cup Live \cup Ended]
    /\ request \in [Request -> RequestRecord]
    /\ deployed \in Version

IsRun(n) == request[n].run = n

\* Faulty variant: the run is announced as soon as the core is on record.
OfferedEarly ==
    {n \in Request : IsRun(n) /\ pc[n] \in {"retrieve", "widen", "answer", "ok"}}

\* A client learns a run id from the answer to its POST /candidates.
Offered == {n \in Request : pc[n] = "ok" /\ IsRun(n)}

Init ==
    /\ Ledger!Init
    /\ pc = [n \in Request |-> "unsent"]
    /\ request = [n \in Request |-> NoRequest]
    /\ deployed \in Version

\* Requests are numbered in the order they are received.
NextToArrive(n) ==
    /\ pc[n] = "unsent"
    /\ \A m \in 1..(n - 1) : pc[m] # "unsent"

-----------------------------------------------------------------------------
(***************************************************************************)
(* POST /candidates                                                        *)
(***************************************************************************)

\* The run is named and the core computed on the profile of the request.
AskCandidates(n, p) ==
    /\ NextToArrive(n)
    /\ Cardinality({m \in Request : IsRun(m)}) < MaxRuns
    /\ request' = [request EXCEPT ![n] =
                     [run |-> n, profile |-> p, choices |-> NoChoices, saw |-> 0]]
    /\ pc' = [pc EXCEPT ![n] = "core"]
    /\ UNCHANGED <<ledgerVars, deployed>>

\* The retrieval pass widens the run; or it is disabled or its index is not
\* available, and the run is offered without it; or it fails some other way.
Retrieve(n) ==
    /\ pc[n] = "retrieve"
    /\ \E next \in {"widen", "answer", "failed"} : pc' = [pc EXCEPT ![n] = next]
    /\ UNCHANGED <<ledgerVars, request, deployed>>

-----------------------------------------------------------------------------
(***************************************************************************)
(* POST /baseline/compose                                                  *)
(***************************************************************************)

\* Faulty variant: any run on the ledger will do.
CheckRunExistsOnly(recorded, p) == recorded # {}

\* Faulty variant: a run may be signed again.
CheckRunWithoutSignature(recorded, p) ==
    recorded # {} /\ First(recorded).entry.profile = Id[p]

\* There is such a run, it is of this profile, and no one has signed it.
CheckRun(recorded, p) ==
    /\ recorded # {}
    /\ First(recorded).entry.profile = Id[p]
    /\ \A r \in recorded : r.entry.type # "BASELINE_SIGNED"

\* Faulty variant: the versions are not compared.
NoVersionCheck(recorded) == TRUE

\* The versions that govern now are those that governed the run.
CheckVersions(recorded) == First(recorded).entry.version = deployed

\* Every mandate the core leaves outstanding is closed by a choice.
CheckMandates(p, choices) == Outstanding[deployed][p] \subseteq choices.closed

Admitted(run, p, choices) ==
    /\ CheckRun(ByRun(run), p)
    /\ CheckVersions(ByRun(run))
    /\ CheckMandates(p, choices)

\* by_run is read, and the composition is signed on what it returned.
Compose(n, run, p, choices) ==
    /\ NextToArrive(n)
    /\ Admitted(run, p, choices)
    /\ request' = [request EXCEPT ![n] =
                     [run |-> run, profile |-> p, choices |-> choices,
                      saw |-> Cardinality(rows)]]
    /\ pc' = [pc EXCEPT ![n] = "sign"]
    /\ UNCHANGED <<ledgerVars, deployed>>

\* A check raises: 422 or 409, and nothing is kept of the composition.
TurnAway(n, run, p, choices) ==
    /\ NextToArrive(n)
    /\ ~Admitted(run, p, choices)
    /\ pc' = [pc EXCEPT ![n] = "refused"]
    /\ UNCHANGED <<ledgerVars, request, deployed>>

-----------------------------------------------------------------------------
(***************************************************************************)
(* Appending, answering, dying                                             *)
(***************************************************************************)
ReadHead(n) ==
    /\ pc[n] \in {"core", "widen", "sign"}
    /\ Ledger!ReadHead(n, Work(n))
    /\ UNCHANGED <<pc, request, deployed>>

\* append_many returns: a run goes on to its retrieval pass, the rest answer.
Commit(n) ==
    /\ Ledger!Commit(n)
    /\ pc' = [pc EXCEPT ![n] = IF @ = "core" THEN "retrieve" ELSE "answer"]
    /\ UNCHANGED <<request, deployed>>

\* Faulty variant: the batch is committed again on the head already read.
RefuseAndRetry(n) ==
    /\ Ledger!Appending(n)
    /\ ~Ledger!Unique(rows, Ledger!Chained(head[n], batch[n]))
    /\ UNCHANGED vars

\* Faulty variant: the error is taken for success.
RefuseUnnoticed(n) ==
    /\ Ledger!Refuse(n)
    /\ pc' = [pc EXCEPT ![n] = "answer"]
    /\ UNCHANGED <<request, deployed>>

\* append_many raises IntegrityError, which no handler expects: a 500.
Refuse(n) ==
    /\ Ledger!Refuse(n)
    /\ pc' = [pc EXCEPT ![n] = "failed"]
    /\ UNCHANGED <<request, deployed>>

\* The database fails the append for a reason of its own.
Abort(n) ==
    /\ Ledger!Abort(n)
    /\ pc' = [pc EXCEPT ![n] = "failed"]
    /\ UNCHANGED <<request, deployed>>

\* The candidates of a run are explained before it is answered, which may fail
\* in a way that nothing catches: a 500, with the run on record.
ExplainFails(n) ==
    /\ pc[n] = "answer" /\ IsRun(n)
    /\ pc' = [pc EXCEPT ![n] = "failed"]
    /\ UNCHANGED <<ledgerVars, request, deployed>>

Answer(n) ==
    /\ pc[n] = "answer"
    /\ pc' = [pc EXCEPT ![n] = "ok"]
    /\ UNCHANGED <<ledgerVars, request, deployed>>

\* The process dies with its requests; another one comes up, maybe with other
\* versions.  Nothing but the ledger survives.
Restart ==
    /\ Ledger!Restart
    /\ pc' = [n \in Request |-> IF pc[n] \in Live THEN "lost" ELSE pc[n]]
    /\ deployed' \in Version
    /\ UNCHANGED request

Serve(n) == Retrieve(n) \/ ReadHead(n) \/ Commit(n) \/ Refuse(n) \/ Answer(n)

Step(n) ==
    \/ \E p \in Profile : AskCandidates(n, p)
    \/ \E run \in Offered \cup {None}, p \in Profile, c \in Choices :
          Compose(n, run, p, c) \/ TurnAway(n, run, p, c)
    \/ Serve(n)
    \/ ExplainFails(n)
    \/ Abort(n)

Next == (\E n \in Request : Step(n)) \/ Restart

\* The event loop resumes every coroutine whose await has returned, and the
\* database answers.  Nothing obliges clients to ask or the process to die.
Fairness == \A n \in Request : WF_vars(Serve(n))

Spec == Init /\ [][Next]_vars /\ Fairness

(***************************************************************************)
(* Properties                                                              *)
(***************************************************************************)
Signatures == {r \in rows : r.entry.type = "BASELINE_SIGNED"}
StampedWith(n) == {r \in rows : r.entry.baseline = n}

\* A baseline is signed over a run the ledger already held, made on the same
\* profile id and governed by the same versions as the signature.
SignedOverItsRun ==
    \A s \in Signatures : \E r \in ByRun(s.entry.run) :
        /\ r.entry.type = "RUN_STARTED"
        /\ r.sequence < s.sequence
        /\ r.entry.profile = s.entry.profile
        /\ r.entry.version = s.entry.version

\* The capabilities that the entries of a type are about.
AboutWhat(recorded, type) == UNION {r.entry.about : r \in {r \in recorded : r.entry.type = type}}

\* What the run of a signature recorded as outstanding and no decision of its
\* baseline closes.
LeftOpen(s) ==
    AboutWhat(ByRun(s.entry.run), "RUN_COMPLETED")
    \ AboutWhat(StampedWith(s.entry.baseline), "CLOSED")

\* When the profile signed is the profile of the run, every mandate the run
\* recorded as outstanding is closed by a decision of that same baseline, even
\* if the process was replaced between the run and the signature.
RunsMandatesClosed ==
    \A s \in Signatures :
        request[s.entry.baseline].profile = request[s.entry.run].profile
            => LeftOpen(s) = {}

\* Once a run is signed the engine adds nothing to it: what the operator saw is
\* what the trail of the baseline holds.
EngineBeforeHuman ==
    \A r, s \in rows :
        /\ r.entry.run = s.entry.run
        /\ r.entry.type \in EngineEvent
        /\ s.entry.type \in HumanEvent
        => r.sequence < s.sequence

\* A run is signed again only by a composition that was checked before the
\* first signature was committed.
SignedAgainOnlyByOverlap ==
    \A s, t \in Signatures :
        s.entry.run = t.entry.run /\ s.sequence < t.sequence
            => request[t.entry.baseline].saw < s.sequence

\* What a client is told is what the ledger holds.  A composition: signed and on
\* record, or an error and not a trace of it; no answer, whole or not at all.  A
\* run: offered and on record; of one that failed after its core was committed
\* what is left is the engine's, and no composition is ever signed over it.
AnswersMatchLedger ==
    \A n \in Request :
        LET signed == \E s \in Signatures : s.entry.baseline = n
        IN  /\ StampedWith(n) # {} => signed
            /\ pc[n] = "ok" => signed \/ (IsRun(n) /\ ByRun(n) # {})
            /\ pc[n] \in {"refused", "failed"} => ~signed
            /\ IsRun(n) /\ pc[n] \in {"failed", "lost"} =>
                  \A r \in ByRun(n) : r.entry.type \in EngineEvent

\* Every request is answered, or lost with the process that served it.
EveryRequestEnds == \A n \in Request : pc[n] \in Live ~> pc[n] \in Ended

(***************************************************************************)
(* What the documentation says of the program, and the program refutes     *)
(***************************************************************************)

\* baseline/service.py:15: "A run is signed once".
RunSignedOnce ==
    \A s, t \in Signatures : s.entry.run = t.entry.run => s = t
=============================================================================
