----------------------- MODULE CompositionFlow_proofs -----------------------
(***************************************************************************)
(* Proofs about CompositionFlow, what the ledger says of the requests that *)
(* write it, and about BaselineReads, what a client is shown however many  *)
(* compositions are committed between the two reads of an answer: for any  *)
(* requests, profiles, versions and choices.                               *)
(*                                                                         *)
(* The argument.  A request holds one batch, that of its stage (Holding),  *)
(* and what is proved of AuditLedger puts it right after everything stored *)
(* (CommitAppends).  So the rows are read off the requests: what the       *)
(* engine recorded is about a run past its core, what a composition        *)
(* recorded is about one already offered (RowsSayWhatWasAsked), and a run  *)
(* has one start, before everything else it has (RunsHaveAStart).  What a  *)
(* composition was checked on stands until it commits (Checked): the       *)
(* ledger only grows and a restart ends the composition with its versions. *)
(* A step that records nothing has only its own request to account for     *)
(* (QuietStep), a commit also its own rows (CommitStep).                   *)
(*                                                                         *)
(* So a baseline with one row on record has all it will ever have          *)
(* (RecordedIsSettled): a composition is recorded in one batch, by a       *)
(* request that then has nothing to append, and the engine is done with    *)
(* a run before it is offered.  It does not matter which of the two reads  *)
(* saw it, if the first one saw any of it: that is what ReadInv adds to    *)
(* FlowInv.                                                                *)
(***************************************************************************)
EXTENDS BaselineReads, FiniteSetTheorems, SequenceTheorems, TLAPS

\* What is proved of the ledger holds of the one these requests write.
LP == INSTANCE AuditLedger_proofs
        WITH Appender <- Request, Batch <- Seq(Entry) \ {<< >>},
             MaxEvents <- 4 * MaxRequests

Writing == {"core", "widen", "sign"}

Starts == {r \in rows : r.entry.type = "RUN_STARTED"}

\* What a request is appending is what its stage has to append.
Holding == \A n \in Request : batch[n] # << >> => pc[n] \in Writing /\ batch[n] = Work(n)

FlowTypes ==
    /\ pc \in [Request -> {"unsent"} \cup Live \cup Ended]
    /\ request \in [Request -> RequestRecord]
    /\ deployed \in Version

-----------------------------------------------------------------------------
(***************************************************************************)
(* What is appended                                                        *)
(***************************************************************************)

\* What a request records is an entry.
LEMMA EventIsEntry ==
    ASSUME NEW type \in EventType, NEW n \in Request, NEW req \in RequestRecord,
           NEW v \in Version, NEW about \in SUBSET Capability, req.run \in Request
    PROVE  Event(type, n, req, v, about) \in Entry
BY DEF Event, Entry, RequestRecord, ProfileIds

\* The parts of a request, and what the engine makes of its profile.
LEMMA FieldsOfRequest ==
    ASSUME NEW req \in RequestRecord, NEW v \in Version
    PROVE  /\ req.run \in Request \cup {None}
           /\ req.profile \in Profile
           /\ req.saw \in Nat
           /\ req.choices.closed \in SUBSET Capability
           /\ req.choices.rejected \in SUBSET Capability
           /\ Outstanding[v][req.profile] \in SUBSET Capability
           /\ Tier0[v][req.profile] \in SUBSET Capability
<1>1. /\ req.run \in Request \cup {None}
      /\ req.profile \in Profile
      /\ req.saw \in Nat
      /\ req.choices \in Choices \cup {NoChoices}
  BY DEF RequestRecord
<1>2. req.choices.closed \in SUBSET Capability /\ req.choices.rejected \in SUBSET Capability
  BY <1>1, ChoicesAssumption DEF NoChoices
<1>3. /\ Outstanding[v][req.profile] \in SUBSET Capability
      /\ Tier0[v][req.profile] \in SUBSET Capability
  BY <1>1, MandateAssumption
<1> QED
  BY <1>1, <1>2, <1>3

\* The entries of each kind of batch.
LEMMA EntriesOfWork ==
    ASSUME FlowTypes, NEW n \in Request, pc[n] \in Writing, request[n].run \in Request
    PROVE  LET e(type, about) == Event(type, n, request[n], deployed, about)
               open == Outstanding[deployed][request[n].profile]
               closed == request[n].choices.closed
               rejected == request[n].choices.rejected
               ratified == Tier0[deployed][request[n].profile] \ closed
               says(type, about) == IF about = {} THEN {} ELSE {e(type, about)}
           IN  /\ Work(n) \in Seq(Entry)
               /\ pc[n] = "core" =>
                     /\ Len(Work(n)) = 2
                     /\ Work(n)[1] = e("RUN_STARTED", {})
                     /\ Work(n)[2] = e("RUN_COMPLETED", open)
               /\ pc[n] = "widen" => Work(n) = <<e("CANDIDATES_RETRIEVED", {})>>
               /\ pc[n] = "sign" =>
                     Range(Work(n)) =
                        says("CLOSED", closed) \cup says("OPTION_REJECTED", rejected)
                        \cup says("MECHANISM_RATIFIED", ratified)
                        \cup {e("BASELINE_SIGNED", open)}
<1> DEFINE e(type, about) == Event(type, n, request[n], deployed, about)
           open == Outstanding[deployed][request[n].profile]
           closed == request[n].choices.closed
           rejected == request[n].choices.rejected
           ratified == Tier0[deployed][request[n].profile] \ closed
           says(type, about) == IF about = {} THEN {} ELSE {e(type, about)}
           said(type, about) == IF about = {} THEN << >> ELSE <<e(type, about)>>
<1>1. /\ open \in SUBSET Capability
      /\ closed \in SUBSET Capability
      /\ rejected \in SUBSET Capability
      /\ ratified \in SUBSET Capability
  BY FieldsOfRequest DEF FlowTypes
<1>2. ASSUME NEW type \in EventType, NEW about \in SUBSET Capability
      PROVE  e(type, about) \in Entry
  BY <1>2, EventIsEntry DEF FlowTypes
<1> HIDE DEF e, open, closed, rejected, ratified
<1>3. ASSUME NEW type \in EventType, NEW about \in SUBSET Capability
      PROVE  /\ said(type, about) \in Seq(Entry)
             /\ Range(said(type, about)) = says(type, about)
  <2>1. << >> \in Seq(Entry) /\ Range(<< >>) = {}
    BY DEF Range
  <2>2. <<e(type, about)>> \in Seq(Entry) /\ Range(<<e(type, about)>>) = {e(type, about)}
    BY <1>2 DEF Range
  <2> QED
    BY <2>1, <2>2
<1>4. CASE pc[n] = "core"
  <2>1. Work(n) = <<e("RUN_STARTED", {}), e("RUN_COMPLETED", open)>>
    BY <1>4 DEF Work, CoreTrail, e, open
  <2>2. e("RUN_STARTED", {}) \in Entry /\ e("RUN_COMPLETED", open) \in Entry
    BY <1>1, <1>2 DEF EventType, EngineEvent
  <2>3. Work(n) \in Seq(Entry) /\ Len(Work(n)) = 2
    BY <2>1, <2>2
  <2> QED
    BY <1>4, <2>1, <2>3 DEF e, open
<1>5. CASE pc[n] = "widen"
  <2>1. Work(n) = <<e("CANDIDATES_RETRIEVED", {})>>
    BY <1>5 DEF Work, RetrievalTrail, e
  <2>2. e("CANDIDATES_RETRIEVED", {}) \in Entry
    BY <1>2 DEF EventType, EngineEvent
  <2>3. Work(n) \in Seq(Entry)
    BY <2>1, <2>2
  <2> QED
    BY <1>5, <2>1, <2>3 DEF e
<1>6. CASE pc[n] = "sign"
  <2> DEFINE s1 == said("CLOSED", closed)
             s2 == said("OPTION_REJECTED", rejected)
             s3 == said("MECHANISM_RATIFIED", ratified)
             s4 == <<e("BASELINE_SIGNED", open)>>
  <2>1. Work(n) = s1 \o s2 \o s3 \o s4
    BY <1>6 DEF Work, CompositionTrail, e, open, closed, rejected, ratified
  <2>2. /\ s1 \in Seq(Entry) /\ Range(s1) = says("CLOSED", closed)
        /\ s2 \in Seq(Entry) /\ Range(s2) = says("OPTION_REJECTED", rejected)
        /\ s3 \in Seq(Entry) /\ Range(s3) = says("MECHANISM_RATIFIED", ratified)
    <3>1. {"CLOSED", "OPTION_REJECTED", "MECHANISM_RATIFIED"} \subseteq EventType
      BY DEF EventType, HumanEvent
    <3> QED
      BY <1>1, <1>3, <3>1
  <2>3. s4 \in Seq(Entry) /\ Range(s4) = {e("BASELINE_SIGNED", open)}
    <3>1. e("BASELINE_SIGNED", open) \in Entry
      BY <1>1, <1>2 DEF EventType, HumanEvent
    <3> QED
      BY <3>1 DEF Range
  <2>0. \A t, u \in Seq(Entry) :
           t \o u \in Seq(Entry) /\ Range(t \o u) = Range(t) \cup Range(u)
    <3>1. ASSUME NEW t \in Seq(Entry), NEW u \in Seq(Entry)
          PROVE  t \o u \in Seq(Entry)
      BY ConcatProperties
    <3>2. ASSUME NEW t \in Seq(Entry), NEW u \in Seq(Entry)
          PROVE  Range(t \o u) = Range(t) \cup Range(u)
      BY RangeConcatenation
    <3> QED
      BY <3>1, <3>2
  <2> HIDE DEF s1, s2, s3, s4
  <2>4. /\ s1 \o s2 \in Seq(Entry)
        /\ Range(s1 \o s2) = Range(s1) \cup Range(s2)
    BY <2>2, <2>0, Zenon
  <2>5. /\ s1 \o s2 \o s3 \in Seq(Entry)
        /\ Range(s1 \o s2 \o s3) = Range(s1) \cup Range(s2) \cup Range(s3)
    BY <2>2, <2>4, <2>0, Zenon
  <2>6. /\ s1 \o s2 \o s3 \o s4 \in Seq(Entry)
        /\ Range(s1 \o s2 \o s3 \o s4) = Range(s1) \cup Range(s2) \cup Range(s3) \cup Range(s4)
    BY <2>3, <2>5, <2>0, Zenon
  <2>7. Range(Work(n)) =
           says("CLOSED", closed) \cup says("OPTION_REJECTED", rejected)
           \cup says("MECHANISM_RATIFIED", ratified) \cup {e("BASELINE_SIGNED", open)}
    BY <2>1, <2>2, <2>3, <2>6
  <2> QED
    BY <1>6, <2>1, <2>6, <2>7 DEF e, open, closed, rejected, ratified
<1> QED
  BY <1>4, <1>5, <1>6 DEF Writing
-----------------------------------------------------------------------------
(***************************************************************************)
(* What the ledger makes of it                                             *)
(***************************************************************************)
\* The ledger of these requests meets what AuditLedger assumes.
LEMMA LedgerAssumptions ==
    /\ Seq(Entry) \ {<< >>} \subseteq Seq(Entry) \ {<< >>}
    /\ 4 * MaxRequests \in Nat
BY BoundsAssumption

\* The actions of the ledger are those it is proved about.
LEMMA SameLedger ==
    /\ Ledger!Init <=> LP!Init
    /\ \A n \in Request, b \in Seq(Entry) \ {<< >>} : Ledger!ReadHead(n, b) => LP!Next
    /\ \A n \in Request : Ledger!Commit(n) => LP!Commit(n) /\ LP!Next
    /\ \A n \in Request : Ledger!Refuse(n) \/ Ledger!Abort(n) => LP!Next
    /\ Ledger!Restart => LP!Next
    /\ ledgerVars = LP!vars
<1>1. Ledger!Init <=> LP!Init
  BY DEF Ledger!Init, LP!Init, Ledger!EmptyLedger, LP!EmptyLedger, Ledger!GENESIS_HASH,
         LP!GENESIS_HASH
<1>2. ASSUME NEW n \in Request, NEW b \in Seq(Entry) \ {<< >>}, Ledger!ReadHead(n, b)
      PROVE  LP!Next
  <2>1. Ledger!Heads = LP!Heads
    BY DEF Ledger!Heads, LP!Heads, Ledger!EmptyLedger, LP!EmptyLedger, Ledger!GENESIS_HASH,
           LP!GENESIS_HASH
  <2>2. Ledger!Cardinality(rows) = LP!Cardinality(rows)
    BY Zenon DEF Ledger!Cardinality, LP!Cardinality, Ledger!IsFiniteSet, LP!IsFiniteSet
  <2>3. LP!ReadHead(n, b)
    BY <1>2, <2>1, <2>2 DEF Ledger!ReadHead, LP!ReadHead, Ledger!Appending, LP!Appending
  <2> QED
    BY <2>3 DEF LP!Next
<1>3. \A h, b : Ledger!Chained(h, b) = LP!Chained(h, b)
  BY DEF Ledger!Chained, LP!Chained, Ledger!ChainHash, LP!ChainHash
<1>4. \A t, new : Ledger!Unique(t, new) <=> LP!Unique(t, new)
  BY DEF Ledger!Unique, LP!Unique
<1>5. \A n \in Request : Ledger!Commit(n) => LP!Commit(n)
  BY <1>3, <1>4 DEF Ledger!Commit, LP!Commit, Ledger!Appending, LP!Appending,
         Ledger!EmptyLedger, LP!EmptyLedger, Ledger!GENESIS_HASH, LP!GENESIS_HASH
<1>6. \A n \in Request : Ledger!Refuse(n) \/ Ledger!Abort(n) => LP!Refuse(n) \/ LP!Abort(n)
  BY <1>3, <1>4 DEF Ledger!Refuse, LP!Refuse, Ledger!Abort, LP!Abort, Ledger!Appending,
         LP!Appending, Ledger!EmptyLedger, LP!EmptyLedger, Ledger!GENESIS_HASH, LP!GENESIS_HASH
<1>7. Ledger!Restart => LP!Restart
  BY DEF Ledger!Restart, LP!Restart, Ledger!EmptyLedger, LP!EmptyLedger, Ledger!GENESIS_HASH,
         LP!GENESIS_HASH
<1>8. ledgerVars = LP!vars
  BY DEF ledgerVars, LP!vars
<1>9. \A n \in Request : LP!Commit(n) \/ LP!Refuse(n) \/ LP!Abort(n) => LP!Next
  BY DEF LP!Next
<1>10. LP!Restart => LP!Next
  BY DEF LP!Next
<1> QED
  BY <1>1, <1>2, <1>5, <1>6, <1>7, <1>8, <1>9, <1>10

\* Every row holds an entry at a position of its own.
LEMMA RowsOfLedger ==
    ASSUME LP!LedgerInv
    PROVE  /\ \A r \in rows : r.entry \in Entry /\ r.sequence \in Nat
           /\ \A r, s \in rows : r.sequence = s.sequence => r = s
BY DEF LP!LedgerInv, LP!TypeOK, LP!AuditEvent, LP!ChainIntact, LP!NoFork

\* b is written right after everything stored, which ended at last.
Appended(last, b) ==
    /\ rows \subseteq rows'
    /\ \A r \in rows : r.sequence <= last
    /\ \A e \in rows' \ rows : \E i \in 1..Len(b) : e.entry = b[i] /\ e.sequence = last + i
    /\ \A i \in 1..Len(b) : \E e \in rows' : e.entry = b[i] /\ e.sequence = last + i

\* A commit appends its batch.
LEMMA CommitAppends ==
    ASSUME LP!LedgerInv, NEW n \in Request, Ledger!Commit(n)
    PROVE  /\ batch[n] \in Seq(Entry) \ {<< >>}
           /\ batch' = [batch EXCEPT ![n] = << >>]
           /\ \E last \in Nat : Appended(last, batch[n])
<1> DEFINE h == head[n]
           b == batch[n]
           new == LP!Chained(h, b)
           last == h.sequence
<1>1. /\ LP!Appending(n)
      /\ LP!Unique(rows, new)
      /\ rows' = rows \cup new
      /\ batch' = [batch EXCEPT ![n] = << >>]
  BY SameLedger DEF LP!Commit
<1>2. b \in Seq(Entry) \ {<< >>} /\ h \in LP!Position
  BY <1>1 DEF LP!LedgerInv, LP!TypeOK, LP!Appending
<1>3. last \in Nat /\ Len(b) \in Nat
  BY <1>2, LenProperties DEF LP!Position
<1>4. h \in LP!Heads
  BY <1>1, LP!FreshIffUnique, LedgerAssumptions
<1> HIDE DEF b, h, new
<1>5. \A r \in rows : r.sequence <= last
  <2>1. CASE rows = {}
    BY <2>1
  <2>2. CASE rows # {}
    BY <1>4, <2>2 DEF LP!Heads
  <2> QED
    BY <2>1, <2>2
<1>6. /\ \A e \in new : /\ e.sequence \in last + 1 .. last + Len(b)
                        /\ e.entry = b[e.sequence - last]
      /\ \A j \in last + 1 .. last + Len(b) : \E e \in new : e.sequence = j
  BY <1>2, LP!ChainedRows, LedgerAssumptions DEF new
<1>7. ASSUME NEW e \in new
      PROVE  \E i \in 1..Len(b) : e.entry = b[i] /\ e.sequence = last + i
  <2>1. e.sequence - last \in 1..Len(b) /\ e.sequence = last + (e.sequence - last)
    BY <1>3, <1>6
  <2> QED
    BY <1>6, <2>1
<1>8. ASSUME NEW i \in 1..Len(b)
      PROVE  \E e \in new : e.entry = b[i] /\ e.sequence = last + i
  <2>1. last + i \in last + 1 .. last + Len(b) /\ (last + i) - last = i
    BY <1>3
  <2>2. PICK e \in new : e.sequence = last + i
    BY <1>6, <2>1
  <2>3. e.entry = b[e.sequence - last]
    BY <1>6
  <2> QED
    BY <2>1, <2>2, <2>3
<1>9. Appended(last, b)
  BY <1>1, <1>5, <1>7, <1>8 DEF Appended
<1> QED
  BY <1>1, <1>2, <1>3, <1>9 DEF b

-----------------------------------------------------------------------------
(***************************************************************************)
(* The invariant                                                           *)
(***************************************************************************)
Type(r) == r.entry.type

\* What the engine recorded is about a run whose core is on record.
EngineRow(r) ==
    LET run == r.entry.run
    IN  /\ r.entry.baseline = None
        /\ IsRun(run)
        /\ pc[run] \notin {"unsent", "core"}
        /\ r.entry.profile = Id[request[run].profile]
        /\ Type(r) = "RUN_COMPLETED" =>
              r.entry.about = Outstanding[r.entry.version][request[run].profile]

\* What a composition recorded is about a run already offered, and what was
\* asked of it.
HumanRow(r) ==
    LET run == r.entry.run
        n == r.entry.baseline
    IN  /\ n \in Request
        /\ ~IsRun(n)
        /\ request[n].run = run
        /\ IsRun(run)
        /\ pc[run] = "ok"
        /\ pc[n] \in {"answer", "ok", "lost"}
        /\ r.entry.profile = Id[request[n].profile]
        /\ Type(r) = "CLOSED" => r.entry.about = request[n].choices.closed
        /\ Type(r) = "BASELINE_SIGNED" =>
              Outstanding[r.entry.version][request[n].profile] \subseteq request[n].choices.closed

RowsSayWhatWasAsked ==
    \A r \in rows :
        /\ Type(r) \in EngineEvent => EngineRow(r)
        /\ Type(r) \in HumanEvent => HumanRow(r)

\* s starts the run of r.
StartOf(s, r) ==
    /\ s.entry.run = r.entry.run
    /\ s.sequence <= r.sequence
    /\ Type(r) \in {"RUN_COMPLETED", "BASELINE_SIGNED"} => s.entry.version = r.entry.version
    /\ Type(r) = "BASELINE_SIGNED" => s.entry.profile = r.entry.profile

\* Every run is on record from its one start on.
RunsHaveAStart ==
    /\ \A r \in rows : \E s \in Starts : StartOf(s, r)
    /\ \A s, t \in Starts : s.entry.run = t.entry.run => s = t

\* A composition is on record whole: with its signature, and with what it closed.
CompositionsAreWhole ==
    /\ \A r \in rows : Type(r) \in HumanEvent =>
          \E s \in Signatures : s.entry.baseline = r.entry.baseline
    /\ \A s \in Signatures : request[s.entry.baseline].choices.closed # {} =>
          \E r \in rows : Type(r) = "CLOSED" /\ r.entry.baseline = s.entry.baseline

\* What a composition under way was let through on, and which still holds: the
\* ledger only grows and the versions are those of this process.
Checked(n) ==
    LET run == request[n].run
        profile == request[n].profile
    IN  /\ run \in Request /\ run # n
        /\ IsRun(run) /\ pc[run] = "ok"
        /\ \E s \in Starts : /\ s.entry.run = run
                             /\ s.entry.profile = Id[profile]
                             /\ s.entry.version = deployed
        /\ Outstanding[deployed][profile] \subseteq request[n].choices.closed
        /\ \E r \in rows : request[n].saw <= r.sequence
        /\ \A s \in Signatures : s.entry.run = run => request[n].saw < s.sequence

\* What holds of a request at each await.
Stage(n) ==
    /\ pc[n] = "unsent" => request[n].run = None
    /\ pc[n] \in {"core", "retrieve", "widen"} => IsRun(n)
    /\ pc[n] \in {"retrieve", "widen"} => \E s \in Starts : s.entry.run = n
    /\ pc[n] \in {"answer", "ok"} /\ IsRun(n) => \E s \in Starts : s.entry.run = n
    /\ pc[n] = "sign" => Checked(n)
    /\ pc[n] \in {"answer", "ok"} => IsRun(n) \/ \E s \in Signatures : s.entry.baseline = n

FlowInv ==
    /\ LP!LedgerInv
    /\ IsFiniteSet(rows)
    /\ FlowTypes
    /\ Holding
    /\ \A n \in Request : Stage(n)
    /\ RowsSayWhatWasAsked
    /\ RunsHaveAStart
    /\ CompositionsAreWhole
    /\ EngineBeforeHuman
    /\ SignedAgainOnlyByOverlap

-----------------------------------------------------------------------------
(***************************************************************************)
(* Types, and the ledger                                                   *)
(***************************************************************************)
\* A row is of the engine or of a composition, and says of which run.
LEMMA RowTypes ==
    ASSUME LP!LedgerInv, NEW r \in rows
    PROVE  /\ r.sequence \in Nat
           /\ r.entry.run \in Request
           /\ r.entry.baseline \in Request \cup {None}
           /\ r.entry.version \in Version
           /\ r.entry.about \in SUBSET Capability
           /\ Type(r) \in EngineEvent \cup HumanEvent
           /\ ~(Type(r) \in EngineEvent /\ Type(r) \in HumanEvent)
<1>1. r.sequence \in Nat /\ r.entry \in Entry
  BY RowsOfLedger
<1> QED
  BY <1>1 DEF Entry, EventType, EngineEvent, HumanEvent, Type

\* A request being served knows its run.
LEMMA WritingHasARun ==
    ASSUME FlowInv, NEW n \in Request, pc[n] \in Writing
    PROVE  request[n].run \in Request
BY DEF FlowInv, Stage, Writing, Checked, IsRun

\* There is something to append at each stage that appends.
LEMMA WorkIsABatch ==
    ASSUME FlowInv, NEW n \in Request, pc[n] \in Writing
    PROVE  Work(n) \in Seq(Entry) \ {<< >>}
<1>1. request[n].run \in Request
  BY WritingHasARun
<1>2. Work(n) \in Seq(Entry)
  BY <1>1, EntriesOfWork DEF FlowInv
<1>3. CASE pc[n] = "core"
  <2>1. Len(Work(n)) = 2
    BY <1>1, <1>3, EntriesOfWork DEF FlowInv
  <2>2. Work(n) # << >>
    BY <2>1
  <2> QED
    BY <1>2, <2>2
<1>4. CASE pc[n] = "widen"
  BY <1>2, <1>4 DEF Work, RetrievalTrail
<1>5. CASE pc[n] = "sign"
  <2>1. Range(Work(n)) # {}
    BY <1>1, <1>5, EntriesOfWork DEF FlowInv
  <2>2. Range(<< >>) = {}
    BY DEF Range
  <2> QED
    BY <1>2, <2>1, <2>2
<1> QED
  BY <1>3, <1>4, <1>5 DEF Writing

\* Every step of a request is a step of the ledger, or leaves it alone.
LEMMA LedgerSteps == FlowInv /\ [Next]_vars => [LP!Next]_(LP!vars)
<1> SUFFICES ASSUME FlowInv, [Next]_vars PROVE [LP!Next]_(LP!vars)
  OBVIOUS
<1>1. ASSUME UNCHANGED ledgerVars PROVE UNCHANGED LP!vars
  BY <1>1 DEF ledgerVars, LP!vars
<1>2. ASSUME NEW n \in Request, ReadHead(n) PROVE LP!Next
  BY <1>2, SameLedger, WorkIsABatch DEF ReadHead, Writing
<1>3. ASSUME NEW n \in Request, Commit(n) \/ Refuse(n) \/ Abort(n) PROVE LP!Next
  BY <1>3, SameLedger DEF Commit, Refuse, Abort
<1>4. ASSUME Restart PROVE LP!Next
  BY <1>4, SameLedger DEF Restart
<1>5. ASSUME NEW n \in Request,
             \/ \E p \in Profile : AskCandidates(n, p)
             \/ \E run \in Offered \cup {None}, p \in Profile, c \in Choices :
                   Compose(n, run, p, c) \/ TurnAway(n, run, p, c)
             \/ Retrieve(n)
             \/ Answer(n)
             \/ ExplainFails(n)
      PROVE  UNCHANGED LP!vars
  BY <1>1, <1>5 DEF AskCandidates, Compose, TurnAway, Retrieve, Answer, ExplainFails
<1>6. ASSUME UNCHANGED vars PROVE UNCHANGED LP!vars
  BY <1>6 DEF vars, LP!vars
<1> QED
  BY <1>2, <1>3, <1>4, <1>5, <1>6 DEF Next, Step, Serve

\* So the ledger stays what it is proved to be on its own.
LEMMA LedgerKept == FlowInv /\ [Next]_vars => LP!LedgerInv'
BY LedgerSteps, LP!LedgerStep, LedgerAssumptions DEF FlowInv

\* Every step keeps the types of the requests.
LEMMA TypesKept == FlowInv /\ [Next]_vars => FlowTypes'
<1> SUFFICES ASSUME FlowInv, [Next]_vars PROVE FlowTypes'
  OBVIOUS
<1>0. FlowTypes
  BY DEF FlowInv
<1>1. ASSUME NEW n \in Request, NEW p \in Profile, AskCandidates(n, p) PROVE FlowTypes'
  <2>1. [run |-> n, profile |-> p, choices |-> NoChoices, saw |-> 0] \in RequestRecord
    BY DEF RequestRecord
  <2> QED
    BY <1>0, <1>1, <2>1 DEF AskCandidates, FlowTypes, Live
<1>2. ASSUME NEW n \in Request, NEW run \in Offered \cup {None}, NEW p \in Profile,
             NEW c \in Choices, Compose(n, run, p, c)
      PROVE  FlowTypes'
  <2>1. Cardinality(rows) \in Nat
    BY FS_CardinalityType DEF FlowInv
  <2>2. [run |-> run, profile |-> p, choices |-> c, saw |-> Cardinality(rows)] \in RequestRecord
    BY <2>1 DEF RequestRecord, Offered
  <2> QED
    BY <1>0, <1>2, <2>2 DEF Compose, FlowTypes, Live
<1>3. ASSUME NEW n \in Request, NEW run \in Offered \cup {None}, NEW p \in Profile,
             NEW c \in Choices, TurnAway(n, run, p, c)
      PROVE  FlowTypes'
  BY <1>0, <1>3 DEF TurnAway, FlowTypes, Ended
<1>4. ASSUME NEW n \in Request, Serve(n) \/ Abort(n) \/ ExplainFails(n) PROVE FlowTypes'
  BY <1>0, <1>4 DEF Serve, Retrieve, ReadHead, Commit, Refuse, Answer, Abort, ExplainFails,
                    FlowTypes, Live, Ended
<1>5. ASSUME Restart PROVE FlowTypes'
  BY <1>0, <1>5 DEF Restart, FlowTypes, Ended
<1>6. ASSUME UNCHANGED vars PROVE FlowTypes'
  BY <1>0, <1>6 DEF vars, FlowTypes
<1> QED
  BY <1>1, <1>2, <1>3, <1>4, <1>5, <1>6 DEF Next, Step

-----------------------------------------------------------------------------
(***************************************************************************)
(* Steps that record nothing                                               *)
(***************************************************************************)
OthersUnchanged(n) ==
    /\ deployed' = deployed
    /\ \A m \in Request \ {n} :
          pc'[m] = pc[m] /\ request'[m] = request[m] /\ batch'[m] = batch[m]

\* What is recorded about a request is about one that has arrived: it is asked
\* for nothing else, and ends as it answered; but a run may yet fail.
Onward ==
    \A n \in Request :
        /\ pc[n] # "unsent" => pc'[n] # "unsent" /\ request'[n] = request[n]
        /\ pc[n] \notin {"unsent", "core"} => pc'[n] \notin {"unsent", "core"}
        /\ pc[n] = "ok" => pc'[n] = "ok"
        /\ pc[n] \in {"answer", "ok", "lost"} /\ ~IsRun(n) =>
              pc'[n] \in {"answer", "ok", "lost"}

\* A row keeps saying what was asked.
LEMMA RowKept ==
    ASSUME FlowInv, Onward, NEW r \in rows
    PROVE  /\ Type(r) \in EngineEvent => EngineRow(r)'
           /\ Type(r) \in HumanEvent => HumanRow(r)'
<1>1. r.entry.run \in Request
  BY RowTypes DEF FlowInv
<1>2. ASSUME Type(r) \in EngineEvent PROVE EngineRow(r)'
  <2>1. EngineRow(r)
    BY <1>2 DEF FlowInv, RowsSayWhatWasAsked
  <2> QED
    BY <1>1, <2>1 DEF EngineRow, Onward, IsRun, Type
<1>3. ASSUME Type(r) \in HumanEvent PROVE HumanRow(r)'
  <2>1. HumanRow(r)
    BY <1>3 DEF FlowInv, RowsSayWhatWasAsked
  <2> QED
    BY <1>1, <2>1 DEF HumanRow, Onward, IsRun, Type
<1> QED
  BY <1>2, <1>3

\* What was asked of a composition on record does not change.
LEMMA AskedKept ==
    ASSUME FlowInv, Onward, NEW s \in Signatures
    PROVE  /\ s.entry.baseline \in Request
           /\ request'[s.entry.baseline] = request[s.entry.baseline]
<1>1. s \in rows /\ Type(s) \in HumanEvent
  BY DEF Signatures, Type, HumanEvent
<1>2. HumanRow(s)
  BY <1>1 DEF FlowInv, RowsSayWhatWasAsked
<1> QED
  BY <1>2 DEF HumanRow, Onward

\* While nothing is recorded, the rows keep what they say.
LEMMA LedgerStands ==
    ASSUME FlowInv, Onward, rows' = rows
    PROVE  /\ IsFiniteSet(rows)'
           /\ RowsSayWhatWasAsked'
           /\ RunsHaveAStart'
           /\ CompositionsAreWhole'
           /\ EngineBeforeHuman'
           /\ SignedAgainOnlyByOverlap'
<1>1. IsFiniteSet(rows)'
  BY DEF FlowInv
<1>2. RowsSayWhatWasAsked'
  BY RowKept DEF RowsSayWhatWasAsked, Type
<1>3. RunsHaveAStart'
  BY DEF FlowInv, RunsHaveAStart, Starts, StartOf, Type
<1>4. CompositionsAreWhole'
  <2>1. Signatures' = Signatures
    BY DEF Signatures
  <2> QED
    BY <2>1, AskedKept DEF FlowInv, CompositionsAreWhole, Type
<1>5. EngineBeforeHuman'
  BY DEF FlowInv, EngineBeforeHuman
<1>6. SignedAgainOnlyByOverlap'
  <2>1. Signatures' = Signatures
    BY DEF Signatures
  <2> QED
    BY <2>1, AskedKept DEF FlowInv, SignedAgainOnlyByOverlap
<1> QED
  BY <1>1, <1>2, <1>3, <1>4, <1>5, <1>6

\* A request that does nothing stays where it is, whatever is recorded.
LEMMA StageKept ==
    ASSUME FlowInv, Onward, NEW n \in Request,
           pc'[n] = pc[n], request'[n] = request[n], deployed' = deployed,
           rows \subseteq rows',
           \A r \in rows, e \in rows' \ rows : r.sequence < e.sequence,
           \A e \in rows' : e.sequence \in Nat
    PROVE  Stage(n)'
<1>1. Stage(n)
  BY DEF FlowInv
<1>2. Starts \subseteq Starts' /\ Signatures \subseteq Signatures'
  BY DEF Starts, Signatures
<1>3. ASSUME pc[n] = "sign" PROVE Checked(n)'
  <2>1. Checked(n)
    BY <1>1, <1>3 DEF Stage
  <2>2. IsRun(request[n].run)' /\ pc'[request[n].run] = "ok"
    BY <2>1 DEF Checked, Onward, IsRun
  <2>3. request[n].saw \in Nat
    BY DEF FlowInv, FlowTypes, RequestRecord
  <2>4. PICK r \in rows : request[n].saw <= r.sequence
    BY <2>1 DEF Checked
  <2>5. ASSUME NEW s \in Signatures', s.entry.run = request[n].run
        PROVE  request[n].saw < s.sequence
    <3>1. CASE s \in rows
      BY <2>1, <2>5, <3>1 DEF Checked, Signatures
    <3>2. CASE s \notin rows
      <4>1. s \in rows' \ rows
        BY <3>2 DEF Signatures
      <4>2. r.sequence < s.sequence /\ r.sequence \in Nat /\ s.sequence \in Nat
        BY <4>1
      <4> QED
        BY <2>3, <2>4, <4>2
    <3> QED
      BY <3>1, <3>2
  <2>6. \E t \in rows' : request[n].saw <= t.sequence
    BY <2>4
  <2>7. \E s \in Starts' : /\ s.entry.run = request[n].run
                           /\ s.entry.profile = Id[request[n].profile]
                           /\ s.entry.version = deployed
    BY <1>2, <2>1 DEF Checked
  <2> QED
    BY <2>1, <2>2, <2>5, <2>6, <2>7 DEF Checked
<1> QED
  BY <1>1, <1>2, <1>3 DEF Stage, IsRun

\* Nothing but its own request moves what a request is appending.
LEMMA HoldingKept ==
    ASSUME FlowInv, NEW n \in Request, OthersUnchanged(n),
           batch'[n] # << >> => pc'[n] \in Writing /\ batch'[n] = Work(n)'
    PROVE  Holding'
<1>1. ASSUME NEW m \in Request \ {n} PROVE Work(m)' = Work(m)
  <2>1. pc'[m] = pc[m] /\ request'[m] = request[m] /\ deployed' = deployed
    BY DEF OthersUnchanged
  <2> QED
    BY <2>1, Zenon DEF Work
<1> QED
  BY <1>1 DEF FlowInv, Holding, OthersUnchanged

\* What a step of request n that records nothing may do.
Quiet(n) ==
    /\ rows' = rows
    /\ OthersUnchanged(n)
    /\ pc'[n] # "unsent"
    /\ pc[n] \in {"unsent", "core"} \/ pc'[n] \notin {"unsent", "core"}
    /\ pc[n] = "unsent" \/ request'[n] = request[n]
    /\ pc[n] \in {"answer", "ok", "lost"} =>
          /\ pc[n] = "answer"
          /\ pc'[n] = "ok" \/ (IsRun(n) /\ pc'[n] = "failed")
    /\ batch'[n] # << >> => pc'[n] \in Writing /\ batch'[n] = Work(n)'

\* A quiet step keeps the invariant, if its own request does.
LEMMA QuietStep ==
    ASSUME FlowInv, LP!LedgerInv', FlowTypes', NEW n \in Request, Quiet(n),
           Onward => Stage(n)'
    PROVE  FlowInv'
<1>1. Onward
  BY DEF Quiet, Onward, OthersUnchanged
<1>2. \A m \in Request \ {n} : Stage(m)'
  <2>1. ASSUME NEW m \in Request \ {n} PROVE Stage(m)'
    <3>1. pc'[m] = pc[m] /\ request'[m] = request[m] /\ deployed' = deployed /\ rows' = rows
      BY DEF Quiet, OthersUnchanged
    <3>2. \A e \in rows' : e.sequence \in Nat
      BY <3>1, RowsOfLedger DEF FlowInv
    <3> QED
      BY <1>1, <3>1, <3>2, StageKept
  <2> QED
    BY <2>1
<1>3. Stage(n)'
  BY <1>1
<1>4. Holding'
  BY HoldingKept DEF Quiet
<1>5. rows' = rows
  BY DEF Quiet
<1> QED
  BY <1>1, <1>2, <1>3, <1>4, <1>5, LedgerStands DEF FlowInv

\* The first row of a run is its start.
LEMMA FirstIsStart ==
    ASSUME FlowInv, NEW run, ByRun(run) # {}
    PROVE  run \in Request /\ First(ByRun(run)) \in Starts /\ First(ByRun(run)).entry.run = run
<1>1. PICK r \in rows : r.entry.run = run
  BY DEF ByRun
<1>2. PICK s \in Starts : s.entry.run = run /\ s.sequence <= r.sequence
  BY <1>1 DEF FlowInv, RunsHaveAStart, StartOf
<1>3. s \in ByRun(run)
  BY <1>2 DEF ByRun, Starts
<1>4. \A t \in ByRun(run) : s.sequence <= t.sequence
  <2>1. ASSUME NEW t \in rows, t.entry.run = run PROVE s.sequence <= t.sequence
    <3>1. PICK u \in Starts : u.entry.run = run /\ u.sequence <= t.sequence
      BY <2>1 DEF FlowInv, RunsHaveAStart, StartOf
    <3>2. u = s
      BY <1>2, <3>1 DEF FlowInv, RunsHaveAStart
    <3> QED
      BY <3>1, <3>2
  <2> QED
    BY <2>1 DEF ByRun
<1>5. /\ First(ByRun(run)) \in ByRun(run)
      /\ \A t \in ByRun(run) : First(ByRun(run)).sequence <= t.sequence
  BY <1>3, <1>4 DEF First
<1>6. First(ByRun(run)) = s
  <2>1. First(ByRun(run)).sequence <= s.sequence /\ s.sequence <= First(ByRun(run)).sequence
    BY <1>3, <1>4, <1>5
  <2>2. First(ByRun(run)) \in rows /\ s \in rows
    BY <1>3, <1>5 DEF ByRun
  <2> QED
    BY <2>1, <2>2, RowsOfLedger DEF FlowInv
<1> QED
  BY <1>1, <1>2, <1>6, RowTypes DEF FlowInv

\* There are no more rows than positions: some row stands as far as they count.
LEMMA RowsReachTheirCount ==
    ASSUME LP!LedgerInv, IsFiniteSet(rows), rows # {}
    PROVE  Cardinality(rows) \in Nat /\ \E r \in rows : Cardinality(rows) <= r.sequence
<1> DEFINE c == Cardinality(rows)
           f == [r \in rows |-> r.sequence]
<1>1. c \in Nat
  BY FS_CardinalityType
<1> SUFFICES ASSUME \A r \in rows : ~(c <= r.sequence) PROVE FALSE
  BY <1>1
<1>2. \A r \in rows : r.sequence \in 1..(c - 1)
  BY <1>1, RowsOfLedger DEF LP!LedgerInv, LP!ChainIntact, LP!Contiguous
<1>3. f \in Injection(rows, 1..(c - 1))
  BY <1>2, RowsOfLedger DEF Injection, IsInjective
<1>4. /\ IsFiniteSet(1..(c - 1))
      /\ Cardinality(1..(c - 1)) = IF 1 > c - 1 THEN 0 ELSE c - 1
  <2>1. 1 \in Int /\ c - 1 \in Int /\ c - 1 - 1 + 1 = c - 1
    BY <1>1
  <2> QED
    BY <2>1, FS_Interval
<1>5. c <= Cardinality(1..(c - 1))
  BY <1>3, <1>4, FS_Injection
<1>6. c # 0
  BY FS_EmptySet
<1> QED
  BY <1>1, <1>4, <1>5, <1>6

-----------------------------------------------------------------------------
\* A run is named, and nothing is on record for it yet.
LEMMA AskCandidatesKept ==
    ASSUME FlowInv, LP!LedgerInv', FlowTypes', NEW n \in Request, NEW p \in Profile,
           AskCandidates(n, p)
    PROVE  FlowInv'
<1>1. /\ pc[n] = "unsent" /\ pc'[n] = "core" /\ request'[n].run = n
      /\ rows' = rows /\ batch' = batch /\ OthersUnchanged(n)
  BY DEF AskCandidates, NextToArrive, ledgerVars, OthersUnchanged, FlowInv, FlowTypes
<1>2. batch'[n] = << >>
  BY <1>1 DEF FlowInv, Holding, Writing
<1>3. Stage(n)'
  BY <1>1 DEF Stage, IsRun
<1>4. Quiet(n)
  BY <1>1, <1>2 DEF Quiet
<1> QED
  BY <1>3, <1>4, QuietStep

\* Retrieval ends one way or another; the core of its run is on record.
LEMMA RetrieveKept ==
    ASSUME FlowInv, LP!LedgerInv', FlowTypes', NEW n \in Request, Retrieve(n)
    PROVE  FlowInv'
<1>1. /\ pc[n] = "retrieve" /\ pc'[n] \in {"widen", "answer", "failed"}
      /\ rows' = rows /\ batch' = batch /\ request' = request /\ OthersUnchanged(n)
  BY DEF Retrieve, ledgerVars, OthersUnchanged, FlowInv, FlowTypes
<1>2. batch'[n] = << >>
  BY <1>1 DEF FlowInv, Holding, Writing
<1>3. Stage(n)'
  BY <1>1 DEF Stage, IsRun, FlowInv, Starts
<1>4. Quiet(n)
  BY <1>1, <1>2 DEF Quiet
<1> QED
  BY <1>3, <1>4, QuietStep

\* What a composition was let through on is what the ledger held.
LEMMA ComposeKept ==
    ASSUME FlowInv, LP!LedgerInv', FlowTypes', NEW n \in Request,
           NEW run \in Offered \cup {None}, NEW p \in Profile, NEW c \in Choices,
           Compose(n, run, p, c)
    PROVE  FlowInv'
<1>1. /\ pc[n] = "unsent" /\ pc'[n] = "sign"
      /\ rows' = rows /\ batch' = batch /\ OthersUnchanged(n)
      /\ request'[n] = [run |-> run, profile |-> p, choices |-> c, saw |-> Cardinality(rows)]
  BY DEF Compose, NextToArrive, ledgerVars, OthersUnchanged, FlowInv, FlowTypes
<1>2. batch'[n] = << >>
  BY <1>1 DEF FlowInv, Holding, Writing
<1>3. /\ ByRun(run) # {}
      /\ First(ByRun(run)).entry.profile = Id[p]
      /\ First(ByRun(run)).entry.version = deployed
      /\ \A r \in ByRun(run) : r.entry.type # "BASELINE_SIGNED"
      /\ Outstanding[deployed][p] \subseteq c.closed
  BY DEF Compose, Admitted, CheckRun, CheckVersions, CheckMandates
<1>4. run \in Request /\ First(ByRun(run)) \in Starts /\ First(ByRun(run)).entry.run = run
  BY <1>3, FirstIsStart
<1>5. pc[run] = "ok" /\ IsRun(run) /\ run # n
  BY <1>1, <1>4 DEF Offered, Request, None
<1>6. rows # {}
  BY <1>3 DEF ByRun
<1>7. PICK r \in rows : Cardinality(rows) <= r.sequence
  BY <1>6, RowsReachTheirCount DEF FlowInv
<1>8. ASSUME Onward PROVE Checked(n)'
  <2>1. IsRun(run)' /\ pc'[run] = "ok"
    BY <1>4, <1>5, <1>8 DEF Onward, IsRun
  <2>2. \E s \in Starts' : s.entry.run = run /\ s.entry.profile = Id[p] /\ s.entry.version = deployed'
    BY <1>1, <1>3, <1>4 DEF Starts, OthersUnchanged
  <2>3. \A s \in Signatures' : s.entry.run # run
    BY <1>1, <1>3 DEF Signatures, ByRun
  <2>4. /\ request'[n].run = run /\ request'[n].profile = p
        /\ request'[n].choices = c /\ request'[n].saw = Cardinality(rows)
    BY <1>1
  <2>5. deployed' = deployed
    BY <1>1 DEF OthersUnchanged
  <2> QED
    BY <1>1, <1>3, <1>4, <1>5, <1>7, <2>1, <2>2, <2>3, <2>4, <2>5 DEF Checked
<1>9. Onward => Stage(n)'
  BY <1>1, <1>8 DEF Stage
<1>10. Quiet(n)
  BY <1>1, <1>2 DEF Quiet
<1> QED
  BY <1>9, <1>10, QuietStep

\* A composition that is turned away leaves nothing.
LEMMA TurnAwayKept ==
    ASSUME FlowInv, LP!LedgerInv', FlowTypes', NEW n \in Request,
           NEW run \in Offered \cup {None}, NEW p \in Profile, NEW c \in Choices,
           TurnAway(n, run, p, c)
    PROVE  FlowInv'
<1>1. /\ pc[n] = "unsent" /\ pc'[n] = "refused"
      /\ rows' = rows /\ batch' = batch /\ request' = request /\ OthersUnchanged(n)
  BY DEF TurnAway, NextToArrive, ledgerVars, OthersUnchanged, FlowInv, FlowTypes
<1>2. batch'[n] = << >>
  BY <1>1 DEF FlowInv, Holding, Writing
<1>3. Stage(n)'
  BY <1>1 DEF Stage
<1>4. Quiet(n)
  BY <1>1, <1>2 DEF Quiet
<1> QED
  BY <1>3, <1>4, QuietStep

\* A request takes up the batch of its stage.
LEMMA ReadHeadKept ==
    ASSUME FlowInv, LP!LedgerInv', FlowTypes', NEW n \in Request, ReadHead(n)
    PROVE  FlowInv'
<1>0. batch \in [Request -> (Seq(Entry) \ {<< >>}) \cup {<< >>}]
  BY DEF FlowInv, LP!LedgerInv, LP!TypeOK
<1>1. /\ pc[n] \in Writing /\ pc' = pc /\ request' = request /\ deployed' = deployed
      /\ rows' = rows /\ batch' = [batch EXCEPT ![n] = Work(n)]
  BY DEF ReadHead, Ledger!ReadHead, Writing
<1>2. OthersUnchanged(n)
  BY <1>0, <1>1 DEF OthersUnchanged
<1>3. batch'[n] = Work(n) /\ Work(n)' = Work(n)
  <2>1. Work(n)' = Work(n)
    BY <1>1, Zenon DEF Work
  <2> QED
    BY <1>0, <1>1, <2>1
<1>4. Onward => Stage(n)'
  BY <1>1, StageKept, RowsOfLedger DEF FlowInv
<1>5. Quiet(n)
  BY <1>1, <1>2, <1>3 DEF Quiet, Writing
<1> QED
  BY <1>4, <1>5, QuietStep

\* An append that fails ends its request and leaves nothing.
LEMMA FailureKept ==
    ASSUME FlowInv, LP!LedgerInv', FlowTypes', NEW n \in Request, Refuse(n) \/ Abort(n)
    PROVE  FlowInv'
<1>0. batch \in [Request -> (Seq(Entry) \ {<< >>}) \cup {<< >>}]
  BY DEF FlowInv, LP!LedgerInv, LP!TypeOK
<1>1. /\ batch[n] # << >> /\ batch' = [batch EXCEPT ![n] = << >>]
      /\ rows' = rows /\ request' = request /\ deployed' = deployed
      /\ pc' = [pc EXCEPT ![n] = "failed"]
  BY DEF Refuse, Abort, Ledger!Refuse, Ledger!Abort, Ledger!Appending
<1>2. OthersUnchanged(n) /\ pc'[n] = "failed" /\ batch'[n] = << >>
  BY <1>0, <1>1 DEF OthersUnchanged, FlowInv, FlowTypes
<1>3. pc[n] \in Writing
  BY <1>1 DEF FlowInv, Holding
<1>4. Stage(n)'
  BY <1>2 DEF Stage
<1>5. Quiet(n)
  BY <1>1, <1>2, <1>3 DEF Quiet, Writing
<1> QED
  BY <1>4, <1>5, QuietStep

\* A request is answered after its batch is on record.
LEMMA AnswerKept ==
    ASSUME FlowInv, LP!LedgerInv', FlowTypes', NEW n \in Request, Answer(n)
    PROVE  FlowInv'
<1>1. /\ pc[n] = "answer" /\ pc'[n] = "ok"
      /\ rows' = rows /\ batch' = batch /\ request' = request /\ OthersUnchanged(n)
  BY DEF Answer, ledgerVars, OthersUnchanged, FlowInv, FlowTypes
<1>2. batch'[n] = << >>
  BY <1>1 DEF FlowInv, Holding, Writing
<1>3. Stage(n)'
  BY <1>1 DEF Stage, IsRun, FlowInv, Starts, Signatures
<1>4. Quiet(n)
  BY <1>1, <1>2 DEF Quiet
<1> QED
  BY <1>3, <1>4, QuietStep

\* A run that fails once it is on record stays there.
LEMMA ExplainFailsKept ==
    ASSUME FlowInv, LP!LedgerInv', FlowTypes', NEW n \in Request, ExplainFails(n)
    PROVE  FlowInv'
<1>1. /\ pc[n] = "answer" /\ IsRun(n) /\ pc'[n] = "failed"
      /\ rows' = rows /\ batch' = batch /\ request' = request /\ OthersUnchanged(n)
  BY DEF ExplainFails, ledgerVars, OthersUnchanged, FlowInv, FlowTypes
<1>2. batch'[n] = << >>
  BY <1>1 DEF FlowInv, Holding, Writing
<1>3. Stage(n)'
  BY <1>1 DEF Stage
<1>4. Quiet(n)
  BY <1>1, <1>2 DEF Quiet
<1> QED
  BY <1>3, <1>4, QuietStep

\* The process dies: its requests are lost, and the ledger stands.
LEMMA RestartKept ==
    ASSUME FlowInv, LP!LedgerInv', FlowTypes', Restart
    PROVE  FlowInv'
<1>1. /\ rows' = rows /\ request' = request /\ batch' = [n \in Request |-> << >>]
      /\ pc' = [n \in Request |-> IF pc[n] \in Live THEN "lost" ELSE pc[n]]
  BY DEF Restart, Ledger!Restart
<1>2. \A n \in Request : \/ pc[n] \in Live /\ pc'[n] = "lost"
                         \/ pc[n] \notin Live /\ pc'[n] = pc[n]
  BY <1>1
<1>3. Onward
  BY <1>1, <1>2 DEF Onward, Live
<1>4. Holding'
  BY <1>1 DEF Holding
<1>5. ASSUME NEW n \in Request PROVE Stage(n)'
  <2>1. Stage(n)
    BY DEF FlowInv
  <2>2. Signatures' = Signatures /\ Starts' = Starts
    BY <1>1 DEF Signatures, Starts
  <2> QED
    BY <1>1, <1>2, <2>1, <2>2 DEF Stage, IsRun, Live
<1> QED
  BY <1>1, <1>3, <1>4, <1>5, LedgerStands DEF FlowInv

\* Before any request the ledger is empty.
LEMMA FlowStart == Init => FlowInv
<1> SUFFICES ASSUME Init PROVE FlowInv
  OBVIOUS
<1>1. LP!LedgerInv
  BY SameLedger, LP!LedgerInit, LedgerAssumptions DEF Init
<1>2. rows = {} /\ batch = [n \in Request |-> << >>]
  BY DEF Init, Ledger!Init
<1>3. NoRequest \in RequestRecord
  BY ProfileAssumption DEF NoRequest, RequestRecord
<1>4. FlowTypes
  BY <1>3 DEF Init, FlowTypes
<1>5. Holding
  BY <1>2 DEF Holding
<1>6. \A n \in Request : Stage(n)
  BY DEF Init, Stage, NoRequest
<1>7. IsFiniteSet(rows)
  BY <1>2, FS_EmptySet
<1> QED
  BY <1>1, <1>2, <1>4, <1>5, <1>6, <1>7
     DEF FlowInv, RowsSayWhatWasAsked, RunsHaveAStart, CompositionsAreWhole, EngineBeforeHuman,
         SignedAgainOnlyByOverlap, Starts, Signatures

-----------------------------------------------------------------------------
(***************************************************************************)
(* Steps that record                                                       *)
(***************************************************************************)

\* The rows of a commit follow everything stored, and hold what its request had
\* to append.
LEMMA CommitRecords ==
    ASSUME FlowInv, LP!LedgerInv', FlowTypes', NEW n \in Request, Commit(n)
    PROVE  /\ pc[n] \in Writing
           /\ request' = request
           /\ pc' = [pc EXCEPT ![n] = IF pc[n] = "core" THEN "retrieve" ELSE "answer"]
           /\ OthersUnchanged(n)
           /\ Onward
           /\ Holding'
           /\ Work(n) \in Seq(Entry) \ {<< >>}
           /\ \E last \in Nat : Appended(last, Work(n))
<1>0. batch \in [Request -> (Seq(Entry) \ {<< >>}) \cup {<< >>}]
  BY DEF FlowInv, LP!LedgerInv, LP!TypeOK
<1>1. Ledger!Commit(n)
  BY DEF Commit
<1>2. /\ batch[n] \in Seq(Entry) \ {<< >>}
      /\ batch' = [batch EXCEPT ![n] = << >>]
      /\ \E last \in Nat : Appended(last, batch[n])
  BY <1>1, CommitAppends DEF FlowInv
<1>3. pc[n] \in Writing /\ batch[n] = Work(n)
  BY <1>2 DEF FlowInv, Holding
<1>4. /\ request' = request /\ deployed' = deployed
      /\ pc' = [pc EXCEPT ![n] = IF pc[n] = "core" THEN "retrieve" ELSE "answer"]
  BY DEF Commit
<1>5. OthersUnchanged(n) /\ batch'[n] = << >>
  BY <1>0, <1>2, <1>4 DEF OthersUnchanged, FlowInv, FlowTypes
<1>6. Onward
  <2>1. pc'[n] \in {"retrieve", "answer"}
    BY <1>4 DEF FlowInv, FlowTypes
  <2>2. \A m \in Request \ {n} : pc'[m] = pc[m]
    BY <1>5 DEF OthersUnchanged
  <2> QED
    BY <1>3, <1>4, <2>1, <2>2 DEF Onward, Writing
<1>7. Holding'
  BY <1>5, HoldingKept
<1> QED
  BY <1>2, <1>3, <1>4, <1>5, <1>6, <1>7

\* Positions after the last are new.
LEMMA AfterTheLast ==
    ASSUME LP!LedgerInv, LP!LedgerInv', NEW last \in Nat, NEW b \in Seq(Entry),
           Appended(last, b)
    PROVE  /\ rows \subseteq rows'
           /\ \A e \in rows' : e.sequence \in Nat
           /\ \A r \in rows, e \in rows' \ rows : r.sequence < e.sequence
           /\ IsFiniteSet(rows) => IsFiniteSet(rows)'
<1>1. Len(b) \in Nat
  BY LenProperties
<1>2. \A e \in rows' : e.sequence \in Nat
  BY DEF LP!LedgerInv, LP!TypeOK, LP!AuditEvent
<1>3. \A e \in rows' \ rows : e.sequence \in last + 1 .. last + Len(b)
  BY <1>1 DEF Appended
<1>4. ASSUME NEW r \in rows, NEW e \in rows' \ rows PROVE r.sequence < e.sequence
  <2>1. r.sequence \in Nat /\ r.sequence <= last
    BY RowsOfLedger DEF Appended
  <2> QED
    BY <1>3, <2>1
<1>5. ASSUME IsFiniteSet(rows) PROVE IsFiniteSet(rows)'
  <2> DEFINE f == [e \in rows' \ rows |-> e.sequence]
  <2>1. f \in Injection(rows' \ rows, last + 1 .. last + Len(b))
    <3>1. \A e, g \in rows' : e.sequence = g.sequence => e = g
      BY DEF LP!LedgerInv, LP!ChainIntact, LP!NoFork
    <3> QED
      BY <1>3, <3>1 DEF Injection, IsInjective
  <2>2. IsFiniteSet(last + 1 .. last + Len(b))
    BY <1>1, FS_Interval
  <2>3. IsFiniteSet(rows' \ rows)
    BY <2>1, <2>2, FS_Injection
  <2>4. rows' = rows \cup (rows' \ rows)
    BY DEF Appended
  <2>5. IsFiniteSet(rows \cup (rows' \ rows))
    BY <1>5, <2>3, FS_Union
  <2> QED
    BY <2>4, <2>5, Zenon
<1> QED
  BY <1>2, <1>4, <1>5 DEF Appended

\* What a commit leaves to show: what its own request and its own rows say.
LEMMA CommitStep ==
    ASSUME FlowInv, LP!LedgerInv', FlowTypes', NEW n \in Request, Commit(n),
           Stage(n)',
           \A e \in rows' \ rows : /\ Type(e) \in EngineEvent => EngineRow(e)'
                                   /\ Type(e) \in HumanEvent => HumanRow(e)',
           RunsHaveAStart', CompositionsAreWhole', EngineBeforeHuman',
           SignedAgainOnlyByOverlap'
    PROVE  FlowInv'
<1>1. PICK last \in Nat : Appended(last, Work(n))
  BY CommitRecords
<1>2. OthersUnchanged(n) /\ Onward /\ Holding' /\ Work(n) \in Seq(Entry)
  BY CommitRecords
<1>3. /\ rows \subseteq rows'
      /\ \A e \in rows' : e.sequence \in Nat
      /\ \A r \in rows, e \in rows' \ rows : r.sequence < e.sequence
      /\ IsFiniteSet(rows)'
  BY <1>1, <1>2, AfterTheLast DEF FlowInv
<1>4. ASSUME NEW m \in Request \ {n} PROVE Stage(m)'
  <2>1. pc'[m] = pc[m] /\ request'[m] = request[m] /\ deployed' = deployed
    BY <1>2 DEF OthersUnchanged
  <2> QED
    BY <1>2, <1>3, <2>1, StageKept
<1>5. RowsSayWhatWasAsked'
  <2>1. ASSUME NEW r \in rows'
        PROVE  /\ Type(r) \in EngineEvent => EngineRow(r)'
               /\ Type(r) \in HumanEvent => HumanRow(r)'
    <3>1. CASE r \in rows
      BY <1>2, <3>1, RowKept
    <3>2. CASE r \notin rows
      BY <3>2
    <3> QED
      BY <3>1, <3>2
  <2> QED
    BY <2>1 DEF RowsSayWhatWasAsked, Type
<1> QED
  BY <1>2, <1>3, <1>4, <1>5 DEF FlowInv

\* A batch of the engine is about a run of its own nobody has been offered: no
\* composition is on record for it.
LEMMA EngineCommit ==
    ASSUME FlowInv, LP!LedgerInv', FlowTypes', NEW n \in Request, Commit(n),
           pc[n] \in {"core", "widen"},
           \A e \in rows' \ rows :
              /\ Type(e) \in EngineEvent
              /\ e.entry.run = n /\ e.entry.baseline = None
              /\ e.entry.profile = Id[request[n].profile]
              /\ Type(e) = "RUN_COMPLETED" =>
                    e.entry.about = Outstanding[e.entry.version][request[n].profile],
           \E s \in Starts' : s.entry.run = n,
           RunsHaveAStart'
    PROVE  FlowInv'
<1>1. PICK last \in Nat : Appended(last, Work(n))
  BY CommitRecords
<1>2. /\ request' = request
      /\ pc'[n] \in {"retrieve", "answer"}
      /\ pc[n] = "core" <=> pc'[n] = "retrieve"
      /\ Onward
  BY CommitRecords DEF FlowInv, FlowTypes
<1>3. rows \subseteq rows'
  BY <1>1 DEF Appended
<1>4. IsRun(n)
  BY DEF FlowInv, Stage
<1>5. Stage(n)'
  BY <1>2, <1>4 DEF Stage, IsRun
<1>6. ASSUME NEW e \in rows' \ rows
      PROVE  /\ Type(e) \in EngineEvent => EngineRow(e)'
             /\ Type(e) \in HumanEvent => HumanRow(e)'
  <2>1. Type(e) \notin HumanEvent
    BY DEF EngineEvent, HumanEvent
  <2>2. EngineRow(e)'
    BY <1>2, <1>4 DEF EngineRow, IsRun, Type
  <2> QED
    BY <2>1, <2>2
<1>7. \A r \in rows' : Type(r) \in HumanEvent => r \in rows
  BY DEF EngineEvent, HumanEvent
<1>8. Signatures' = Signatures
  <2>1. \A r \in rows' : r.entry.type = "BASELINE_SIGNED" => r \in rows
    BY <1>7 DEF Type, HumanEvent
  <2> QED
    BY <1>3, <2>1 DEF Signatures
<1>9. CompositionsAreWhole'
  <2>1. \A s \in Signatures : request'[s.entry.baseline] = request[s.entry.baseline]
    BY <1>2
  <2> QED
    BY <1>3, <1>7, <1>8, <2>1 DEF FlowInv, CompositionsAreWhole, Type
<1>10. EngineBeforeHuman'
  <2>1. ASSUME NEW r \in rows', NEW s \in rows', r.entry.run = s.entry.run,
               r.entry.type \in EngineEvent, s.entry.type \in HumanEvent
        PROVE  r.sequence < s.sequence
    <3>1. s \in rows
      BY <1>7, <2>1 DEF Type
    <3>2. CASE r \in rows
      BY <2>1, <3>1, <3>2 DEF FlowInv, EngineBeforeHuman
    <3>3. CASE r \notin rows
      <4>1. pc[n] = "ok"
        BY <2>1, <3>1, <3>3 DEF FlowInv, RowsSayWhatWasAsked, HumanRow, Type
      <4> QED
        BY <4>1
    <3> QED
      BY <3>2, <3>3
  <2> QED
    BY <2>1 DEF EngineBeforeHuman
<1>11. SignedAgainOnlyByOverlap'
  BY <1>2, <1>8 DEF FlowInv, SignedAgainOnlyByOverlap
<1> QED
  BY <1>5, <1>6, <1>9, <1>10, <1>11, CommitStep

\* The core trail starts a run.
LEMMA CoreCommit ==
    ASSUME FlowInv, LP!LedgerInv', FlowTypes', NEW n \in Request, Commit(n), pc[n] = "core"
    PROVE  FlowInv'
<1> DEFINE start == Event("RUN_STARTED", n, request[n], deployed, {})
           completed == Event("RUN_COMPLETED", n, request[n], deployed,
                              Outstanding[deployed][request[n].profile])
<1>1. PICK last \in Nat : Appended(last, Work(n))
  BY CommitRecords
<1>2. Len(Work(n)) = 2 /\ Work(n)[1] = start /\ Work(n)[2] = completed
  <2>1. request[n].run \in Request
    BY WritingHasARun DEF Writing
  <2> QED
    BY <2>1, EntriesOfWork DEF FlowInv, Writing
<1>3. IsRun(n)
  BY DEF FlowInv, Stage
<1>4. /\ start.type = "RUN_STARTED" /\ completed.type = "RUN_COMPLETED"
      /\ start.run = n /\ completed.run = n
      /\ start.baseline = None /\ completed.baseline = None
      /\ start.profile = Id[request[n].profile] /\ completed.profile = Id[request[n].profile]
      /\ start.version = deployed /\ completed.version = deployed
      /\ completed.about = Outstanding[deployed][request[n].profile]
  BY <1>3 DEF Event, EngineEvent, IsRun
<1> HIDE DEF start, completed
<1>5. /\ rows \subseteq rows'
      /\ \A e \in rows' \ rows : \/ e.entry = start /\ e.sequence = last + 1
                                 \/ e.entry = completed /\ e.sequence = last + 2
      /\ \E e \in rows' : e.entry = start /\ e.sequence = last + 1
  BY <1>1, <1>2 DEF Appended
<1>6. \A e, g \in rows' : e.sequence = g.sequence => e = g
  BY DEF LP!LedgerInv, LP!ChainIntact, LP!NoFork
<1>7. PICK first \in rows' : first.entry = start /\ first.sequence = last + 1
  BY <1>5
<1>8. first \in Starts'
  BY <1>4, <1>7 DEF Starts
<1>9. ASSUME NEW r \in rows PROVE ~(Type(r) = "RUN_STARTED" /\ r.entry.run = n)
  <2>1. Type(r) = "RUN_STARTED" => EngineRow(r)
    BY DEF FlowInv, RowsSayWhatWasAsked, EngineEvent
  <2> QED
    BY <2>1 DEF EngineRow
<1>10. RunsHaveAStart'
  <2>1. ASSUME NEW r \in rows' PROVE \E s \in Starts' : StartOf(s, r)
    <3>1. CASE r \in rows
      <4>1. PICK s \in Starts : StartOf(s, r)
        BY <3>1 DEF FlowInv, RunsHaveAStart
      <4>2. s \in Starts'
        BY <1>5 DEF Starts
      <4> QED
        BY <4>1, <4>2
    <3>2. CASE r \notin rows
      <4>1. r.entry \in {start, completed} /\ r.sequence \in {last + 1, last + 2}
        BY <1>5, <3>2
      <4>2. StartOf(first, r)
        BY <1>4, <1>7, <4>1 DEF StartOf, Type
      <4> QED
        BY <1>8, <4>2
    <3> QED
      BY <3>1, <3>2
  <2>2. ASSUME NEW s \in Starts', NEW t \in Starts', s.entry.run = t.entry.run
        PROVE  s = t
    <3>1. ASSUME NEW u \in Starts', u \notin rows PROVE u.entry.run = n /\ u = first
      <4>1. u \in rows' /\ u.entry.type = "RUN_STARTED"
        BY DEF Starts
      <4>2. u.entry = start /\ u.sequence = last + 1
        BY <1>4, <1>5, <3>1, <4>1
      <4> QED
        BY <1>4, <1>6, <1>7, <4>1, <4>2
    <3>2. ASSUME NEW u \in Starts', u \in rows PROVE u \in Starts /\ u.entry.run # n
      BY <1>9, <3>2 DEF Starts, Type
    <3>3. CASE s \in rows /\ t \in rows
      BY <2>2, <3>2, <3>3 DEF FlowInv, RunsHaveAStart
    <3> QED
      BY <2>2, <3>1, <3>2, <3>3
  <2> QED
    BY <2>1, <2>2 DEF RunsHaveAStart, StartOf, Type
<1>11. \A e \in rows' \ rows :
          /\ Type(e) \in EngineEvent
          /\ e.entry.run = n /\ e.entry.baseline = None
          /\ e.entry.profile = Id[request[n].profile]
          /\ Type(e) = "RUN_COMPLETED" =>
                e.entry.about = Outstanding[e.entry.version][request[n].profile]
  BY <1>4, <1>5 DEF Type, EngineEvent
<1>12. \E s \in Starts' : s.entry.run = n
  BY <1>4, <1>7, <1>8
<1> QED
  BY <1>10, <1>11, <1>12, EngineCommit

\* What retrieval adds to a run follows its start.
LEMMA WidenCommit ==
    ASSUME FlowInv, LP!LedgerInv', FlowTypes', NEW n \in Request, Commit(n), pc[n] = "widen"
    PROVE  FlowInv'
<1> DEFINE retrieved == Event("CANDIDATES_RETRIEVED", n, request[n], deployed, {})
<1>1. PICK last \in Nat : Appended(last, Work(n))
  BY CommitRecords
<1>2. Work(n) = <<retrieved>>
  <2>1. request[n].run \in Request
    BY WritingHasARun DEF Writing
  <2> QED
    BY <2>1, EntriesOfWork DEF FlowInv, Writing
<1>3. IsRun(n)
  BY DEF FlowInv, Stage
<1>4. /\ retrieved.type = "CANDIDATES_RETRIEVED"
      /\ retrieved.run = n /\ retrieved.baseline = None
      /\ retrieved.profile = Id[request[n].profile]
  BY <1>3 DEF Event, EngineEvent, IsRun
<1> HIDE DEF retrieved
<1>5. /\ rows \subseteq rows'
      /\ \A r \in rows : r.sequence <= last
      /\ \A e \in rows' \ rows : e.entry = retrieved /\ e.sequence = last + 1
  BY <1>1, <1>2 DEF Appended
<1>6. PICK first \in Starts : first.entry.run = n
  BY DEF FlowInv, Stage
<1>7. Starts' = Starts
  <2>1. \A e \in rows' \ rows : e.entry.type # "RUN_STARTED"
    BY <1>4, <1>5
  <2> QED
    BY <1>5, <2>1 DEF Starts
<1>8. RunsHaveAStart'
  <2>1. ASSUME NEW r \in rows' PROVE \E s \in Starts' : StartOf(s, r)
    <3>1. CASE r \in rows
      BY <1>7, <3>1 DEF FlowInv, RunsHaveAStart
    <3>2. CASE r \notin rows
      <4>1. r.entry = retrieved /\ r.sequence = last + 1
        BY <1>5, <3>2
      <4>2. first.sequence \in Nat /\ first.sequence <= last
        BY <1>5, <1>6, RowsOfLedger DEF Starts, FlowInv
      <4>3. first.sequence <= r.sequence
        BY <4>1, <4>2
      <4>4. StartOf(first, r)
        BY <1>4, <1>6, <4>1, <4>3 DEF StartOf, Type
      <4> QED
        BY <1>6, <1>7, <4>4
    <3> QED
      BY <3>1, <3>2
  <2> QED
    BY <1>7, <2>1 DEF FlowInv, RunsHaveAStart, StartOf, Type
<1>9. \A e \in rows' \ rows :
          /\ Type(e) \in EngineEvent
          /\ e.entry.run = n /\ e.entry.baseline = None
          /\ e.entry.profile = Id[request[n].profile]
          /\ Type(e) = "RUN_COMPLETED" =>
                e.entry.about = Outstanding[e.entry.version][request[n].profile]
  BY <1>4, <1>5 DEF Type, EngineEvent
<1>10. \E s \in Starts' : s.entry.run = n
  BY <1>6, <1>7
<1> QED
  BY <1>8, <1>9, <1>10, EngineCommit

\* A composition is recorded whole, over a run that was offered.
LEMMA SignCommit ==
    ASSUME FlowInv, LP!LedgerInv', FlowTypes', NEW n \in Request, Commit(n), pc[n] = "sign"
    PROVE  FlowInv'
<1> DEFINE run == request[n].run
           closed == request[n].choices.closed
           e(type, about) == Event(type, n, request[n], deployed, about)
           rejected == request[n].choices.rejected
           ratified == Tier0[deployed][request[n].profile] \ closed
           open == Outstanding[deployed][request[n].profile]
           says(type, about) == IF about = {} THEN {} ELSE {e(type, about)}
<1>1. PICK last \in Nat : Appended(last, Work(n))
  BY CommitRecords
<1>2. /\ request' = request
      /\ pc'[n] = "answer"
      /\ Onward
      /\ Work(n) \in Seq(Entry)
  BY CommitRecords DEF FlowInv, FlowTypes
<1>3. run \in Request
  BY WritingHasARun DEF Writing
<1>4. Range(Work(n)) = says("CLOSED", closed) \cup says("OPTION_REJECTED", rejected)
                       \cup says("MECHANISM_RATIFIED", ratified)
                       \cup {e("BASELINE_SIGNED", open)}
  BY <1>3, EntriesOfWork DEF FlowInv, Writing
<1>5. Range(Work(n)) = {Work(n)[i] : i \in 1..Len(Work(n))}
  BY <1>2, RangeEquality
<1>6. \A type \in HumanEvent : \A about :
         /\ e(type, about).type = type /\ e(type, about).run = run
         /\ e(type, about).baseline = n /\ e(type, about).profile = Id[request[n].profile]
         /\ e(type, about).version = deployed /\ e(type, about).about = about
  BY DEF Event, EngineEvent, HumanEvent
<1>7. Checked(n) /\ ~IsRun(n)
  BY DEF FlowInv, Stage, Checked, IsRun
<1> HIDE DEF e, run, closed, rejected, ratified, open
<1>8. /\ rows \subseteq rows'
      /\ \A r \in rows' : r.sequence \in Nat
      /\ \A r \in rows, s \in rows' \ rows : r.sequence < s.sequence
  BY <1>1, <1>2, AfterTheLast DEF FlowInv
<1>9. ASSUME NEW r \in rows' \ rows
      PROVE  /\ Type(r) \in HumanEvent /\ Type(r) \notin EngineEvent
             /\ r.entry.run = run /\ r.entry.baseline = n
             /\ r.entry.profile = Id[request[n].profile] /\ r.entry.version = deployed
             /\ Type(r) = "CLOSED" => r.entry.about = closed
  <2>1. r.entry \in Range(Work(n))
    BY <1>1, <1>5 DEF Appended
  <2>2. \/ r.entry = e("CLOSED", closed)
        \/ r.entry = e("OPTION_REJECTED", rejected)
        \/ r.entry = e("MECHANISM_RATIFIED", ratified)
        \/ r.entry = e("BASELINE_SIGNED", open)
    BY <1>4, <2>1
  <2>3. {"CLOSED", "OPTION_REJECTED", "MECHANISM_RATIFIED", "BASELINE_SIGNED"} = HumanEvent
    BY DEF HumanEvent
  <2>4. /\ Type(r) \in HumanEvent
        /\ r.entry.run = run /\ r.entry.baseline = n
        /\ r.entry.profile = Id[request[n].profile] /\ r.entry.version = deployed
        /\ Type(r) = "CLOSED" => r.entry.about = closed
    BY <1>6, <2>2, <2>3 DEF Type
  <2>5. Type(r) \notin EngineEvent
    BY <2>4 DEF EngineEvent, HumanEvent
  <2> QED
    BY <2>4, <2>5
<1>10. \E s \in Signatures' : s.entry.baseline = n
  <2>1. e("BASELINE_SIGNED", open) \in Range(Work(n))
    BY <1>4
  <2>2. PICK s \in rows' : s.entry = e("BASELINE_SIGNED", open)
    BY <1>1, <1>5, <2>1 DEF Appended
  <2>3. s.entry.type = "BASELINE_SIGNED" /\ s.entry.baseline = n
    BY <1>6, <2>2 DEF HumanEvent
  <2> QED
    BY <2>2, <2>3 DEF Signatures
<1>11. ASSUME closed # {} PROVE \E r \in rows' : Type(r) = "CLOSED" /\ r.entry.baseline = n
  <2>1. e("CLOSED", closed) \in Range(Work(n))
    BY <1>4, <1>11
  <2>2. PICK r \in rows' : r.entry = e("CLOSED", closed)
    BY <1>1, <1>5, <2>1 DEF Appended
  <2>3. r.entry.type = "CLOSED" /\ r.entry.baseline = n
    BY <1>6, <2>2 DEF HumanEvent
  <2> QED
    BY <2>2, <2>3 DEF Type
<1>12. Stage(n)'
  BY <1>2, <1>7, <1>10 DEF Stage, IsRun
<1>13. ASSUME NEW r \in rows' \ rows
       PROVE  /\ Type(r) \in EngineEvent => EngineRow(r)'
              /\ Type(r) \in HumanEvent => HumanRow(r)'
  <2>1. /\ request'[n].run = run /\ request'[n].profile = request[n].profile
        /\ request'[n].choices.closed = closed /\ run = request[n].run
    BY <1>2 DEF run, closed
  <2>2. /\ pc'[run] = "ok" /\ request'[run].run = run /\ request'[n].run # n
        /\ Outstanding[deployed][request[n].profile] \subseteq closed
    BY <1>2, <1>3, <1>7 DEF Checked, Onward, IsRun, run, closed
  <2>3. /\ r.entry.baseline = n /\ r.entry.run = run /\ r.entry.version = deployed
        /\ r.entry.profile = Id[request[n].profile]
        /\ Type(r) = "CLOSED" => r.entry.about = closed
        /\ Type(r) \notin EngineEvent
    BY <1>9
  <2>4. HumanRow(r)'
    BY <1>2, <2>1, <2>2, <2>3 DEF HumanRow, IsRun, Type
  <2> QED
    BY <2>3, <2>4
<1>14. Starts' = Starts
  <2>1. \A r \in rows' \ rows : r.entry.type # "RUN_STARTED"
    BY <1>9 DEF Type, HumanEvent
  <2> QED
    BY <1>8, <2>1 DEF Starts
<1>15. RunsHaveAStart'
  <2>1. ASSUME NEW r \in rows' PROVE \E s \in Starts' : StartOf(s, r)
    <3>1. CASE r \in rows
      BY <1>14, <3>1 DEF FlowInv, RunsHaveAStart
    <3>2. CASE r \notin rows
      <4>1. PICK s \in Starts : /\ s.entry.run = run
                                /\ s.entry.profile = Id[request[n].profile]
                                /\ s.entry.version = deployed
        BY <1>7 DEF Checked, run
      <4>2. s \in rows
        BY DEF Starts
      <4>3. s.sequence \in Nat /\ r.sequence \in Nat /\ s.sequence < r.sequence
        BY <1>8, <3>2, <4>2
      <4>4. s.sequence <= r.sequence
        BY <4>3
      <4>5. StartOf(s, r)
        BY <1>9, <3>2, <4>1, <4>4 DEF StartOf, Type
      <4> QED
        BY <1>14, <4>5
    <3> QED
      BY <3>1, <3>2
  <2> QED
    BY <1>14, <2>1 DEF FlowInv, RunsHaveAStart, StartOf, Type
<1>16. CompositionsAreWhole'
  <2>1. ASSUME NEW r \in rows', Type(r) \in HumanEvent
        PROVE  \E s \in Signatures' : s.entry.baseline = r.entry.baseline
    <3>1. CASE r \in rows
      <4>1. PICK s \in Signatures : s.entry.baseline = r.entry.baseline
        BY <2>1, <3>1 DEF FlowInv, CompositionsAreWhole
      <4>2. s \in Signatures'
        BY <1>8 DEF Signatures
      <4> QED
        BY <4>1, <4>2
    <3>2. CASE r \notin rows
      BY <1>9, <1>10, <3>2
    <3> QED
      BY <3>1, <3>2
  <2>2. ASSUME NEW s \in Signatures', request'[s.entry.baseline].choices.closed # {}
        PROVE  \E r \in rows' : Type(r) = "CLOSED" /\ r.entry.baseline = s.entry.baseline
    <3>1. CASE s \in rows
      <4>1. s \in Signatures
        BY <3>1 DEF Signatures
      <4>2. request[s.entry.baseline].choices.closed # {}
        BY <1>2, <2>2
      <4> QED
        BY <1>8, <4>1, <4>2 DEF FlowInv, CompositionsAreWhole
    <3>2. CASE s \notin rows
      <4>1. s.entry.baseline = n
        BY <1>9, <3>2 DEF Signatures
      <4>2. closed # {}
        BY <1>2, <2>2, <4>1 DEF closed
      <4> QED
        BY <1>11, <4>1, <4>2
    <3> QED
      BY <3>1, <3>2
  <2> QED
    BY <2>1, <2>2 DEF CompositionsAreWhole, Type
<1>17. EngineBeforeHuman'
  <2>1. ASSUME NEW r \in rows', NEW s \in rows', r.entry.run = s.entry.run,
               r.entry.type \in EngineEvent, s.entry.type \in HumanEvent
        PROVE  r.sequence < s.sequence
    <3>1. r \in rows
      BY <1>9, <2>1 DEF Type
    <3>2. CASE s \in rows
      BY <2>1, <3>1, <3>2 DEF FlowInv, EngineBeforeHuman
    <3>3. CASE s \notin rows
      BY <1>8, <3>1, <3>3
    <3> QED
      BY <3>2, <3>3
  <2> QED
    BY <2>1 DEF EngineBeforeHuman
<1>18. SignedAgainOnlyByOverlap'
  <2>1. ASSUME NEW s \in Signatures', NEW t \in Signatures',
               s.entry.run = t.entry.run, s.sequence < t.sequence
        PROVE  request'[t.entry.baseline].saw < s.sequence
    <3>1. s \in rows' /\ t \in rows' /\ s.sequence \in Nat /\ t.sequence \in Nat
      BY <1>8 DEF Signatures
    <3>2. CASE t \in rows
      <4>1. s \in rows
        <5>1. s \notin rows => t.sequence < s.sequence
          BY <1>8, <3>1, <3>2
        <5> QED
          BY <2>1, <3>1, <5>1
      <4>2. s \in Signatures /\ t \in Signatures
        BY <3>2, <4>1 DEF Signatures
      <4> QED
        BY <1>2, <2>1, <4>2 DEF FlowInv, SignedAgainOnlyByOverlap
    <3>3. CASE t \notin rows
      <4>1. t.entry.run = run /\ t.entry.baseline = n
        BY <1>9, <3>1, <3>3
      <4>2. request'[n].saw = request[n].saw /\ request[n].saw \in Nat
        BY <1>2 DEF FlowInv, FlowTypes, RequestRecord
      <4>3. CASE s \in rows
        <5>1. s \in Signatures /\ s.entry.run = request[n].run
          BY <2>1, <4>1, <4>3 DEF Signatures, run
        <5>2. request[n].saw < s.sequence
          BY <1>7, <5>1 DEF Checked
        <5> QED
          BY <4>1, <4>2, <5>2
      <4>4. CASE s \notin rows
        <5>1. PICK r \in rows : request[n].saw <= r.sequence
          BY <1>7 DEF Checked
        <5>2. r.sequence < s.sequence /\ r.sequence \in Nat
          BY <1>8, <3>1, <4>4
        <5>3. request[n].saw < s.sequence
          BY <3>1, <4>2, <5>1, <5>2
        <5> QED
          BY <4>1, <4>2, <5>3
      <4> QED
        BY <4>3, <4>4
    <3> QED
      BY <3>2, <3>3
  <2> QED
    BY <2>1 DEF SignedAgainOnlyByOverlap
<1> QED
  BY <1>12, <1>13, <1>15, <1>16, <1>17, <1>18, CommitStep

\* Whatever stage commits, the invariant is kept.
LEMMA CommitKept ==
    ASSUME FlowInv, LP!LedgerInv', FlowTypes', NEW n \in Request, Commit(n)
    PROVE  FlowInv'
<1>1. pc[n] \in Writing
  BY CommitRecords
<1> QED
  BY <1>1, CoreCommit, WidenCommit, SignCommit DEF Writing

\* Every step keeps the invariant.
LEMMA FlowStep == FlowInv /\ [Next]_vars => FlowInv'
<1> SUFFICES ASSUME FlowInv, [Next]_vars PROVE FlowInv'
  OBVIOUS
<1>1. LP!LedgerInv' /\ FlowTypes'
  BY LedgerKept, TypesKept
<1>2. ASSUME NEW n \in Request, Step(n) PROVE FlowInv'
  <2>1. CASE \E p \in Profile : AskCandidates(n, p)
    BY <1>1, <2>1, AskCandidatesKept
  <2>2. CASE \E run \in Offered \cup {None}, p \in Profile, c \in Choices :
                Compose(n, run, p, c) \/ TurnAway(n, run, p, c)
    BY <1>1, <2>2, ComposeKept, TurnAwayKept
  <2>3. CASE Retrieve(n)
    BY <1>1, <2>3, RetrieveKept
  <2>4. CASE ReadHead(n)
    BY <1>1, <2>4, ReadHeadKept
  <2>5. CASE Commit(n)
    BY <1>1, <2>5, CommitKept
  <2>6. CASE Refuse(n) \/ Abort(n)
    BY <1>1, <2>6, FailureKept
  <2>7. CASE Answer(n)
    BY <1>1, <2>7, AnswerKept
  <2>8. CASE ExplainFails(n)
    BY <1>1, <2>8, ExplainFailsKept
  <2> QED
    BY <1>2, <2>1, <2>2, <2>3, <2>4, <2>5, <2>6, <2>7, <2>8 DEF Step, Serve
<1>3. CASE Restart
  BY <1>1, <1>3, RestartKept
<1>4. CASE UNCHANGED vars
  <2>1. rows' = rows /\ batch' = batch /\ pc' = pc /\ request' = request /\ deployed' = deployed
    BY <1>4 DEF vars
  <2>2. Onward
    BY <2>1 DEF Onward
  <2>3. \A n \in Request : Work(n)' = Work(n)
    BY <2>1, Zenon DEF Work
  <2>4. Holding'
    BY <2>1, <2>3 DEF FlowInv, Holding
  <2>5. \A n \in Request : Stage(n)'
    BY <2>1, <2>2, StageKept, RowsOfLedger DEF FlowInv
  <2> QED
    BY <1>1, <2>1, <2>2, <2>4, <2>5, LedgerStands DEF FlowInv
<1> QED
  BY <1>2, <1>3, <1>4 DEF Next

\* The invariant the theorems below are read off.
LEMMA FlowInvariant == Spec => []FlowInv
BY FlowStart, FlowStep, PTL DEF Spec

-----------------------------------------------------------------------------
\* Types are kept, by the requests and by the ledger they write.
THEOREM FlowTypeCorrect == Spec => []TypeOK
<1>1. FlowInv => TypeOK
  BY DEF FlowInv, FlowTypes, TypeOK, LP!LedgerInv, LP!TypeOK, Ledger!TypeOK,
         LP!AuditEvent, Ledger!AuditEvent, LP!Hash, Ledger!Hash, LP!Content, Ledger!Content,
         LP!Position, Ledger!Position
<1> QED
  BY <1>1, FlowInvariant, PTL

\* What the ledger of these requests is proved to be on its own it is here: no
\* fork, no hole, every event linked to the one before it.
THEOREM FlowLedgerIntact == Spec => []LP!ChainIntact
<1>1. FlowInv => LP!ChainIntact
  BY DEF FlowInv, LP!LedgerInv
<1> QED
  BY <1>1, FlowInvariant, PTL

\* A baseline is signed over a recorded run, of its profile and its versions.
THEOREM SignedOverARun == Spec => []SignedOverItsRun
<1>1. FlowInv => SignedOverItsRun
  <2> SUFFICES ASSUME FlowInv, NEW s \in Signatures
               PROVE  \E r \in ByRun(s.entry.run) :
                         /\ r.entry.type = "RUN_STARTED"
                         /\ r.sequence < s.sequence
                         /\ r.entry.profile = s.entry.profile
                         /\ r.entry.version = s.entry.version
    BY DEF SignedOverItsRun
  <2>1. s \in rows /\ Type(s) = "BASELINE_SIGNED"
    BY DEF Signatures, Type
  <2>2. PICK r \in Starts : StartOf(r, s)
    BY <2>1 DEF FlowInv, RunsHaveAStart
  <2>3. /\ r \in rows /\ r.entry.type = "RUN_STARTED" /\ r.entry.run = s.entry.run
        /\ r.entry.profile = s.entry.profile /\ r.entry.version = s.entry.version
    BY <2>1, <2>2 DEF Starts, StartOf
  <2>4. r.sequence < s.sequence
    BY <2>1, <2>3 DEF FlowInv, EngineBeforeHuman, EngineEvent, HumanEvent, Type
  <2> QED
    BY <2>3, <2>4 DEF ByRun
<1> QED
  BY <1>1, FlowInvariant, PTL

\* Nothing the run of a signature announced as outstanding is left without a
\* decision when the profile signed is that of the run.
THEOREM MandatesClosedBySigning == Spec => []RunsMandatesClosed
<1>1. FlowInv => RunsMandatesClosed
  <2> SUFFICES ASSUME FlowInv, NEW s \in Signatures,
                      request[s.entry.baseline].profile = request[s.entry.run].profile
               PROVE  LeftOpen(s) = {}
    BY DEF RunsMandatesClosed
  <2> DEFINE n == s.entry.baseline
             closed == request[n].choices.closed
  <2>1. s \in rows /\ Type(s) = "BASELINE_SIGNED" /\ HumanRow(s)
    BY DEF Signatures, Type, FlowInv, RowsSayWhatWasAsked, HumanEvent
  <2>2. Outstanding[s.entry.version][request[n].profile] \subseteq closed
    BY <2>1 DEF HumanRow
  <2>3. ASSUME NEW r \in rows, r.entry.run = s.entry.run, r.entry.type = "RUN_COMPLETED"
        PROVE  r.entry.about \subseteq closed
    <3>1. EngineRow(r)
      BY <2>3 DEF FlowInv, RowsSayWhatWasAsked, Type, EngineEvent
    <3>2. PICK t \in Starts : StartOf(t, r)
      BY DEF FlowInv, RunsHaveAStart
    <3>3. PICK u \in Starts : StartOf(u, s)
      BY <2>1 DEF FlowInv, RunsHaveAStart
    <3>4. t = u
      BY <2>3, <3>2, <3>3 DEF StartOf, FlowInv, RunsHaveAStart
    <3>5. r.entry.version = s.entry.version
      BY <2>1, <2>3, <3>2, <3>3, <3>4 DEF StartOf, Type
    <3> QED
      BY <2>2, <2>3, <3>1, <3>5 DEF EngineRow, Type
  <2>4. closed \subseteq AboutWhat(StampedWith(n), "CLOSED")
    <3>1. CASE closed = {}
      BY <3>1
    <3>2. CASE closed # {}
      <4>1. PICK r \in rows : Type(r) = "CLOSED" /\ r.entry.baseline = n
        BY <3>2 DEF FlowInv, CompositionsAreWhole
      <4>2. HumanRow(r)
        BY <4>1 DEF FlowInv, RowsSayWhatWasAsked, HumanEvent
      <4>3. r.entry.about = closed
        BY <4>1, <4>2 DEF HumanRow
      <4> QED
        BY <4>1, <4>3 DEF AboutWhat, StampedWith, Type
    <3> QED
      BY <3>1, <3>2
  <2> HIDE DEF closed
  <2>5. AboutWhat(ByRun(s.entry.run), "RUN_COMPLETED") \subseteq closed
    BY <2>3 DEF AboutWhat, ByRun
  <2> QED
    BY <2>4, <2>5 DEF LeftOpen
<1> QED
  BY <1>1, FlowInvariant, PTL

\* The engine adds nothing to a run once it is signed.
THEOREM EngineAlwaysFirst == Spec => []EngineBeforeHuman
<1>1. FlowInv => EngineBeforeHuman
  BY DEF FlowInv
<1> QED
  BY <1>1, FlowInvariant, PTL

\* A second signature over a run takes a composition that overlapped the first.
THEOREM SecondSignatureOverlaps == Spec => []SignedAgainOnlyByOverlap
<1>1. FlowInv => SignedAgainOnlyByOverlap
  BY DEF FlowInv
<1> QED
  BY <1>1, FlowInvariant, PTL

\* What a client is told of a run or a composition is what the ledger holds, and
\* a run that failed is never signed over.
THEOREM ToldWhatIsRecorded == Spec => []AnswersMatchLedger
<1>1. FlowInv => AnswersMatchLedger
  <2> SUFFICES ASSUME FlowInv, NEW n \in Request
               PROVE  /\ StampedWith(n) # {} => \E s \in Signatures : s.entry.baseline = n
                      /\ pc[n] = "ok" => \/ \E s \in Signatures : s.entry.baseline = n
                                         \/ IsRun(n) /\ ByRun(n) # {}
                      /\ pc[n] \in {"refused", "failed"} =>
                            ~ \E s \in Signatures : s.entry.baseline = n
                      /\ IsRun(n) /\ pc[n] \in {"failed", "lost"} =>
                            \A r \in ByRun(n) : r.entry.type \in EngineEvent
    BY DEF AnswersMatchLedger
  <2>1. ASSUME NEW r \in rows, r.entry.baseline = n
        PROVE  Type(r) \in HumanEvent /\ HumanRow(r)
    <3>1. r.entry.baseline # None
      BY <2>1 DEF Request, None
    <3>2. Type(r) \in EngineEvent => r.entry.baseline = None
      BY DEF FlowInv, RowsSayWhatWasAsked, EngineRow
    <3> QED
      BY <3>1, <3>2, RowTypes DEF FlowInv, RowsSayWhatWasAsked
  <2>2. StampedWith(n) # {} => \E s \in Signatures : s.entry.baseline = n
    BY <2>1 DEF StampedWith, FlowInv, CompositionsAreWhole
  <2>3. pc[n] = "ok" => \/ \E s \in Signatures : s.entry.baseline = n
                        \/ IsRun(n) /\ ByRun(n) # {}
    BY DEF FlowInv, Stage, Starts, ByRun
  <2>4. pc[n] \in {"refused", "failed"} => ~ \E s \in Signatures : s.entry.baseline = n
    BY <2>1 DEF Signatures, HumanRow
  <2>5. ASSUME pc[n] \in {"failed", "lost"}, NEW r \in ByRun(n)
        PROVE  r.entry.type \in EngineEvent
    <3>1. r \in rows /\ r.entry.run = n
      BY DEF ByRun
    <3>2. Type(r) \in HumanEvent => pc[n] = "ok"
      BY <3>1 DEF FlowInv, RowsSayWhatWasAsked, HumanRow
    <3> QED
      BY <2>5, <3>1, <3>2, RowTypes DEF FlowInv, Type
  <2> QED
    BY <2>2, <2>3, <2>4, <2>5
<1> QED
  BY <1>1, FlowInvariant, PTL

\* The requests write the ledger by its own actions, so the log they leave is
\* the abstract one: it only grows, by whole batches, whoever else is writing.
THEOREM FlowImplementsLog == Spec => LP!ImplementsLog
<1>1. Init => LP!Init
  BY SameLedger DEF Init
<1>2. FlowInv /\ [Next]_vars => [LP!Next]_(LP!vars)
  BY LedgerSteps
<1>3. Spec => LP!Spec
  BY <1>1, <1>2, FlowInvariant, PTL DEF Spec, LP!Spec
<1>4. LP!Spec => LP!ImplementsLog
  BY LP!LedgerImplementsLog, LedgerAssumptions
<1> QED
  BY <1>3, <1>4, PTL

-----------------------------------------------------------------------------
(***************************************************************************)
(* A baseline on record                                                    *)
(***************************************************************************)
\* The rows of a commit are about its run, by the engine or by the composition.
LEMMA NewRows ==
    ASSUME FlowInv, LP!LedgerInv', FlowTypes', NEW n \in Request, Commit(n),
           NEW e \in rows' \ rows
    PROVE  /\ e.entry.run = request[n].run
           /\ \/ /\ pc[n] \in {"core", "widen"}
                 /\ request[n].run = n
                 /\ e.entry.baseline = None
              \/ /\ pc[n] = "sign"
                 /\ e.entry.type \in HumanEvent
                 /\ e.entry.baseline = n
<1> DEFINE ev(type, about) == Event(type, n, request[n], deployed, about)
           open == Outstanding[deployed][request[n].profile]
           closed == request[n].choices.closed
           rejected == request[n].choices.rejected
           ratified == Tier0[deployed][request[n].profile] \ closed
           says(type, about) == IF about = {} THEN {} ELSE {ev(type, about)}
<1>1. PICK last \in Nat : Appended(last, Work(n))
  BY CommitRecords
<1>2. PICK i \in 1..Len(Work(n)) : e.entry = Work(n)[i]
  BY <1>1 DEF Appended
<1>3. pc[n] \in Writing /\ Work(n) \in Seq(Entry)
  BY CommitRecords
<1>4. request[n].run \in Request
  BY <1>3, WritingHasARun
<1>5. \A type, about : /\ ev(type, about).run = request[n].run
                       /\ ev(type, about).type = type
                       /\ type \in EngineEvent => ev(type, about).baseline = None
                       /\ type \notin EngineEvent => ev(type, about).baseline = n
  BY DEF Event
<1>6. /\ pc[n] = "core" => /\ Len(Work(n)) = 2
                           /\ Work(n)[1] = ev("RUN_STARTED", {})
                           /\ Work(n)[2] = ev("RUN_COMPLETED", open)
      /\ pc[n] = "widen" => Work(n) = <<ev("CANDIDATES_RETRIEVED", {})>>
      /\ pc[n] = "sign" => Range(Work(n)) =
                              says("CLOSED", closed) \cup says("OPTION_REJECTED", rejected)
                              \cup says("MECHANISM_RATIFIED", ratified)
                              \cup {ev("BASELINE_SIGNED", open)}
  BY <1>3, <1>4, EntriesOfWork DEF FlowInv
<1>7. Work(n)[i] \in Range(Work(n))
  BY <1>3, RangeEquality
<1> HIDE DEF ev, open, closed, rejected, ratified
<1>8. CASE pc[n] = "core"
  <2>1. e.entry = ev("RUN_STARTED", {}) \/ e.entry = ev("RUN_COMPLETED", open)
    <3>1. Len(Work(n)) = 2
      BY <1>6, <1>8
    <3>2. i = 1 \/ i = 2
      BY <3>1
    <3> QED
      BY <1>2, <1>6, <1>8, <3>2, Zenon
  <2>2. request[n].run = n
    BY <1>8 DEF FlowInv, Stage, IsRun
  <2> QED
    BY <1>5, <1>8, <2>1, <2>2 DEF EngineEvent
<1>9. CASE pc[n] = "widen"
  <2>1. e.entry = ev("CANDIDATES_RETRIEVED", {})
    <3>1. Work(n) = <<ev("CANDIDATES_RETRIEVED", {})>>
      BY <1>6, <1>9, Zenon
    <3>2. i = 1
      BY <3>1
    <3> QED
      BY <1>2, <3>1, <3>2
  <2>2. request[n].run = n
    BY <1>9 DEF FlowInv, Stage, IsRun
  <2> QED
    BY <1>5, <1>9, <2>1, <2>2 DEF EngineEvent
<1>10. CASE pc[n] = "sign"
  <2>1. \/ e.entry = ev("CLOSED", closed)
        \/ e.entry = ev("OPTION_REJECTED", rejected)
        \/ e.entry = ev("MECHANISM_RATIFIED", ratified)
        \/ e.entry = ev("BASELINE_SIGNED", open)
    BY <1>2, <1>6, <1>7, <1>10
  <2> QED
    BY <1>5, <1>10, <2>1 DEF EngineEvent, HumanEvent
<1> QED
  BY <1>3, <1>8, <1>9, <1>10 DEF Writing

\* Rows come from commits, and only what has just arrived is asked anything.
LEMMA OnlyCommitsRecord ==
    ASSUME FlowInv, [Next]_vars
    PROVE  \/ \E n \in Request : Commit(n)
           \/ /\ rows' = rows
              /\ \A m \in Request : pc[m] = "unsent" \/ request'[m] = request[m]
<1>1. ASSUME NEW n \in Request, Step(n), ~Commit(n)
      PROVE  /\ rows' = rows
             /\ \A m \in Request : pc[m] = "unsent" \/ request'[m] = request[m]
  <2>1. CASE \E p \in Profile : AskCandidates(n, p)
    BY <2>1 DEF AskCandidates, NextToArrive, ledgerVars, FlowInv, FlowTypes
  <2>2. CASE \E run \in Offered \cup {None}, p \in Profile, c \in Choices : Compose(n, run, p, c)
    BY <2>2 DEF Compose, NextToArrive, ledgerVars, FlowInv, FlowTypes
  <2>3. CASE \E run \in Offered \cup {None}, p \in Profile, c \in Choices : TurnAway(n, run, p, c)
    BY <2>3 DEF TurnAway, ledgerVars
  <2>4. CASE Retrieve(n) \/ Answer(n) \/ ExplainFails(n)
    BY <2>4 DEF Retrieve, Answer, ExplainFails, ledgerVars
  <2>5. CASE ReadHead(n)
    BY <2>5 DEF ReadHead, Ledger!ReadHead
  <2>6. CASE Refuse(n) \/ Abort(n)
    BY <2>6 DEF Refuse, Abort, Ledger!Refuse, Ledger!Abort
  <2> QED
    BY <1>1, <2>1, <2>2, <2>3, <2>4, <2>5, <2>6 DEF Step, Serve
<1>2. CASE Restart
  BY <1>2 DEF Restart, Ledger!Restart
<1>3. CASE UNCHANGED vars
  BY <1>3 DEF vars
<1> QED
  BY <1>1, <1>2, <1>3 DEF Next

\* What a row stamped with a baseline says of it.
LEMMA StampedRow ==
    ASSUME FlowInv, NEW n \in Request, NEW r \in StampedWith(n)
    PROVE  /\ r \in rows
           /\ r.entry.type \in HumanEvent
           /\ r.entry.run = request[n].run
           /\ request[n].run \in Request
           /\ request[n].run # n
           /\ pc[n] \in {"answer", "ok", "lost"}
           /\ pc[request[n].run] = "ok"
<1>1. r \in rows /\ r.entry.baseline = n
  BY DEF StampedWith
<1>2. r.entry.baseline # None
  BY <1>1 DEF Request, None
<1>3. Type(r) \in HumanEvent
  BY <1>1, <1>2, RowTypes DEF FlowInv, RowsSayWhatWasAsked, EngineRow
<1>4. HumanRow(r)
  BY <1>1, <1>3 DEF FlowInv, RowsSayWhatWasAsked
<1> QED
  BY <1>1, <1>3, <1>4, RowTypes DEF FlowInv, HumanRow, IsRun, Type

\* Once a row of a baseline is on record nothing more is recorded about it, and
\* about its run only what other compositions decide.
Settled(n) ==
    /\ rows \subseteq rows'
    /\ StampedWith(n)' = StampedWith(n)
    /\ request'[n] = request[n]
    /\ \A e \in rows' \ rows : e.entry.run = request[n].run =>
          e.entry.type \in HumanEvent /\ e.entry.baseline # n

LEMMA RecordedIsSettled ==
    ASSUME FlowInv, [Next]_vars, NEW n \in Request, StampedWith(n) # {}
    PROVE  Settled(n)
<1>1. PICK r \in StampedWith(n) : TRUE
  OBVIOUS
<1>2. /\ request[n].run \in Request
      /\ request[n].run # n
      /\ pc[n] \in {"answer", "ok", "lost"}
      /\ pc[request[n].run] = "ok"
  BY <1>1, StampedRow
<1>3. LP!LedgerInv' /\ FlowTypes'
  BY LedgerKept, TypesKept
<1>4. CASE rows' = rows /\ \A m \in Request : pc[m] = "unsent" \/ request'[m] = request[m]
  BY <1>2, <1>4 DEF Settled, StampedWith
<1>5. ASSUME NEW m \in Request, Commit(m) PROVE Settled(n)
  <2>1. request' = request /\ \E last \in Nat : Appended(last, Work(m))
    BY <1>3, <1>5, CommitRecords
  <2>2. rows \subseteq rows'
    BY <2>1 DEF Appended
  <2>3. pc[m] \in Writing
    BY <1>3, <1>5, CommitRecords
  <2>4. m # n /\ m # request[n].run
    BY <1>2, <2>3 DEF Writing
  <2>5. ASSUME NEW e \in rows' \ rows
        PROVE  /\ e.entry.baseline # n
               /\ e.entry.run = request[n].run => e.entry.type \in HumanEvent
    <3>1. None # n
      BY DEF Request, None
    <3> QED
      BY <1>3, <1>5, <2>4, <3>1, NewRows
  <2>6. StampedWith(n)' = StampedWith(n)
    BY <2>2, <2>5 DEF StampedWith
  <2> QED
    BY <2>1, <2>2, <2>5, <2>6 DEF Settled
<1> QED
  BY <1>4, <1>5, OnlyCommitsRecord

-----------------------------------------------------------------------------
(***************************************************************************)
(* What a read shows of it                                                 *)
(***************************************************************************)
OfType(n, t) == {r \in rows : r.entry.baseline = n /\ r.entry.type = t}

\* Sets with nothing in common count what each counts.
LEMMA DisjointSum ==
    ASSUME NEW S, NEW T, IsFiniteSet(S), IsFiniteSet(T), S \cap T = {}
    PROVE  IsFiniteSet(S \cup T) /\ Cardinality(S \cup T) = Cardinality(S) + Cardinality(T)
<1>1. Cardinality(S) \in Nat /\ Cardinality(T) \in Nat
  BY FS_CardinalityType
<1>2. Cardinality(S \cap T) = 0
  BY FS_EmptySet
<1>3. /\ IsFiniteSet(S \cup T)
      /\ Cardinality(S \cup T) = Cardinality(S) + Cardinality(T) - Cardinality(S \cap T)
  BY FS_Union, Zenon
<1> QED
  BY <1>1, <1>2, <1>3

\* The four counts of a summary add up to everything on record about it.
LEMMA CountsAddUp ==
    ASSUME FlowInv, NEW n \in Request
    PROVE  Cardinality(StampedWith(n)) =
              Cardinality(OfType(n, "OPTION_REJECTED")) + Cardinality(OfType(n, "CLOSED"))
              + Cardinality(OfType(n, "MECHANISM_RATIFIED"))
              + Cardinality(OfType(n, "BASELINE_SIGNED"))
<1> DEFINE a == OfType(n, "OPTION_REJECTED")
           b == OfType(n, "CLOSED")
           c == OfType(n, "MECHANISM_RATIFIED")
           d == OfType(n, "BASELINE_SIGNED")
<1>1. IsFiniteSet(a) /\ IsFiniteSet(b) /\ IsFiniteSet(c) /\ IsFiniteSet(d)
  <2>1. a \subseteq rows /\ b \subseteq rows /\ c \subseteq rows /\ d \subseteq rows
    BY DEF OfType
  <2> QED
    BY <2>1, FS_Subset DEF FlowInv
<1>2. a \cap b = {} /\ (a \cup b) \cap c = {} /\ (a \cup b \cup c) \cap d = {}
  BY DEF OfType
<1>3. StampedWith(n) = a \cup b \cup c \cup d
  <2>1. \A r \in StampedWith(n) : r \in a \cup b \cup c \cup d
    <3>1. \A r \in StampedWith(n) : /\ r \in rows /\ r.entry.baseline = n
                                    /\ r.entry.type \in HumanEvent
      BY StampedRow DEF StampedWith
    <3> QED
      BY <3>1 DEF HumanEvent, OfType
  <2>2. a \cup b \cup c \cup d \subseteq StampedWith(n)
    BY DEF OfType, StampedWith
  <2> QED
    BY <2>1, <2>2
<1> HIDE DEF a, b, c, d
<1>4. /\ IsFiniteSet(a \cup b)
      /\ Cardinality(a \cup b) = Cardinality(a) + Cardinality(b)
  BY <1>1, <1>2, DisjointSum
<1>5. /\ IsFiniteSet(a \cup b \cup c)
      /\ Cardinality(a \cup b \cup c) = Cardinality(a) + Cardinality(b) + Cardinality(c)
  BY <1>1, <1>2, <1>4, DisjointSum
<1>6. Cardinality(a \cup b \cup c \cup d) =
         Cardinality(a) + Cardinality(b) + Cardinality(c) + Cardinality(d)
  BY <1>1, <1>2, <1>5, DisjointSum
<1> QED
  BY <1>3, <1>6 DEF a, b, c, d

\* A summary that counts all that is on record about its baseline.
CountedWhole(b) ==
    /\ b.baseline \in Request
    /\ StampedWith(b.baseline) # {}
    /\ b.audit_events = Cardinality(StampedWith(b.baseline))
    /\ b.conflicts_resolved =
          Cardinality({r \in StampedWith(b.baseline) : r.entry.type = "OPTION_REJECTED"})

\* A signature on record, read with the counts of the moment.
LEMMA SummaryIsWhole ==
    ASSUME FlowInv, NEW s \in Signatures
    PROVE  CountedWhole(SummaryOf(s, CompositionCounts[s.entry.baseline]))
<1> DEFINE n == s.entry.baseline
           counts == CompositionCounts[n]
           b == SummaryOf(s, counts)
<1>1. n \in Request
  <2>1. s \in rows /\ Type(s) \in HumanEvent
    BY DEF Signatures, Type, HumanEvent
  <2> QED
    BY <2>1 DEF FlowInv, RowsSayWhatWasAsked, HumanRow
<1>2. s \in StampedWith(n)
  BY DEF Signatures, StampedWith
<1>3. \A t \in CountedTypes : counts[t] = Cardinality(OfType(n, t))
  BY <1>1 DEF CompositionCounts, OfType
<1>4. /\ b.baseline = n
      /\ b.conflicts_resolved = Cardinality(OfType(n, "OPTION_REJECTED"))
      /\ b.audit_events = Cardinality(OfType(n, "OPTION_REJECTED")) + Cardinality(OfType(n, "CLOSED"))
                          + Cardinality(OfType(n, "MECHANISM_RATIFIED"))
                          + Cardinality(OfType(n, "BASELINE_SIGNED"))
  BY <1>3 DEF SummaryOf, CountedTypes
<1>5. OfType(n, "OPTION_REJECTED") = {r \in StampedWith(n) : r.entry.type = "OPTION_REJECTED"}
  BY DEF OfType, StampedWith
<1> HIDE DEF n, counts, b
<1>6. CountedWhole(b)
  BY <1>1, <1>2, <1>4, <1>5, CountsAddUp DEF CountedWhole
<1> QED
  BY <1>6 DEF b, counts, n

\* What a trail holds of its baseline and of the run under it.
ShownWhole(n, events) ==
    /\ n \in Request
    /\ StampedWith(n) # {}
    /\ events \subseteq TrailForBaseline(n)
    /\ \E s \in Signatures \cap events : s.entry.baseline = n
    /\ \A r \in ByRun(request[n].run) \ events :
          r.entry.type \in HumanEvent /\ r.entry.baseline # n

\* A trail that is not empty is whole when it is read.
LEMMA TrailIsWhole ==
    ASSUME FlowInv, NEW n \in Request, TrailForBaseline(n) # {}
    PROVE  ShownWhole(n, TrailForBaseline(n))
<1>1. PICK r \in StampedWith(n) : TRUE
  BY DEF TrailForBaseline
<1>2. r \in rows /\ r.entry.baseline = n /\ Type(r) \in HumanEvent /\ r.entry.run = request[n].run
  BY StampedRow DEF StampedWith, Type
<1>3. PICK s \in Signatures : s.entry.baseline = n
  BY <1>2 DEF FlowInv, CompositionsAreWhole
<1>4. s \in TrailForBaseline(n)
  BY <1>3 DEF TrailForBaseline, StampedWith, Signatures
<1>5. ByRun(request[n].run) \subseteq TrailForBaseline(n)
  BY <1>1, <1>2 DEF ByRun, TrailForBaseline
<1> QED
  BY <1>1, <1>3, <1>4, <1>5 DEF ShownWhole

-----------------------------------------------------------------------------
(***************************************************************************)
(* The invariant                                                           *)
(***************************************************************************)
\* What was read first still stands, and what was answered is whole.
ReadInv ==
    /\ FlowInv
    /\ reading.get = "list" => reading.signatures \subseteq Signatures
    /\ reading.get = "listed" => \A b \in reading.summaries : CountedWhole(b)
    /\ reading.get \in {"trail", "served"} => ShownWhole(reading.baseline, reading.events)
    /\ reading.get = "served" => reading.events \subseteq reading.verified

\* While nothing is read, what was read stays true.
LEMMA WritesKeepReads ==
    ASSUME ReadInv, [Next]_vars, reading' = reading
    PROVE  ReadInv'
<1>1. FlowInv'
  BY FlowStep DEF ReadInv
<1>2. ASSUME NEW n \in Request, StampedWith(n) # {} PROVE Settled(n)
  BY <1>2, RecordedIsSettled DEF ReadInv
<1>3. rows \subseteq rows'
  BY OnlyCommitsRecord, CommitRecords, LedgerKept, TypesKept DEF ReadInv, Appended
<1>4. Signatures \subseteq Signatures'
  BY <1>3 DEF Signatures
<1>5. ASSUME NEW b, CountedWhole(b) PROVE CountedWhole(b)'
  <2>1. StampedWith(b.baseline)' = StampedWith(b.baseline)
    BY <1>2, <1>5 DEF CountedWhole, Settled
  <2> QED
    BY <1>5, <2>1 DEF CountedWhole
<1>6. ASSUME NEW n, NEW events, ShownWhole(n, events) PROVE ShownWhole(n, events)'
  <2>1. Settled(n) /\ n \in Request
    BY <1>2, <1>6 DEF ShownWhole
  <2>2. StampedWith(n)' = StampedWith(n) /\ request'[n] = request[n]
    BY <2>1 DEF Settled
  <2>3. TrailForBaseline(n) \subseteq TrailForBaseline(n)'
    BY <1>3, <2>2 DEF TrailForBaseline
  <2>4. ASSUME NEW r \in rows', r.entry.run = request[n].run, r \notin events
        PROVE  r.entry.type \in HumanEvent /\ r.entry.baseline # n
    <3>1. CASE r \in rows
      BY <1>6, <2>4, <3>1 DEF ShownWhole, ByRun
    <3>2. CASE r \notin rows
      BY <2>1, <2>4, <3>2 DEF Settled
    <3> QED
      BY <3>1, <3>2
  <2>5. \E s \in Signatures' \cap events : s.entry.baseline = n
    BY <1>4, <1>6 DEF ShownWhole
  <2>6. events \subseteq TrailForBaseline(n)' /\ StampedWith(n)' # {}
    BY <1>6, <2>2, <2>3 DEF ShownWhole
  <2>7. \A r \in ByRun(request[n].run)' : r \notin events =>
           r.entry.type \in HumanEvent /\ r.entry.baseline # n
    BY <2>2, <2>4 DEF ByRun
  <2> QED
    BY <2>1, <2>5, <2>6, <2>7 DEF ShownWhole
<1>7. /\ reading'.get = "list" => reading'.signatures \subseteq Signatures'
      /\ reading'.get = "listed" => \A b \in reading'.summaries : CountedWhole(b)'
      /\ reading'.get \in {"trail", "served"} => ShownWhole(reading.baseline, reading.events)'
  BY <1>4, <1>5, <1>6 DEF ReadInv
<1> QED
  BY <1>1, <1>7 DEF ReadInv

\* A read leaves the requests alone.
LEMMA ReadsKeepFlow ==
    ASSUME FlowInv, UNCHANGED vars
    PROVE  /\ FlowInv'
           /\ rows' = rows /\ request' = request
<1>1. FlowInv'
  BY FlowStep
<1> QED
  BY <1>1 DEF vars

\* Every step of the readers and of the requests keeps it.
LEMMA ReadStep == ReadInv /\ [ReadNext]_readVars => ReadInv'
<1> SUFFICES ASSUME ReadInv, [ReadNext]_readVars PROVE ReadInv'
  OBVIOUS
<1>1. CASE (\E n \in Request : Step(n)) /\ UNCHANGED reading
  BY <1>1, WritesKeepReads DEF Next
<1>2. CASE Restart /\ reading' = IF Idle THEN reading ELSE NoReading
  <2>1. CASE Idle
    BY <1>2, <2>1, WritesKeepReads DEF Next
  <2>2. CASE ~Idle
    <3>1. FlowInv'
      BY <1>2, FlowStep DEF ReadInv, Next
    <3>2. reading' = NoReading
      BY <1>2, <2>2
    <3> QED
      BY <3>1, <3>2 DEF ReadInv, NoReading
  <2> QED
    BY <2>1, <2>2
<1>3. CASE ListBaselines
  <2>1. FlowInv' /\ rows' = rows /\ request' = request
    BY <1>3, ReadsKeepFlow DEF ListBaselines, ReadInv
  <2>2. Signatures' = Signatures /\ \A n : StampedWith(n)' = StampedWith(n)
    BY <2>1 DEF Signatures, StampedWith
  <2>3. CASE reading' = [get |-> "list", signatures |-> Signatures]
    BY <2>1, <2>2, <2>3 DEF ReadInv
  <2>4. CASE /\ reading.get = "list"
             /\ reading' = [get |-> "listed",
                            summaries |-> ListingOf(reading.signatures, CompositionCounts)]
    <3>1. \A b \in ListingOf(reading.signatures, CompositionCounts) : CountedWhole(b)
      BY <2>4, SummaryIsWhole DEF ReadInv, ListingOf
    <3>2. \A b \in reading'.summaries : CountedWhole(b)'
      BY <2>2, <2>4, <3>1 DEF CountedWhole
    <3> QED
      BY <2>1, <2>4, <3>2 DEF ReadInv
  <2> QED
    BY <1>3, <2>3, <2>4 DEF ListBaselines
<1>4. ASSUME NEW n \in Request, ServeTrail(n) PROVE ReadInv'
  <2>1. FlowInv' /\ rows' = rows /\ request' = request
    BY <1>4, ReadsKeepFlow DEF ServeTrail, ReadInv
  <2>2. /\ TrailForBaseline(n)' = TrailForBaseline(n)
        /\ \A events : ShownWhole(n, events) => ShownWhole(n, events)'
    BY <2>1 DEF TrailForBaseline, StampedWith, ShownWhole, Signatures, ByRun
  <2>3. CASE TrailForBaseline(n) = {} /\ reading' = [get |-> "not_found", baseline |-> n]
    BY <2>1, <2>3 DEF ReadInv
  <2>4. CASE /\ TrailForBaseline(n) # {}
             /\ reading' = [get |-> "trail", baseline |-> n, events |-> TrailForBaseline(n)]
    <3>1. ShownWhole(n, TrailForBaseline(n))'
      BY <2>2, <2>4, TrailIsWhole DEF ReadInv
    <3>2. ShownWhole(reading.baseline, reading.events)'
      BY <2>2, <2>4, <3>1
    <3> QED
      BY <2>1, <2>4, <3>2 DEF ReadInv
  <2>5. CASE /\ reading.get = "trail" /\ reading.baseline = n
             /\ reading' = [get |-> "served", baseline |-> n, events |-> reading.events,
                            verified |-> TrailForBaseline(n)]
    <3>1. ShownWhole(n, reading.events)
      BY <2>5 DEF ReadInv
    <3>2. ShownWhole(reading.baseline, reading.events)'
      BY <2>2, <2>5, <3>1
    <3>3. reading.events \subseteq TrailForBaseline(n)
      BY <3>1 DEF ShownWhole
    <3> QED
      BY <2>1, <2>5, <3>2, <3>3 DEF ReadInv
  <2> QED
    BY <1>4, <2>3, <2>4, <2>5 DEF ServeTrail
<1>5. CASE UNCHANGED readVars
  BY <1>5, WritesKeepReads DEF readVars
<1> QED
  BY <1>1, <1>2, <1>3, <1>4, <1>5 DEF ReadNext

\* The invariant the theorems below are read off.
LEMMA ReadInvariant == ReadSpec => []ReadInv
<1>1. ReadInit => ReadInv
  BY FlowStart DEF ReadInit, ReadInv, NoReading
<1> QED
  BY <1>1, ReadStep, PTL DEF ReadSpec

-----------------------------------------------------------------------------
\* Whatever is committed while the list is read, every summary counts its
\* baseline whole.
THEOREM EverySummaryWhole == ReadSpec => []ListedWhole
<1>1. ReadInv => ListedWhole
  BY DEF ReadInv, ListedWhole, CountedWhole
<1> QED
  BY <1>1, ReadInvariant, PTL

\* A trail leaves out nothing that could appear on it later.
THEOREM EveryTrailWhole == ReadSpec => []ServedWhole
<1>1. ReadInv => ServedWhole
  BY DEF ReadInv, ServedWhole, ShownWhole
<1> QED
  BY <1>1, ReadInvariant, PTL

\* Every event that is served is covered by the verdict beside it.
THEOREM VerdictCoversTrail == ReadSpec => []ServedIsVerified
<1>1. ReadInv => ServedIsVerified
  BY DEF ReadInv, ServedIsVerified
<1> QED
  BY <1>1, ReadInvariant, PTL
=============================================================================
