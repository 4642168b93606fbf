-------------------------- MODULE Candidates_proofs --------------------------
(***************************************************************************)
(* Proofs about Candidates, of three kinds.                                *)
(*                                                                         *)
(* A text is attributed to the weights it was verified against, whatever   *)
(* is pulled while the requests of the process interleave and whenever the *)
(* process dies.  The weights change only by a pull, and a pull moves the  *)
(* count of pulls.  So a digest Ollama gave at a count is that of the      *)
(* weights for as long as the count stands, whether the digest is on its   *)
(* way to be compared, kept for the process, or held by the request that   *)
(* has the model write.  Only the pinned digest gets past the comparison.  *)
(*                                                                         *)
(* What the core, the retrieval, the explanations and a delta compute has  *)
(* the properties the runs check, for any declared data.  An invariant     *)
(* (DataInv) says that a request holds what those passes make of what it   *)
(* asked, and what it has recorded by then.  The rest is about the passes: *)
(* lemmas about the sequences and orders they are made of, by induction    *)
(* over data in the one form the provers can use, a least counterexample.  *)
(*                                                                         *)
(* The ledger alone tells what the core computed.  As long as a request is *)
(* where its core was recorded, all the ledger holds of it is the trail of *)
(* that core (CoreRecorded).  A trail is one block after another, so what  *)
(* it says of one capability is read back block by block, and repeating    *)
(* what it says from the options as mapped gives them as they were left.   *)
(***************************************************************************)
EXTENDS Candidates, FunctionTheorems, SequenceTheorems, FiniteSetTheorems,
        WellFoundedInduction, TLAPS

(***************************************************************************)
(* The pinned weights                                                      *)
(***************************************************************************)
\* What an answer of Ollama says holds of the weights until the next pull.
SaysWhatStands(a) ==
    /\ a.at \in Nat
    /\ a.at <= pulls
    /\ a.at = pulls => weights = a.digest

\* The inductive invariant.
CacheIsPinned ==
    Cached => /\ verified = Pinned
              /\ SaysWhatStands([digest |-> verified, at |-> verifiedAt])

ComparedIsWhatWasSaid ==
    \A r \in Request : stage[r] = "verifying" => SaysWhatStands(tags[r])

AskedIsPinned ==
    \A r \in Request : stage[r] = "asking" =>
        /\ tags[r].digest = Pinned
        /\ SaysWhatStands(tags[r])

PinnedInv ==
    /\ pulls \in Nat
    /\ stage \in [Request -> Stage]
    /\ DOMAIN tags = Request
    /\ CacheIsPinned
    /\ ComparedIsWhatWasSaid
    /\ AskedIsPinned
    /\ ProseFromPinnedWeights

-----------------------------------------------------------------------------
\* A step that neither has the model answer nor touches the model disturbs
\* nothing.
LEMMA QuietStep ==
    ASSUME PinnedInv, UNCHANGED <<modelVars, tags, prose>>,
           stage' \in [Request -> Stage],
           \A r \in Request : stage'[r] \in {"verifying", "asking"} => stage'[r] = stage[r]
    PROVE  PinnedInv'
BY DEF PinnedInv, modelVars, CacheIsPinned, ComparedIsWhatWasSaid, AskedIsPinned,
       ProseFromPinnedWeights, SaysWhatStands, Cached

\* A request that moves to a stage at which it asks nothing of the model.
LEMMA QuietMove ==
    ASSUME PinnedInv, UNCHANGED <<modelVars, tags, prose>>,
           NEW r \in Request, NEW to \in Stage \ {"verifying", "asking"},
           stage' = [stage EXCEPT ![r] = to]
    PROVE  PinnedInv'
<1>1. stage \in [Request -> Stage]
  BY DEF PinnedInv
<1>2. stage' \in [Request -> Stage]
  BY <1>1
<1>3. \A q \in Request : stage'[q] \in {"verifying", "asking"} => stage'[q] = stage[q]
  BY <1>1
<1> QED
  BY <1>2, <1>3, QuietStep

\* The steps of a request that has the core run, its answer put together, or its
\* error reported.
LEMMA StepsBesideTheModel ==
    ASSUME PinnedInv, NEW r \in Request,
           \/ RefuseScope(r) \/ RulesRefused(r) \/ ComputeCore(r) \/ RecordCore(r)
           \/ AppendRefused(r) \/ SkipRetrieval(r) \/ IndexUnavailable(r) \/ EncoderBroken(r)
           \/ Retrieve(r) \/ RecordRetrieval(r) \/ TagsGarbled(r) \/ AnswerCandidates(r)
           \/ RefuseEmptyDescription(r) \/ ParseFails(r) \/ RefuseDelta(r) \/ AnswerDelta(r)
    PROVE  PinnedInv'
<1> DEFINE Quiet == UNCHANGED <<modelVars, tags, prose>>
           Moved == \E to \in Stage \ {"verifying", "asking"} : stage' = [stage EXCEPT ![r] = to]
<1>1. CASE RefuseScope(r) \/ RefuseEmptyDescription(r) \/ RefuseDelta(r)
  <2>1. Quiet
    BY <1>1 DEF RefuseScope, RefuseEmptyDescription, RefuseDelta, Unmoved, dataVars, recordVars
  <2>2. Moved
    BY <1>1 DEF RefuseScope, RefuseEmptyDescription, RefuseDelta, Move, Stage, Ended
  <2> QED
    BY <2>1, <2>2, QuietMove
<1>2. CASE RulesRefused(r) \/ AppendRefused(r) \/ EncoderBroken(r) \/ TagsGarbled(r)
           \/ ParseFails(r)
  <2>1. Quiet
    BY <1>2 DEF RulesRefused, AppendRefused, EncoderBroken, TagsGarbled, ParseFails, Unmoved,
                dataVars, recordVars
  <2>2. Moved
    BY <1>2 DEF RulesRefused, AppendRefused, EncoderBroken, TagsGarbled, ParseFails, Move,
                Stage, Ended
  <2> QED
    BY <2>1, <2>2, QuietMove
<1>3. CASE ComputeCore(r) \/ RecordCore(r) \/ Retrieve(r) \/ RecordRetrieval(r) \/ AnswerDelta(r)
  <2>1. Quiet
    BY <1>3 DEF ComputeCore, RecordCore, Retrieve, RecordRetrieval, AnswerDelta, dataVars,
                recordVars
  <2>2. Moved
    BY <1>3 DEF ComputeCore, RecordCore, Retrieve, RecordRetrieval, AnswerDelta, Move, Stage,
                Ended
  <2> QED
    BY <2>1, <2>2, QuietMove
<1>4. CASE SkipRetrieval(r) \/ IndexUnavailable(r) \/ AnswerCandidates(r)
  <2>1. PICK from, report : Respond(r, from, report)
    BY <1>4 DEF SkipRetrieval, IndexUnavailable, AnswerCandidates
  <2>2. Quiet
    BY <2>1 DEF Respond, recordVars
  <2>3. Move(r, from, "answered") \/ Move(r, from, "failed")
    <3> DEFINE ok == IsWellFormed(run[r], CandidatesResponse(run[r], retrieved[r], report,
            FoldLeft(LAMBDA n, b : n + IF b.by = r THEN Len(b.entries) ELSE 0, 0, ledger)))
    <3>1. Move(r, from, IF ok THEN "answered" ELSE "failed")
      BY <2>1 DEF Respond
    <3> HIDE DEF ok
    <3> QED
      BY <3>1
  <2>4. Moved
    BY <2>3 DEF Move, Stage, Ended
  <2> QED
    BY <2>2, <2>4, QuietMove
<1> QED
  BY <1>1, <1>2, <1>3, <1>4

-----------------------------------------------------------------------------
\* The steps of a request at the model: its cache, the answer of Ollama, and
\* what is written.
LEMMA StepsAtTheModel ==
    ASSUME PinnedInv, NEW r \in Request,
           \/ VerifyFromCache(r) \/ AskTags(r) \/ Verify(r) \/ VerifyFails(r)
           \/ ExplainWithoutModel(r) \/ AgentAnswers(r) \/ AgentFails(r) \/ AnswerParse(r)
    PROVE  PinnedInv'
<1> USE DEF PinnedInv
<1>1. CASE VerifyFromCache(r)
  <2>1. /\ stage' = [stage EXCEPT ![r] = "asking"]
        /\ tags' = [tags EXCEPT ![r] = [digest |-> verified, at |-> verifiedAt]]
        /\ UNCHANGED <<weights, pulls, verified, verifiedAt, prose>>
        /\ Cached
    BY <1>1 DEF VerifyFromCache, modelVars, recordVars
  <2>2. tags'[r].digest = Pinned /\ SaysWhatStands(tags'[r])
    BY <2>1 DEF CacheIsPinned
  <2>3. AskedIsPinned'
    BY <2>1, <2>2 DEF AskedIsPinned, SaysWhatStands
  <2>4. ComparedIsWhatWasSaid'
    BY <2>1 DEF ComparedIsWhatWasSaid, SaysWhatStands
  <2>5. CacheIsPinned' /\ ProseFromPinnedWeights'
    BY <2>1 DEF CacheIsPinned, Cached, SaysWhatStands, ProseFromPinnedWeights
  <2> QED
    BY <2>1, <2>3, <2>4, <2>5 DEF Stage
<1>2. CASE AskTags(r)
  <2>1. /\ stage' = [stage EXCEPT ![r] = "verifying"]
        /\ tags' = [tags EXCEPT ![r] = [digest |-> weights, at |-> pulls]]
        /\ UNCHANGED <<weights, pulls, verified, verifiedAt, prose>>
    BY <1>2 DEF AskTags, Tags, modelVars, recordVars
  <2>2. SaysWhatStands(tags'[r])
    BY <2>1 DEF SaysWhatStands
  <2>3. ComparedIsWhatWasSaid'
    BY <2>1, <2>2 DEF ComparedIsWhatWasSaid, SaysWhatStands
  <2>4. AskedIsPinned'
    BY <2>1 DEF AskedIsPinned, SaysWhatStands
  <2>5. CacheIsPinned' /\ ProseFromPinnedWeights'
    BY <2>1 DEF CacheIsPinned, Cached, SaysWhatStands, ProseFromPinnedWeights
  <2> QED
    BY <2>1, <2>3, <2>4, <2>5 DEF Stage
<1>3. CASE Verify(r)
  <2>1. /\ stage[r] = "verifying"
        /\ stage' = [stage EXCEPT ![r] = "asking"]
        /\ verified' = tags[r].digest /\ verifiedAt' = tags[r].at
        /\ tags[r].digest = Pinned
        /\ UNCHANGED <<weights, pulls, tags, prose>>
    BY <1>3 DEF Verify, Accepts, Keep, Move, dataVars, recordVars
  <2>2. SaysWhatStands(tags[r])
    BY <2>1 DEF ComparedIsWhatWasSaid
  <2>3. CacheIsPinned'
    BY <2>1, <2>2 DEF CacheIsPinned, SaysWhatStands
  <2>4. AskedIsPinned'
    BY <2>1, <2>2 DEF AskedIsPinned, SaysWhatStands
  <2>5. ComparedIsWhatWasSaid' /\ ProseFromPinnedWeights'
    BY <2>1 DEF ComparedIsWhatWasSaid, SaysWhatStands, ProseFromPinnedWeights
  <2> QED
    BY <2>1, <2>3, <2>4, <2>5 DEF Stage
<1>4. CASE VerifyFails(r) \/ ExplainWithoutModel(r) \/ AgentFails(r)
  <2>1. UNCHANGED <<modelVars, tags, prose>>
    BY <1>4 DEF VerifyFails, ExplainWithoutModel, AgentFails, recordVars
  <2>2. \/ stage' = stage
        \/ \E to \in Stage \ {"verifying", "asking"} : stage' = [stage EXCEPT ![r] = to]
    BY <1>4 DEF VerifyFails, ExplainWithoutModel, AgentFails, Move, Stage, Ended
  <2>3. CASE stage' = stage
    BY <2>1, <2>3, QuietStep
  <2> QED
    BY <2>1, <2>2, <2>3, QuietMove
<1>5. CASE AgentAnswers(r) \/ AnswerParse(r)
  <2>1. /\ stage[r] = "asking"
        /\ UNCHANGED <<weights, pulls, verified, verifiedAt, tags>>
        /\ prose' = prose \cup {Written(r)}
    BY <1>5 DEF AgentAnswers, AnswerParse, Move, modelVars
  <2>2. PICK to \in Stage \ {"verifying", "asking"} : stage' = [stage EXCEPT ![r] = to]
    BY <1>5 DEF AgentAnswers, AnswerParse, Move, Stage, Ended
  <2>3. Written(r).digest = Pinned
        /\ (Written(r).weights # Pinned => Written(r).written_at > Written(r).verified_at)
    BY <2>1 DEF Written, AskedIsPinned, SaysWhatStands
  <2>4. ProseFromPinnedWeights'
    BY <2>1, <2>3 DEF ProseFromPinnedWeights
  <2>5. CacheIsPinned' /\ ComparedIsWhatWasSaid' /\ AskedIsPinned'
    BY <2>1, <2>2 DEF CacheIsPinned, Cached, ComparedIsWhatWasSaid, AskedIsPinned, SaysWhatStands
  <2> QED
    BY <2>1, <2>2, <2>4, <2>5
<1> QED
  BY <1>1, <1>2, <1>3, <1>4, <1>5

\* Weights are pulled, the process verifies as it starts, or it dies.
LEMMA StepsOfTheEnvironment ==
    ASSUME PinnedInv, PullWeights \/ WarmUp \/ Restart
    PROVE  PinnedInv'
<1> USE DEF PinnedInv
<1>1. CASE PullWeights
  <2>1. /\ pulls' = pulls + 1
        /\ UNCHANGED <<verified, verifiedAt, stage, tags, prose>>
    BY <1>1 DEF PullWeights, Pull, requestVars, dataVars, recordVars
  <2>2. ASSUME NEW a, SaysWhatStands(a)
        PROVE  SaysWhatStands(a)'
    BY <2>1, <2>2 DEF SaysWhatStands
  <2> QED
    BY <2>1, <2>2 DEF CacheIsPinned, Cached, ComparedIsWhatWasSaid, AskedIsPinned,
                      ProseFromPinnedWeights, SaysWhatStands
<1>2. CASE WarmUp
  <2>1. /\ weights = Pinned /\ verified' = weights /\ verifiedAt' = pulls
        /\ UNCHANGED <<weights, pulls, stage, tags, prose>>
    BY <1>2 DEF WarmUp, Accepts, Keep, Tags, requestVars, dataVars, recordVars
  <2>2. CacheIsPinned'
    BY <2>1 DEF CacheIsPinned, SaysWhatStands
  <2> QED
    BY <2>1, <2>2 DEF ComparedIsWhatWasSaid, AskedIsPinned, ProseFromPinnedWeights,
                      SaysWhatStands
<1>3. CASE Restart
  <2>1. /\ verified' = NoWeights
        /\ stage' = [r \in Request |-> IF stage[r] \in Ended THEN stage[r] ELSE "lost"]
        /\ UNCHANGED <<weights, pulls, tags, prose>>
    BY <1>3 DEF Restart, Forget, dataVars, recordVars
  <2>2. stage' \in [Request -> Stage]
    BY <2>1 DEF Stage, Ended
  <2>3. \A r \in Request : stage'[r] \notin {"verifying", "asking"}
    BY <2>1 DEF Ended
  <2>4. CacheIsPinned'
    BY <2>1 DEF CacheIsPinned, Cached
  <2> QED
    BY <2>1, <2>2, <2>3, <2>4 DEF ComparedIsWhatWasSaid, AskedIsPinned, ProseFromPinnedWeights
<1> QED
  BY <1>1, <1>2, <1>3

LEMMA PinnedInitially ==
    ASSUME Init
    PROVE  PinnedInv
<1>1. /\ pulls = 0 /\ verified = NoWeights /\ prose = {}
      /\ stage = [r \in Request |-> IF asks[r].kind = "none" THEN "idle" ELSE "received"]
      /\ tags = [r \in Request |-> NoAnswer]
  BY DEF Init, ModelInit
<1> QED
  BY <1>1 DEF PinnedInv, CacheIsPinned, Cached, ComparedIsWhatWasSaid, AskedIsPinned,
              ProseFromPinnedWeights, Stage, Ended

LEMMA PinnedStep ==
    ASSUME PinnedInv, [Next]_vars
    PROVE  PinnedInv'
<1>1. ASSUME NEW r \in Request, Step(r)
      PROVE  PinnedInv'
  BY <1>1, StepsBesideTheModel, StepsAtTheModel DEF Step
<1>2. CASE Rest \/ UNCHANGED vars
  BY <1>2 DEF Rest, vars, modelVars, requestVars, dataVars, recordVars, PinnedInv,
              CacheIsPinned, Cached, ComparedIsWhatWasSaid, AskedIsPinned,
              ProseFromPinnedWeights, SaysWhatStands
<1> QED
  BY <1>1, <1>2, StepsOfTheEnvironment DEF Next

\* Every text is of the pinned weights, or of weights pulled after Ollama gave the
\* digest the process still trusts (parse/ollama.py, verify_model).
THEOREM ProseIsFromPinnedWeights == Spec => []ProseFromPinnedWeights
<1>1. PinnedInv => ProseFromPinnedWeights
  BY DEF PinnedInv
<1> QED
  BY <1>1, PinnedInitially, PinnedStep, PTL DEF Spec

(***************************************************************************)
(* Orders and selections                                                   *)
(***************************************************************************)
\* R is a strict total order of S.
Orders(R, S) ==
    /\ \A c \in S : <<c, c>> \notin R
    /\ \A c, d \in S : c # d => <<c, d>> \in R \/ <<d, c>> \in R
    /\ \A c, d, e \in S : <<c, d>> \in R /\ <<d, e>> \in R => <<c, e>> \in R

Before(S, R, c) == {d \in S : <<d, c>> \in R}

\* How many come before an element decides between any two of them.
LEMMA RankDecides ==
    ASSUME NEW S, IsFiniteSet(S), NEW R, Orders(R, S)
    PROVE  /\ \A c \in S : Cardinality(Before(S, R, c)) \in 0..(Cardinality(S) - 1)
           /\ \A c, d \in S : <<c, d>> \in R =>
                Cardinality(Before(S, R, c)) < Cardinality(Before(S, R, d))
<1>1. Cardinality(S) \in Nat
  BY FS_CardinalityType
<1>2. ASSUME NEW c \in S
      PROVE  Cardinality(Before(S, R, c)) \in 0..(Cardinality(S) - 1)
  <2>1. Before(S, R, c) \subseteq S \ {c}
    BY DEF Before, Orders
  <2>2. IsFiniteSet(S \ {c}) /\ Cardinality(S \ {c}) = Cardinality(S) - 1
    BY FS_RemoveElement
  <2>3. IsFiniteSet(Before(S, R, c)) /\ Cardinality(Before(S, R, c)) <= Cardinality(S \ {c})
    BY <2>1, <2>2, FS_Subset
  <2>4. Cardinality(Before(S, R, c)) \in Nat
    BY <2>3, FS_CardinalityType
  <2> QED
    BY <1>1, <2>2, <2>3, <2>4
<1>3. ASSUME NEW c \in S, NEW d \in S, <<c, d>> \in R
      PROVE  Cardinality(Before(S, R, c)) < Cardinality(Before(S, R, d))
  <2>1. /\ Before(S, R, c) \subseteq Before(S, R, d)
        /\ c \in Before(S, R, d) /\ c \notin Before(S, R, c)
    BY <1>3 DEF Before, Orders
  <2>2. IsFiniteSet(Before(S, R, d))
    BY FS_Subset DEF Before
  <2>3. /\ Cardinality(Before(S, R, c)) <= Cardinality(Before(S, R, d))
        /\ Cardinality(Before(S, R, c)) # Cardinality(Before(S, R, d))
    BY <2>1, <2>2, FS_Subset
  <2>4. Cardinality(Before(S, R, c)) \in Int /\ Cardinality(Before(S, R, d)) \in Int
    BY <1>2
  <2> QED
    BY <2>3, <2>4
<1> QED
  BY <1>2, <1>3

\* InOrder lists every element of a finite set once, in the order.
LEMMA InOrderLists ==
    ASSUME NEW S, IsFiniteSet(S), NEW R, Orders(R, S)
    PROVE  /\ Cardinality(S) \in Nat
           /\ InOrder(S, R) \in [1..Cardinality(S) -> S]
           /\ InOrder(S, R) \in Seq(S) /\ Len(InOrder(S, R)) = Cardinality(S)
           /\ \A i, j \in 1..Cardinality(S) : i < j =>
                <<InOrder(S, R)[i], InOrder(S, R)[j]>> \in R
           /\ \A i, j \in 1..Cardinality(S) : InOrder(S, R)[i] = InOrder(S, R)[j] => i = j
           /\ \A c \in S : \E i \in 1..Cardinality(S) : InOrder(S, R)[i] = c
<1> DEFINE n == Cardinality(S)
           rank == [c \in S |-> Cardinality(Before(S, R, c)) + 1]
           s == InOrder(S, R)
<1>1. n \in Nat
  BY FS_CardinalityType
<1>2. rank \in [S -> 1..n]
  BY <1>1, RankDecides
<1>3. \A c, d \in S : <<c, d>> \in R => rank[c] < rank[d]
  <2>1. \A c \in S : Cardinality(Before(S, R, c)) \in Int
    BY RankDecides
  <2> QED
    BY <2>1, RankDecides
<1>r. \A c \in S : rank[c] = Cardinality(Before(S, R, c)) + 1
  OBVIOUS
<1> HIDE DEF rank
<1>4. \A c, d \in S : rank[c] = rank[d] => c = d
  <2> HIDE DEF n
  <2>1. \A c \in S : rank[c] \in Int
    BY <1>1, <1>2
  <2>2. \A c, d \in S : <<c, d>> \in R => rank[c] # rank[d]
    BY <1>3, <2>1
  <2> QED
    BY <2>2 DEF Orders
<1>5. \A i \in 1..n : \E c \in S : rank[c] = i
  <2>1. rank \in Injection(S, 1..n)
    BY <1>2, <1>4, Fun_IsInj
  <2>2. IsFiniteSet(1..n) /\ Cardinality(1..n) = n
    <3> HIDE DEF n
    <3> QED BY <1>1, FS_Interval
  <2>3. rank \in Surjection(S, 1..n)
    BY <2>1, <2>2, FS_Injection
  <2> QED
    BY <2>3 DEF Surjection
<1>6. s = [i \in 1..n |-> CHOOSE c \in S : Cardinality(Before(S, R, c)) = i - 1]
  BY DEF InOrder, Before
<1>7. \A i \in 1..n : s[i] \in S /\ rank[s[i]] = i
  <2> SUFFICES ASSUME NEW i \in 1..n PROVE s[i] \in S /\ rank[s[i]] = i
    OBVIOUS
  <2>1. \E c \in S : Cardinality(Before(S, R, c)) = i - 1
    <3>1. PICK c \in S : rank[c] = i
      BY <1>5
    <3>2. Cardinality(Before(S, R, c)) \in Int
      BY RankDecides
    <3> QED
      BY <1>1, <1>r, <3>1, <3>2
  <2> DEFINE x == CHOOSE c \in S : Cardinality(Before(S, R, c)) = i - 1
  <2>2. x \in S /\ Cardinality(Before(S, R, x)) = i - 1
    BY <2>1
  <2>3. s[i] = x
    BY <1>6
  <2> HIDE DEF x, s
  <2>4. rank[x] = i
    BY <1>1, <1>r, <2>2
  <2> QED
    BY <2>2, <2>3, <2>4
<1>8. s \in [1..n -> S]
  <2>1. s = [i \in 1..n |-> s[i]]
    BY <1>6
  <2> HIDE DEF s
  <2> QED
    BY <1>7, <2>1
<1> HIDE DEF s, n, rank
<1>9. s \in Seq(S) /\ Len(s) = n
  BY <1>1, <1>8
<1>10. \A i, j \in 1..n : i < j => <<s[i], s[j]>> \in R
  <2> SUFFICES ASSUME NEW i \in 1..n, NEW j \in 1..n, i < j
               PROVE  <<s[i], s[j]>> \in R
    OBVIOUS
  <2>1. s[i] \in S /\ s[j] \in S /\ rank[s[i]] = i /\ rank[s[j]] = j
    BY <1>7
  <2>2. s[i] # s[j] /\ ~(<<s[j], s[i]>> \in R)
    BY <1>1, <1>3, <2>1
  <2> QED
    BY <2>1, <2>2 DEF Orders
<1>11. \A i, j \in 1..n : s[i] = s[j] => i = j
  BY <1>7
<1>12. \A c \in S : \E i \in 1..n : s[i] = c
  <2> SUFFICES ASSUME NEW c \in S PROVE \E i \in 1..n : s[i] = c
    OBVIOUS
  <2>1. rank[c] \in 1..n /\ s[rank[c]] \in S /\ rank[s[rank[c]]] = rank[c]
    BY <1>2, <1>7
  <2> QED
    BY <1>4, <2>1
<1> QED
  BY <1>1, <1>8, <1>9, <1>10, <1>11, <1>12 DEF s, n

\* A finite set of numbers, in ascending order.
LEMMA AscendingLists ==
    ASSUME NEW S, IsFiniteSet(S), S \subseteq Int
    PROVE  /\ Cardinality(S) \in Nat
           /\ Ascending(S) \in [1..Cardinality(S) -> S]
           /\ Ascending(S) \in Seq(S) /\ Len(Ascending(S)) = Cardinality(S)
           /\ \A i, j \in 1..Cardinality(S) : i < j => Ascending(S)[i] < Ascending(S)[j]
           /\ \A c \in S : \E i \in 1..Cardinality(S) : Ascending(S)[i] = c
<1> DEFINE R == {p \in S \X S : p[1] < p[2]}
<1>1. \A c, d \in S : <<c, d>> \in R <=> c < d
  OBVIOUS
<1>2. Ascending(S) = InOrder(S, R)
  BY DEF Ascending
<1> HIDE DEF R
<1>3. Orders(R, S)
  BY <1>1 DEF Orders
<1>4. /\ Cardinality(S) \in Nat
      /\ InOrder(S, R) \in [1..Cardinality(S) -> S]
      /\ InOrder(S, R) \in Seq(S) /\ Len(InOrder(S, R)) = Cardinality(S)
      /\ \A i, j \in 1..Cardinality(S) : i < j => <<InOrder(S, R)[i], InOrder(S, R)[j]>> \in R
      /\ \A c \in S : \E i \in 1..Cardinality(S) : InOrder(S, R)[i] = c
  BY <1>3, InOrderLists
<1>5. \A i, j \in 1..Cardinality(S) : i < j => Ascending(S)[i] < Ascending(S)[j]
  BY <1>1, <1>2, <1>4
<1> QED
  BY <1>2, <1>4, <1>5

-----------------------------------------------------------------------------
\* Of the numbers that a set holds, one is the least.
LEMMA LeastOne ==
    ASSUME NEW T, T \subseteq Nat, T # {}
    PROVE  \E n \in T : \A m \in T : ~(m < n)
<1>1. PICK n \in T : \A m \in T : ~(<<m, n>> \in OpToRel(<, Nat))
  BY NatLessThanWellFounded, WFMin, Zenon
<1> QED
  BY <1>1 DEF OpToRel

\* What is computed step by step from the number before exists.
Stepping(N, D, base, next) == N \in Nat /\ base \in D /\ next \in [(1..N) \X D -> D]
Walks(N, D, base, next, f) ==
    f \in [0..N -> D] /\ f[0] = base /\ \A n \in 1..N : f[n] = next[<<n, f[n - 1]>>]

\* What every step relates, all the steps relate, as long as it is transitive.
LEMMA StepByStep ==
    ASSUME NEW N, NEW D, NEW base, NEW next, Stepping(N, D, base, next)
    PROVE  \E f : Walks(N, D, base, next, f)
<1>0. N \in Nat /\ base \in D /\ next \in [(1..N) \X D -> D]
  BY DEF Stepping
<1> USE <1>0
<1> DEFINE Upto(m, f) == f[0] = base /\ \A n \in 1..m : f[n] = next[<<n, f[n - 1]>>]
           T == {m \in 0..N : ~ \E f \in [0..m -> D] : Upto(m, f)}
<1>1. T = {}
  <2> SUFFICES ASSUME T # {} PROVE FALSE
    OBVIOUS
  <2>1. T \subseteq Nat
    OBVIOUS
  <2>2. PICK m \in T : \A k \in T : ~(k < m)
    <3> HIDE DEF T
    <3> QED BY <2>1, LeastOne
  <2>3. m \in 0..N
    OBVIOUS
  <2>4. CASE m = 0
    <3>1. [n \in 0..0 |-> base] \in [0..0 -> D] /\ Upto(0, [n \in 0..0 |-> base])
      OBVIOUS
    <3> QED BY <2>4, <3>1
  <2>5. CASE m > 0
    <3>1. m - 1 \in 0..N /\ m - 1 \notin T
      <4> HIDE DEF T
      <4> QED BY <2>2, <2>3, <2>5
    <3>2. PICK f \in [0..(m - 1) -> D] : Upto(m - 1, f)
      BY <3>1
    <3> DEFINE y == next[<<m, f[m - 1]>>]
               g == [n \in 0..m |-> IF n = m THEN y ELSE f[n]]
    <3>3. y \in D
      BY <2>3, <2>5
    <3>4. g \in [0..m -> D]
      <4> HIDE DEF y
      <4> QED BY <2>3, <3>3
    <3>5. Upto(m, g)
      <4>1. g[0] = base
        BY <2>3, <2>5, <3>2
      <4>2. ASSUME NEW n \in 1..m PROVE g[n] = next[<<n, g[n - 1]>>]
        <5>1. n - 1 \in 0..(m - 1) /\ g[n - 1] = f[n - 1]
          BY <2>3
        <5>2. CASE n = m
          <6>1. g[m] = y /\ y = next[<<m, f[m - 1]>>]
            BY <2>3
          <6> HIDE DEF g, y
          <6> QED BY <5>1, <5>2, <6>1
        <5>3. CASE n # m
          <6>1. n \in 1..(m - 1) /\ g[n] = f[n]
            BY <2>3, <5>3
          <6> HIDE DEF g
          <6> QED BY <3>2, <5>1, <6>1
        <5> QED BY <5>2, <5>3
      <4> QED BY <4>1, <4>2
    <3> QED BY <3>4, <3>5
  <2> QED BY <2>3, <2>4, <2>5
<1>2. N \in 0..N /\ N \notin T
  BY <1>1
<1> QED
  BY <1>2 DEF Walks

-----------------------------------------------------------------------------
Positions(s, X) == {i \in DOMAIN s : s[i] \in X}

\* Only keeps the elements that are in X, each at its turn.
LEMMA OnlyKeeps ==
    ASSUME NEW A, NEW s \in Seq(A), NEW X
    PROVE  LET t == Only(s, X)
               at == Ascending(Positions(s, X))
           IN  /\ t \in Seq(A) /\ Len(t) \in Nat /\ Len(t) <= Len(s)
               /\ at \in [1..Len(t) -> 1..Len(s)]
               /\ \A n \in 1..Len(t) : t[n] = s[at[n]] /\ t[n] \in X
               /\ \A m, n \in 1..Len(t) : m < n => at[m] < at[n]
               /\ \A i \in 1..Len(s) : s[i] \in X => \E n \in 1..Len(t) : at[n] = i
<1> DEFINE P == Positions(s, X)
           at == Ascending(P)
           t == Only(s, X)
<1>1. Len(s) \in Nat /\ DOMAIN s = 1..Len(s) /\ \A i \in 1..Len(s) : s[i] \in A
  BY LenProperties, ElementOfSeq
<1>2. P \subseteq 1..Len(s) /\ P \subseteq Int /\ \A i \in P : s[i] \in X /\ s[i] \in A
  BY <1>1 DEF Positions
<1>3. IsFiniteSet(P) /\ Cardinality(P) <= Len(s)
  <2> HIDE DEF P
  <2> DEFINE n == Len(s)
  <2> HIDE DEF n
  <2>0. n \in Nat
    BY <1>1 DEF n
  <2>1. IsFiniteSet(1..n) /\ Cardinality(1..n) = n
    BY <2>0, FS_Interval
  <2> USE DEF n
  <2> QED BY <1>2, <2>1, FS_Subset
<1>4. /\ Cardinality(P) \in Nat
      /\ at \in [1..Cardinality(P) -> P]
      /\ \A m, n \in 1..Cardinality(P) : m < n => at[m] < at[n]
      /\ \A i \in P : \E n \in 1..Cardinality(P) : at[n] = i
  <2> HIDE DEF P
  <2> QED BY <1>2, <1>3, AscendingLists
<1>5. t = [n \in DOMAIN at |-> s[at[n]]]
  BY DEF Only, Positions
<1> HIDE DEF P, at, t
<1>6. DOMAIN at = 1..Cardinality(P)
  BY <1>4
<1>7. t = [n \in 1..Cardinality(P) |-> s[at[n]]] /\ t \in [1..Cardinality(P) -> A]
  BY <1>2, <1>4, <1>5, <1>6
<1>8. t \in Seq(A) /\ Len(t) = Cardinality(P)
  <2> DEFINE n == Cardinality(P)
  <2>1. n \in Nat /\ t \in [1..n -> A]
    BY <1>4, <1>7
  <2> HIDE DEF n
  <2>2. t \in Seq(A) /\ Len(t) = n
    BY <2>1
  <2> QED BY <2>2 DEF n
<1>9. at \in [1..Len(t) -> 1..Len(s)]
  BY <1>2, <1>4, <1>8
<1>10. \A i \in 1..Len(s) : s[i] \in X => i \in P
  BY <1>1 DEF P, Positions
<1>11. \A n \in 1..Len(t) : t[n] = s[at[n]] /\ t[n] \in X
  BY <1>2, <1>4, <1>7, <1>8
<1> QED
  BY <1>3, <1>4, <1>8, <1>9, <1>10, <1>11 DEF P, at, t

\* What is kept is what was there and is in X.
LEMMA OnlySet ==
    ASSUME NEW A, NEW s \in Seq(A), NEW X
    PROVE  ToSet(Only(s, X)) = ToSet(s) \cap X
<1> DEFINE t == Only(s, X)
           at == Ascending(Positions(s, X))
<1>1. /\ t \in Seq(A) /\ Len(t) \in Nat
      /\ at \in [1..Len(t) -> 1..Len(s)]
      /\ \A n \in 1..Len(t) : t[n] = s[at[n]] /\ t[n] \in X
      /\ \A i \in 1..Len(s) : s[i] \in X => \E n \in 1..Len(t) : at[n] = i
  BY OnlyKeeps
<1> HIDE DEF t, at
<1>2. DOMAIN t = 1..Len(t) /\ DOMAIN s = 1..Len(s)
  BY <1>1, LenProperties
<1>3. ToSet(t) \subseteq ToSet(s) \cap X
  BY <1>1, <1>2 DEF ToSet
<1>4. ToSet(s) \cap X \subseteq ToSet(t)
  BY <1>1, <1>2 DEF ToSet
<1> QED
  BY <1>3, <1>4 DEF t

\* What holds of 0, and of a number when it holds of the one before, holds up to N.
LEMMA Upward ==
    ASSUME NEW N \in Nat, NEW T, 0 \in T, \A n \in 1..N : n - 1 \in T => n \in T
    PROVE  \A n \in 0..N : n \in T
<1> DEFINE U == {n \in 0..N : n \notin T}
<1>1. U = {}
  <2> SUFFICES ASSUME U # {} PROVE FALSE
    OBVIOUS
  <2>1. U \subseteq Nat
    OBVIOUS
  <2>2. PICK m \in U : \A k \in U : ~(k < m)
    <3> HIDE DEF U
    <3> QED BY <2>1, LeastOne
  <2>3. m \in 1..N /\ m - 1 \in 0..N
    OBVIOUS
  <2>4. m - 1 \notin U
    <3> HIDE DEF U
    <3> QED BY <2>2, <2>3
  <2> QED BY <2>3, <2>4
<1> QED
  BY <1>1

(***************************************************************************)
(* The options of a capability                                             *)
(***************************************************************************)
\* The context of a declared zone has its types.
LEMMA ZoneOfContext ==
    ASSUME NEW zone \in Zone, NEW profile \in Profile
    PROVE  ZoneContext(zone, profile) \in ZoneContextType
<1>1. DomainOf(zone, profile) \in ZoneDomain
  BY DEF Zone, Profile, DomainOf, ZoneDomain
<1>2. IsSafetyRelevant(zone, profile) \in BOOLEAN
  BY DEF IsSafetyRelevant
<1>3. (IF zone.sectors = {} THEN profile.sectors ELSE zone.sectors) \in SUBSET Sector
  BY DEF Zone, Profile
<1> HIDE DEF DomainOf, IsSafetyRelevant
<1> QED
  BY <1>1, <1>2, <1>3 DEF ZoneContext, ZoneContextType, Zone

\* Every control has a place in the precedence of every domain.
LEMMA PrecedenceIndexIsInt ==
    ASSUME NEW zone \in ZoneContextType, NEW c \in Control
    PROVE  PrecedenceIndex(zone, c) \in Nat
<1>1. zone.domain \in ZoneDomain /\ Attributes[c].framework \in Framework
  BY AttributesAssumption DEF ZoneContextType, FrameworkControl
<1>2. /\ Precedence[zone.domain] \in Seq(Framework)
      /\ \E i \in DOMAIN Precedence[zone.domain] :
            Precedence[zone.domain][i] = Attributes[c].framework
  BY <1>1, PrecedenceAssumption
<1>3. DOMAIN Precedence[zone.domain] \subseteq Nat
  BY <1>2, LenProperties
<1> QED
  BY <1>2, <1>3 DEF PrecedenceIndex

\* A lexicographic comparison of four numbers, the last of which tells any two
\* elements apart, orders them.
OrderedByKey(S, t, w, p, R) ==
    /\ S \subseteq Int /\ t \in [S -> Int] /\ w \in [S -> Int] /\ p \in [S -> Int]
    /\ \A c, d \in S : <<c, d>> \in R <=>
          LexicographicallyBefore(<<t[c], w[c], p[c], c>>, <<t[d], w[d], p[d], d>>)

\* Options compared by a key of four numbers, the last one their own, are in a strict
\* total order.
LEMMA KeyOrders ==
    ASSUME NEW S, NEW t, NEW w, NEW p, NEW R, OrderedByKey(S, t, w, p, R)
    PROVE  Orders(R, S)
<1>1. /\ S \subseteq Int /\ t \in [S -> Int] /\ w \in [S -> Int] /\ p \in [S -> Int]
      /\ \A c, d \in S : <<c, d>> \in R <=>
            LexicographicallyBefore(<<t[c], w[c], p[c], c>>, <<t[d], w[d], p[d], d>>)
  BY DEF OrderedByKey
<1>2. ASSUME NEW c \in S, NEW d \in S
      PROVE  <<c, d>> \in R <=>
                \/ t[c] < t[d]
                \/ t[c] = t[d] /\ w[c] < w[d]
                \/ t[c] = t[d] /\ w[c] = w[d] /\ p[c] < p[d]
                \/ t[c] = t[d] /\ w[c] = w[d] /\ p[c] = p[d] /\ c < d
  <2> DEFINE a == <<t[c], w[c], p[c], c>>
             b == <<t[d], w[d], p[d], d>>
             Here(i) == a[i] < b[i] /\ \A j \in 1..(i - 1) : a[j] = b[j]
  <2>1. DOMAIN a = {1, 2, 3, 4} /\ 1..(1 - 1) = {} /\ 1..(2 - 1) = {1} /\ 1..(3 - 1) = {1, 2}
        /\ 1..(4 - 1) = {1, 2, 3}
    OBVIOUS
  <2>2. LexicographicallyBefore(a, b) <=> \E i \in DOMAIN a : Here(i)
    BY DEF LexicographicallyBefore
  <2>3. (\E i \in DOMAIN a : Here(i)) <=> Here(1) \/ Here(2) \/ Here(3) \/ Here(4)
    <3> HIDE DEF Here, a, b
    <3> QED BY <2>1
  <2>4. /\ Here(1) <=> t[c] < t[d]
        /\ Here(2) <=> t[c] = t[d] /\ w[c] < w[d]
        /\ Here(3) <=> t[c] = t[d] /\ w[c] = w[d] /\ p[c] < p[d]
        /\ Here(4) <=> t[c] = t[d] /\ w[c] = w[d] /\ p[c] = p[d] /\ c < d
    BY <2>1
  <2> HIDE DEF Here
  <2> QED
    BY <1>1, <2>2, <2>3, <2>4
<1>3. \A c \in S : t[c] \in Int /\ w[c] \in Int /\ p[c] \in Int /\ c \in Int
  BY <1>1
<1>4. \A c \in S : <<c, c>> \notin R
  BY <1>2, <1>3
<1>5. \A c, d \in S : c # d => <<c, d>> \in R \/ <<d, c>> \in R
  BY <1>2, <1>3
<1>6. \A c, d, e \in S : <<c, d>> \in R /\ <<d, e>> \in R => <<c, e>> \in R
  BY <1>2, <1>3
<1> QED
  BY <1>4, <1>5, <1>6 DEF Orders

Options(S) == [S -> CandidateOption]

\* The options of a capability as they are built.
LEMMA BuiltOptions ==
    ASSUME NEW mappings \in SUBSET Mapping, NEW k
    PROVE  LET o == BuildOptions(mappings, k)
           IN  /\ DOMAIN o \subseteq Control
               /\ o \in Options(DOMAIN o)
               /\ \A c \in DOMAIN o : o[c].status = "eligible"
<1> DEFINE of == {m \in mappings : m.capability = k}
           mapped(c) == CHOOSE m \in of : m.control = c
           S == {m.control : m \in of}
           o == BuildOptions(mappings, k)
<1>1. o = [c \in S |-> [mapping_type |-> mapped(c).mapping_type,
                        coverage_weight |-> mapped(c).coverage_weight,
                        status |-> "eligible", excluded |-> None]]
  BY DEF BuildOptions
<1>2. \A c \in S : mapped(c) \in Mapping
  BY DEF Mapping
<1>3. S \subseteq Control
  BY DEF Mapping
<1>4. \A c \in S : mapped(c).mapping_type \in MappingType /\ mapped(c).coverage_weight \in 0..Full
  BY <1>2 DEF Mapping
<1> HIDE DEF S, mapped, o
<1>5. o \in [S -> CandidateOption]
  BY <1>1, <1>4 DEF CandidateOption, CandidateStatus
<1>6. DOMAIN o = S /\ \A c \in S : o[c].status = "eligible"
  BY <1>1
<1> QED
  BY <1>3, <1>5, <1>6 DEF o, Options

\* The options are shown once each.
LEMMA PresentedLists ==
    ASSUME NEW S \in SUBSET Control, NEW o \in Options(S), NEW zone \in ZoneContextType
    PROVE  /\ Presented(o, zone) \in Seq(Control)
           /\ IsInjective(Presented(o, zone))
           /\ ToSet(Presented(o, zone)) = S
<1> DEFINE R == {q \in S \X S : ShownBefore(o, zone, q[1], q[2])}
           t == [c \in S |-> MAPPING_TYPE_RANK[o[c].mapping_type]]
           w == [c \in S |-> Full - o[c].coverage_weight]
           p == [c \in S |-> PrecedenceIndex(zone, c)]
<1>1. DOMAIN o = S /\ Presented(o, zone) = InOrder(S, R)
  BY DEF Options, Presented
<1>2. IsFiniteSet(S)
  BY FS_Subset, FiniteCatalogAssumption
<1>3. ASSUME NEW c \in S
      PROVE  /\ MAPPING_TYPE_RANK[o[c].mapping_type] \in Int
             /\ Full - o[c].coverage_weight \in Int
             /\ PrecedenceIndex(zone, c) \in Int /\ c \in Int
  <2>1. o[c] \in CandidateOption
    BY DEF Options
  <2>2. MAPPING_TYPE_RANK[o[c].mapping_type] \in Int /\ Full - o[c].coverage_weight \in Int
    BY <2>1, FullAssumption DEF CandidateOption, MappingType, MAPPING_TYPE_RANK
  <2>3. c \in Int
    BY ControlsAssumption DEF ControlsAreOrdered
  <2>4. PrecedenceIndex(zone, c) \in Nat
    BY PrecedenceIndexIsInt
  <2> QED BY <2>2, <2>3, <2>4
<1>4. S \subseteq Int /\ t \in [S -> Int] /\ w \in [S -> Int] /\ p \in [S -> Int]
  BY <1>3
<1>5. \A c, d \in S : <<c, d>> \in R <=>
          LexicographicallyBefore(<<t[c], w[c], p[c], c>>, <<t[d], w[d], p[d], d>>)
  BY DEF ShownBefore
<1> HIDE DEF t, w, p, R
<1>7. Orders(R, S)
  BY <1>4, <1>5, KeyOrders DEF OrderedByKey
<1> DEFINE s == InOrder(S, R)
<1>8. /\ Cardinality(S) \in Nat
      /\ s \in [1..Cardinality(S) -> S]
      /\ s \in Seq(S)
      /\ \A i, j \in 1..Cardinality(S) : s[i] = s[j] => i = j
      /\ \A c \in S : \E i \in 1..Cardinality(S) : s[i] = c
  BY <1>2, <1>7, InOrderLists
<1> HIDE DEF s
<1>9. s \in Seq(Control)
  BY <1>8
<1>10. IsInjective(s)
  BY <1>8 DEF IsInjective
<1>11. ToSet(s) = S
  BY <1>8 DEF ToSet
<1> QED
  BY <1>1, <1>9, <1>10, <1>11 DEF s

(***************************************************************************)
(* Contradictions                                                          *)
(***************************************************************************)
\* The contradictions that apply, out of those declared.
LEMMA DeclaredOnes ==
    ASSUME NEW rules \in Seq(Contradiction), NEW k, NEW o, NEW zone
    PROVE  LET declared == ContradictionsFor(rules, k, o, zone)
           IN  /\ declared \in Seq(Contradiction)
               /\ ToSet(declared) = {rule \in ToSet(rules) :
                                        AppliesTo(rule, k, zone) /\ Materialised(rule, o)}
<1> DEFINE X == {rule \in ToSet(rules) : AppliesTo(rule, k, zone) /\ Materialised(rule, o)}
           declared == ContradictionsFor(rules, k, o, zone)
<1>1. declared = Only(rules, X)
  BY DEF ContradictionsFor
<1>2. X \subseteq ToSet(rules)
  OBVIOUS
<1> HIDE DEF X
<1>3. Only(rules, X) \in Seq(Contradiction)
  BY OnlyKeeps
<1>4. ToSet(Only(rules, X)) = ToSet(rules) \cap X
  BY OnlySet
<1> QED
  BY <1>1, <1>2, <1>3, <1>4 DEF X

\* The status a rule leaves an option with; nothing else of it changes.
LEMMA ResolvedOnce ==
    ASSUME NEW S, NEW o \in Options(S), NEW rule \in Contradiction, NEW zone
    PROVE  LET after == ResolveContradiction(rule, o, zone)
               involved == rule.control_ids \cap S
           IN  /\ after \in Options(S)
               /\ \A c \in S :
                     /\ after[c].mapping_type = o[c].mapping_type
                     /\ after[c].coverage_weight = o[c].coverage_weight
                     /\ after[c].status =
                           IF rule.resolution = "safety_override"
                           THEN IF c \in involved THEN "contested" ELSE o[c].status
                           ELSE IF c \in involved \ {Prevailing(rule, o, zone)}
                                THEN "superseded" ELSE o[c].status
<1>1. DOMAIN o = S /\ Involved(rule, o) = rule.control_ids \cap S
  BY DEF Options, Involved
<1>2. ASSUME NEW X, NEW status \in CandidateStatus
      PROVE  /\ WithStatus(o, X, status) \in Options(S)
             /\ \A c \in S :
                   /\ WithStatus(o, X, status)[c].mapping_type = o[c].mapping_type
                   /\ WithStatus(o, X, status)[c].coverage_weight = o[c].coverage_weight
                   /\ WithStatus(o, X, status)[c].status = IF c \in X THEN status ELSE o[c].status
  <2>1. WithStatus(o, X, status) = [c \in S |-> IF c \in X THEN [o[c] EXCEPT !.status = status] ELSE o[c]]
    BY <1>1 DEF WithStatus
  <2>2. \A c \in S : o[c] \in CandidateOption
    BY DEF Options
  <2>3. \A c \in S : /\ [o[c] EXCEPT !.status = status] \in CandidateOption
                     /\ [o[c] EXCEPT !.status = status].mapping_type = o[c].mapping_type
                     /\ [o[c] EXCEPT !.status = status].coverage_weight = o[c].coverage_weight
                     /\ [o[c] EXCEPT !.status = status].status = status
    BY <2>2 DEF CandidateOption
  <2>4. WithStatus(o, X, status) \in Options(S)
    BY <2>1, <2>2, <2>3 DEF Options
  <2> QED
    BY <2>1, <2>3, <2>4
<1>3. "contested" \in CandidateStatus /\ "superseded" \in CandidateStatus
  BY DEF CandidateStatus
<1> DEFINE after == ResolveContradiction(rule, o, zone)
<1>4. CASE rule.resolution = "safety_override"
  <2>1. after = WithStatus(o, rule.control_ids \cap S, "contested")
    BY <1>1, <1>4 DEF ResolveContradiction, ApplySafetyOverride
  <2> QED
    BY <1>2, <1>3, <1>4, <2>1
<1>5. CASE rule.resolution # "safety_override"
  <2>1. after = WithStatus(o, (rule.control_ids \cap S) \ {Prevailing(rule, o, zone)}, "superseded")
    BY <1>1, <1>5 DEF ResolveContradiction, ApplyFrameworkPrecedence
  <2> QED
    BY <1>2, <1>3, <1>5, <2>1
<1> QED
  BY <1>4, <1>5

\* Who prevails depends on who is on offer, and on nothing else of the options.
LEMMA SamePrevailing ==
    ASSUME NEW o, NEW x, NEW rule, NEW zone, Involved(rule, o) = Involved(rule, x)
    PROVE  Prevailing(rule, o, zone) = Prevailing(rule, x, zone)
BY DEF Prevailing

\* Settling is taking the rules one after another: f[n] is what the first n leave.
SettlesBy(f, S, o, declared, zone) ==
    /\ f \in [0..Len(declared) -> Options(S)]
    /\ f[0] = o
    /\ \A n \in 1..Len(declared) : f[n] = ResolveContradiction(declared[n], f[n - 1], zone)
    /\ Settled(o, declared, zone) = f[Len(declared)]

\* There is such an f.
LEMMA SettledStepwise ==
    ASSUME NEW S, NEW o \in Options(S), NEW declared \in Seq(Contradiction), NEW zone
    PROVE  \E f : SettlesBy(f, S, o, declared, zone)
<1> DEFINE L == Len(declared)
           f == CHOOSE g : g = [n \in 0..L |->
                   IF n = 0 THEN o ELSE ResolveContradiction(declared[n], g[n - 1], zone)]
<1>1. L \in Nat /\ \A n \in 1..L : declared[n] \in Contradiction
  BY LenProperties, ElementOfSeq
<1>2. Settled(o, declared, zone) = f[L]
  BY DEF Settled
<1>3. \E g : g = [n \in 0..L |->
                   IF n = 0 THEN o ELSE ResolveContradiction(declared[n], g[n - 1], zone)]
  <2> DEFINE D == Options(S)
             next == [p \in (1..L) \X D |-> ResolveContradiction(declared[p[1]], p[2], zone)]
  <2>1. next \in [(1..L) \X D -> D]
    <3> HIDE DEF L
    <3>1. \A p \in (1..L) \X D : ResolveContradiction(declared[p[1]], p[2], zone) \in D
      BY <1>1, ResolvedOnce
    <3> HIDE DEF D
    <3> QED BY <3>1
  <2>2. \A n \in 1..L, x \in D : next[<<n, x>>] = ResolveContradiction(declared[n], x, zone)
    OBVIOUS
  <2>r. o \in D /\ L \in Nat
    BY <1>1
  <2> HIDE DEF next, L, f, D
  <2>w. PICK g : Walks(L, D, o, next, g)
    BY <2>r, <2>1, StepByStep DEF Stepping
  <2>3. g \in [0..L -> D] /\ g[0] = o /\ \A n \in 1..L : g[n] = next[<<n, g[n - 1]>>]
    BY <2>w DEF Walks
  <2>4. ASSUME NEW n \in 1..L
        PROVE  g[n] = ResolveContradiction(declared[n], g[n - 1], zone)
    <3>1. n - 1 \in 0..L
      BY <2>r
    <3> QED BY <2>2, <2>3, <3>1
  <2>5. g = [n \in 0..L |-> IF n = 0 THEN o ELSE ResolveContradiction(declared[n], g[n - 1], zone)]
    BY <1>1, <2>3, <2>4
  <2> QED
    BY <2>5
<1>4. f = [n \in 0..L |-> IF n = 0 THEN o ELSE ResolveContradiction(declared[n], f[n - 1], zone)]
  BY <1>3
<1> HIDE DEF f, L
<1>5. f[0] = o /\ \A n \in 1..L : f[n] = ResolveContradiction(declared[n], f[n - 1], zone)
  BY <1>1, <1>4
<1>6. \A n \in 0..L : f[n] \in Options(S)
  <2> DEFINE T == {n \in 0..L : f[n] \in Options(S)}
  <2>1. 0 \in T
    BY <1>1, <1>5
  <2>2. \A n \in 1..L : n - 1 \in T => n \in T
    <3> SUFFICES ASSUME NEW n \in 1..L, f[n - 1] \in Options(S)
                 PROVE  f[n] \in Options(S)
      BY <1>1
    <3> QED BY <1>1, <1>5, ResolvedOnce
  <2> HIDE DEF T
  <2>3. \A n \in 0..L : n \in T
    BY <1>1, <2>1, <2>2, Upward
  <2> QED BY <2>3 DEF T
<1>7. f \in [0..L -> Options(S)]
  BY <1>4, <1>6
<1> QED
  BY <1>2, <1>5, <1>7 DEF L, SettlesBy

(***************************************************************************)
(* Where a mechanism ends                                                  *)
(***************************************************************************)
\* What the rules set aside by precedence, and what they leave to the human.
SetAsideBy(rule, o, zone, c) ==
    rule.resolution = "framework_precedence" /\ c \in Involved(rule, o) \ {Prevailing(rule, o, zone)}
LeftToTheHumanBy(rule, o, c) ==
    rule.resolution = "safety_override" /\ c \in Involved(rule, o)

SetAside(rules, o, zone, c) == \E rule \in rules : SetAsideBy(rule, o, zone, c)
LeftToTheHuman(rules, o, c) == \E rule \in rules : LeftToTheHumanBy(rule, o, c)

\* Where a mechanism that is not both set aside and left to the human ends.
LEMMA SettledStatus ==
    ASSUME NEW S, NEW o \in Options(S), \A c \in S : o[c].status = "eligible",
           NEW declared \in Seq(Contradiction), NEW zone, NEW c \in S,
           ~(SetAside(ToSet(declared), o, zone, c) /\ LeftToTheHuman(ToSet(declared), o, c))
    PROVE  /\ SetAside(ToSet(declared), o, zone, c) =>
                Settled(o, declared, zone)[c].status = "superseded"
           /\ LeftToTheHuman(ToSet(declared), o, c) =>
                Settled(o, declared, zone)[c].status = "contested"
           /\ ~SetAside(ToSet(declared), o, zone, c) /\ ~LeftToTheHuman(ToSet(declared), o, c) =>
                Settled(o, declared, zone)[c].status = "eligible"
<1> DEFINE L == Len(declared)
           aside(j) == SetAsideBy(declared[j], o, zone, c)
           human(j) == LeftToTheHumanBy(declared[j], o, c)
<1>1. L \in Nat /\ DOMAIN declared = 1..L /\ \A n \in 1..L : declared[n] \in Contradiction
  BY LenProperties, ElementOfSeq
<1>2. /\ SetAside(ToSet(declared), o, zone, c) <=> \E j \in 1..L : aside(j)
      /\ LeftToTheHuman(ToSet(declared), o, c) <=> \E j \in 1..L : human(j)
  BY <1>1 DEF SetAside, LeftToTheHuman, ToSet
<1>p. PICK f : SettlesBy(f, S, o, declared, zone)
  BY SettledStepwise, Zenon
<1>3. /\ f \in [0..L -> Options(S)]
      /\ f[0] = o
      /\ \A n \in 1..L : f[n] = ResolveContradiction(declared[n], f[n - 1], zone)
      /\ Settled(o, declared, zone) = f[L]
  BY <1>p DEF SettlesBy
<1> DEFINE st(n) == f[n][c].status
<1>4. st(0) = "eligible"
  BY <1>3
<1>5. ASSUME NEW n \in 1..L
      PROVE  /\ aside(n) => st(n) = "superseded"
             /\ human(n) => st(n) = "contested"
             /\ ~aside(n) /\ ~human(n) => st(n) = st(n - 1)
  <2>1. n - 1 \in 0..L /\ f[n - 1] \in Options(S) /\ declared[n] \in Contradiction
    BY <1>1, <1>3
  <2>2. Involved(declared[n], f[n - 1]) = declared[n].control_ids \cap S
        /\ Involved(declared[n], o) = declared[n].control_ids \cap S
    BY <2>1 DEF Involved, Options
  <2>3. Prevailing(declared[n], f[n - 1], zone) = Prevailing(declared[n], o, zone)
    BY <2>2 DEF Prevailing
  <2>4. f[n][c].status =
           IF declared[n].resolution = "safety_override"
           THEN IF c \in declared[n].control_ids \cap S THEN "contested" ELSE f[n - 1][c].status
           ELSE IF c \in (declared[n].control_ids \cap S) \ {Prevailing(declared[n], f[n - 1], zone)}
                THEN "superseded" ELSE f[n - 1][c].status
    BY <1>3, <2>1, ResolvedOnce
  <2>5. declared[n].resolution \in {"framework_precedence", "safety_override"}
    BY <2>1 DEF Contradiction
  <2> QED
    BY <2>2, <2>3, <2>4, <2>5 DEF SetAsideBy, LeftToTheHumanBy
<1>6. ~((\E j \in 1..L : aside(j)) /\ (\E j \in 1..L : human(j)))
  BY <1>2
<1> HIDE DEF aside, human, st
<1> DEFINE T == {n \in 0..L :
                    /\ (\E j \in 1..n : aside(j)) => st(n) = "superseded"
                    /\ (\E j \in 1..n : human(j)) => st(n) = "contested"
                    /\ (\A j \in 1..n : ~aside(j) /\ ~human(j)) => st(n) = "eligible"}
<1> HIDE DEF L
<1>7. 0 \in T
  BY <1>1, <1>4
<1>8. ASSUME NEW n \in 1..L, n - 1 \in T
      PROVE  n \in T
  <2>1. /\ (\E j \in 1..(n - 1) : aside(j)) => st(n - 1) = "superseded"
        /\ (\E j \in 1..(n - 1) : human(j)) => st(n - 1) = "contested"
        /\ (\A j \in 1..(n - 1) : ~aside(j) /\ ~human(j)) => st(n - 1) = "eligible"
    BY <1>8
  <2>2. \A j \in 1..n : j \in 1..(n - 1) \/ j = n
    BY <1>1
  <2>3. \A j \in 1..n : j \in 1..L
    BY <1>1
  <2>4. n \in 1..n /\ \A j \in 1..(n - 1) : j \in 1..n
    BY <1>1
  <2>5. /\ aside(n) => st(n) = "superseded"
        /\ human(n) => st(n) = "contested"
        /\ ~aside(n) /\ ~human(n) => st(n) = st(n - 1)
    BY <1>5
  <2>6. (\E j \in 1..n : aside(j)) => st(n) = "superseded"
    <3> SUFFICES ASSUME \E j \in 1..n : aside(j) PROVE st(n) = "superseded"
      OBVIOUS
    <3>1. ~human(n)
      BY <1>6, <2>3, <2>4
    <3> QED BY <2>1, <2>2, <2>5, <3>1
  <2>7. (\E j \in 1..n : human(j)) => st(n) = "contested"
    <3> SUFFICES ASSUME \E j \in 1..n : human(j) PROVE st(n) = "contested"
      OBVIOUS
    <3>1. ~aside(n)
      BY <1>6, <2>3, <2>4
    <3> QED BY <2>1, <2>2, <2>5, <3>1
  <2>8. (\A j \in 1..n : ~aside(j) /\ ~human(j)) => st(n) = "eligible"
    BY <2>1, <2>4, <2>5
  <2>9. n \in 0..L
    BY <1>1
  <2> QED
    BY <2>6, <2>7, <2>8, <2>9
<1> HIDE DEF T
<1>9. L \in T
  <2>1. \A n \in 1..L : n - 1 \in T => n \in T
    BY <1>8
  <2>2. \A n \in 0..L : n \in T
    BY <1>1, <1>7, <2>1, Upward
  <2> QED BY <1>1, <2>2
<1> QED
  BY <1>2, <1>3, <1>9 DEF T, st, L

\* The same rules in another order.
LEMMA Reordered ==
    ASSUME NEW d \in Seq(Contradiction), NEW p \in Injection(DOMAIN d, DOMAIN d)
    PROVE  LET e == [n \in DOMAIN d |-> d[p[n]]]
           IN  e \in Seq(Contradiction) /\ ToSet(e) = ToSet(d)
<1> DEFINE e == [n \in DOMAIN d |-> d[p[n]]]
           N == Len(d)
<1>1. N \in Nat /\ DOMAIN d = 1..N /\ \A n \in 1..N : d[n] \in Contradiction
  BY LenProperties, ElementOfSeq
<1>2. p \in [DOMAIN d -> DOMAIN d]
  BY DEF Injection
<1> HIDE DEF N
<1>3. e \in [1..N -> Contradiction]
  BY <1>1, <1>2
<1>4. e \in Seq(Contradiction)
  <2> HIDE DEF e
  <2> QED BY <1>1, <1>3
<1>5. p \in Surjection(DOMAIN d, DOMAIN d)
  <2>1. IsFiniteSet(1..N)
    BY <1>1, FS_Interval
  <2> QED BY <1>1, <2>1, FS_Injection
<1>6. ToSet(e) = ToSet(d)
  <2>1. \A i \in DOMAIN d : \E n \in DOMAIN d : p[n] = i
    BY <1>5 DEF Surjection
  <2>2. \A n \in DOMAIN d : p[n] \in DOMAIN d
    BY <1>2
  <2> QED BY <2>1, <2>2 DEF ToSet
<1> QED
  BY <1>4, <1>6

\* The greatest of some numbers up to N.
LEMMA GreatestOne ==
    ASSUME NEW N \in Nat, NEW T, T \subseteq 0..N, T # {}
    PROVE  Max(T) \in T /\ \A y \in T : Max(T) >= y
<1> DEFINE U == {n \in 0..N : N - n \in T}
<1>1. U \subseteq Nat /\ U # {}
  <2>1. PICK x \in T : TRUE
    OBVIOUS
  <2>2. x \in 0..N /\ N - (N - x) = x /\ N - x \in 0..N
    OBVIOUS
  <2>3. N - x \in U
    BY <2>2
  <2>4. U \subseteq Nat
    OBVIOUS
  <2> HIDE DEF U
  <2> QED BY <2>3, <2>4
<1>2. PICK n \in U : \A m \in U : ~(m < n)
  <2> HIDE DEF U
  <2> QED BY <1>1, LeastOne
<1>3. N - n \in T /\ \A y \in T : N - n >= y
  <2>1. ASSUME NEW y \in T PROVE N - n >= y
    <3>1. y \in 0..N /\ N - y \in 0..N /\ N - (N - y) = y
      OBVIOUS
    <3>2. N - y \in U
      BY <3>1
    <3>3. ~(N - y < n)
      BY <1>2, <3>2
    <3> QED BY <3>1, <3>3
  <2> QED BY <2>1
<1> QED
  BY <1>3 DEF Max

\* Nothing but the status of an option changes as contradictions are settled.
LEMMA SettledFields ==
    ASSUME NEW S, NEW o \in Options(S), NEW declared \in Seq(Contradiction), NEW zone
    PROVE  /\ Settled(o, declared, zone) \in Options(S)
           /\ \A c \in S :
                /\ Settled(o, declared, zone)[c].mapping_type = o[c].mapping_type
                /\ Settled(o, declared, zone)[c].coverage_weight = o[c].coverage_weight
<1> DEFINE L == Len(declared)
<1>1. L \in Nat /\ \A n \in 1..L : declared[n] \in Contradiction
  BY LenProperties, ElementOfSeq
<1>p. PICK f : SettlesBy(f, S, o, declared, zone)
  BY SettledStepwise, Zenon
<1>3. /\ f \in [0..L -> Options(S)]
      /\ f[0] = o
      /\ \A n \in 1..L : f[n] = ResolveContradiction(declared[n], f[n - 1], zone)
      /\ Settled(o, declared, zone) = f[L]
  BY <1>p DEF SettlesBy
<1> DEFINE T == {n \in 0..L : \A c \in S : /\ f[n][c].mapping_type = o[c].mapping_type
                                          /\ f[n][c].coverage_weight = o[c].coverage_weight}
<1> HIDE DEF L
<1>4. 0 \in T
  BY <1>1, <1>3
<1>5. \A n \in 1..L : n - 1 \in T => n \in T
  <2> SUFFICES ASSUME NEW n \in 1..L, n - 1 \in T PROVE n \in T
    OBVIOUS
  <2>1. n \in 0..L /\ n - 1 \in 0..L /\ f[n - 1] \in Options(S) /\ declared[n] \in Contradiction
    BY <1>1, <1>3
  <2>2. \A c \in S : /\ f[n][c].mapping_type = f[n - 1][c].mapping_type
                     /\ f[n][c].coverage_weight = f[n - 1][c].coverage_weight
    BY <1>3, <2>1, ResolvedOnce
  <2> QED BY <2>1, <2>2
<1> HIDE DEF T
<1>6. L \in T
  <2>1. \A n \in 0..L : n \in T
    BY <1>1, <1>4, <1>5, Upward
  <2> QED BY <1>1, <2>1
<1> QED
  BY <1>1, <1>3, <1>6 DEF T

\* Settled among more mechanisms, which no rule names, the others end where they
\* did without them.
LEMMA SettledTogether ==
    ASSUME NEW S, NEW B \in SUBSET S, NEW o \in Options(S), NEW b \in Options(B),
           \A c \in B : b[c] = o[c],
           NEW declared \in Seq(Contradiction), NEW zone,
           \A rule \in ToSet(declared) : rule.control_ids \cap S = rule.control_ids \cap B
    PROVE  /\ \A c \in B : Settled(o, declared, zone)[c].status = Settled(b, declared, zone)[c].status
           /\ \A c \in S \ B : Settled(o, declared, zone)[c].status = o[c].status
<1> DEFINE L == Len(declared)
<1>1. /\ L \in Nat
      /\ \A n \in 1..L : /\ declared[n] \in Contradiction
                         /\ declared[n].control_ids \cap S = declared[n].control_ids \cap B
  <2>1. L \in Nat /\ DOMAIN declared = 1..L /\ \A n \in 1..L : declared[n] \in Contradiction
    BY LenProperties, ElementOfSeq
  <2>2. \A n \in 1..L : declared[n] \in ToSet(declared)
    BY <2>1 DEF ToSet
  <2> QED BY <2>1, <2>2
<1>p. PICK f : SettlesBy(f, S, o, declared, zone)
  BY SettledStepwise, Zenon
<1>q. PICK g : SettlesBy(g, B, b, declared, zone)
  BY SettledStepwise, Zenon
<1>3. /\ f \in [0..L -> Options(S)]
      /\ f[0] = o
      /\ \A n \in 1..L : f[n] = ResolveContradiction(declared[n], f[n - 1], zone)
      /\ Settled(o, declared, zone) = f[L]
  BY <1>p DEF SettlesBy
<1>4. /\ g \in [0..L -> Options(B)]
      /\ g[0] = b
      /\ \A n \in 1..L : g[n] = ResolveContradiction(declared[n], g[n - 1], zone)
      /\ Settled(b, declared, zone) = g[L]
  BY <1>q DEF SettlesBy
<1> DEFINE T == {n \in 0..L : /\ \A c \in B : f[n][c].status = g[n][c].status
                              /\ \A c \in S \ B : f[n][c].status = o[c].status}
<1> HIDE DEF L
<1>5. 0 \in T
  BY <1>1, <1>3, <1>4
<1>6. \A n \in 1..L : n - 1 \in T => n \in T
  <2> SUFFICES ASSUME NEW n \in 1..L, n - 1 \in T PROVE n \in T
    OBVIOUS
  <2> DEFINE rule == declared[n]
             X == rule.control_ids \cap B
             x == f[n - 1]
             y == g[n - 1]
  <2>1. /\ n \in 0..L /\ n - 1 \in 0..L /\ x \in Options(S) /\ y \in Options(B)
        /\ rule \in Contradiction /\ rule.control_ids \cap S = X
    BY <1>1, <1>3, <1>4
  <2>2. /\ \A c \in B : x[c].status = y[c].status
        /\ \A c \in S \ B : x[c].status = o[c].status
    OBVIOUS
  <2>3. f[n] = ResolveContradiction(rule, x, zone) /\ g[n] = ResolveContradiction(rule, y, zone)
    BY <1>3, <1>4
  <2> HIDE DEF T, rule, x, y
  <2>4. Involved(rule, x) = X /\ Involved(rule, y) = X
    BY <2>1 DEF Involved, Options
  <2>5. Prevailing(rule, x, zone) = Prevailing(rule, y, zone)
    BY <2>4 DEF Prevailing
  <2>6. \A c \in S : f[n][c].status =
           IF rule.resolution = "safety_override"
           THEN IF c \in X THEN "contested" ELSE x[c].status
           ELSE IF c \in X \ {Prevailing(rule, x, zone)} THEN "superseded" ELSE x[c].status
    BY <2>1, <2>3, ResolvedOnce
  <2>7. \A c \in B : g[n][c].status =
           IF rule.resolution = "safety_override"
           THEN IF c \in X THEN "contested" ELSE y[c].status
           ELSE IF c \in X \ {Prevailing(rule, y, zone)} THEN "superseded" ELSE y[c].status
    BY <2>1, <2>3, ResolvedOnce
  <2>8. \A c \in B : f[n][c].status = g[n][c].status
    BY <2>2, <2>5, <2>6, <2>7
  <2>9. \A c \in S \ B : f[n][c].status = o[c].status
    BY <2>2, <2>6
  <2> QED BY <2>1, <2>8, <2>9 DEF T
<1> HIDE DEF T
<1>7. L \in T
  <2>1. \A n \in 0..L : n \in T
    BY <1>1, <1>5, <1>6, Upward
  <2> QED BY <1>1, <2>1
<1> QED
  BY <1>1, <1>3, <1>4, <1>7 DEF T

(***************************************************************************)
(* The readings of a delta                                                 *)
(***************************************************************************)
IsQuery(q) ==
    /\ q.regions \in Seq(Jurisdiction) /\ AcceptedRegions(q.regions)
    /\ q.mode \in DeltaMode /\ q.mappings \in SUBSET Mapping
    /\ q.contradictions \in Seq(Contradiction) /\ q.zone \in ZoneContextType

Governing(q, k) == {c \in DOMAIN BuildOptions(q.mappings, k) : ~SectorExcluded(q, c)}
OfferedBy(q, k, i) == {c \in Governing(q, k) : Offers(q, i, c)}
OfferedByEach(q, k) == [i \in DOMAIN q.regions |-> OfferedBy(q, k, i)]
Reporting(q) == {i \in DOMAIN q.regions : q.mode = "symmetric" \/ i > 1}

\* The regions of a delta.
LEMMA Regions ==
    ASSUME NEW q, IsQuery(q)
    PROVE  /\ Len(q.regions) \in Nat /\ Len(q.regions) >= 2
           /\ DOMAIN q.regions = 1..Len(q.regions)
           /\ \A i, j \in 1..Len(q.regions) : q.regions[i] = q.regions[j] => i = j
BY LenProperties DEF IsQuery, AcceptedRegions, IsInjective

\* What a reading offers is what its regions offer.
LEMMA ReadingOffers ==
    ASSUME NEW q, IsQuery(q), NEW k, NEW i \in DOMAIN q.regions
    PROVE  LET built == BuildOptions(q.mappings, k)
               offered == OfferedBy(q, k, i)
               reduced == Restrict(built, offered)
           IN  /\ offered \subseteq DOMAIN built /\ DOMAIN built \subseteq Control
               /\ reduced \in Options(offered)
               /\ \A c \in offered : reduced[c] = built[c] /\ built[c].status = "eligible"
               /\ Reading(q, k, i) =
                     Settled(reduced, ContradictionsFor(q.contradictions, k, reduced, q.zone), q.zone)
               /\ Reading(q, k, i) \in Options(offered)
               /\ \A c \in offered : /\ Reading(q, k, i)[c].mapping_type = built[c].mapping_type
                                     /\ Reading(q, k, i)[c].coverage_weight = built[c].coverage_weight
<1> DEFINE built == BuildOptions(q.mappings, k)
           offered == OfferedBy(q, k, i)
           reduced == Restrict(built, offered)
           declared == ContradictionsFor(q.contradictions, k, reduced, q.zone)
<1>1. /\ DOMAIN built \subseteq Control /\ built \in Options(DOMAIN built)
      /\ \A c \in DOMAIN built : built[c].status = "eligible"
  BY BuiltOptions DEF IsQuery
<1>2. offered \subseteq DOMAIN built
  BY DEF OfferedBy, Governing
<1>3. Reading(q, k, i) = Settled(reduced, declared, q.zone)
  <2>1. offered = {c \in DOMAIN built : ~SectorExcluded(q, c) /\ Offers(q, i, c)}
    BY DEF OfferedBy, Governing
  <2> HIDE DEF offered
  <2> QED BY <2>1 DEF Reading, ResolveCapability
<1> HIDE DEF built, offered
<1>4. reduced \in Options(offered) /\ \A c \in offered : reduced[c] = built[c]
  BY <1>1, <1>2 DEF Restrict, Options
<1>5. declared \in Seq(Contradiction)
  BY DeclaredOnes DEF IsQuery
<1> HIDE DEF reduced, declared
<1>6. /\ Settled(reduced, declared, q.zone) \in Options(offered)
      /\ \A c \in offered :
            /\ Settled(reduced, declared, q.zone)[c].mapping_type = reduced[c].mapping_type
            /\ Settled(reduced, declared, q.zone)[c].coverage_weight = reduced[c].coverage_weight
  BY <1>4, <1>5, SettledFields
<1> QED
  BY <1>1, <1>2, <1>3, <1>4, <1>6 DEF built, offered, reduced, declared

AddedIn(q, k, i, c) ==
    [control |-> c, added_by |-> q.regions[i],
     changes_coverage |-> Reading(q, k, i)[c].mapping_type # "contextual"]

OnlyIn(q, k, i) == OnlyHere(q, OfferedByEach(q, k), i)

\* What a capability's delta is made of.
LEMMA DeltaParts ==
    ASSUME NEW q, IsQuery(q), NEW k
    PROVE  LET d == CapabilityDelta(q, k)
               n == Len(q.regions)
           IN  /\ DOMAIN d.views = 1..n
               /\ \A i \in 1..n :
                     /\ d.views[i].offered = OfferedBy(q, k, i)
                     /\ d.views[i].set_aside = Governing(q, k) \ OfferedBy(q, k, i)
                     /\ d.views[i].coverage = EffectiveCoverage(Reading(q, k, i))
               /\ d.common = {c \in OfferedBy(q, k, 1) : \A i \in 1..n : c \in OfferedBy(q, k, i)}
               /\ d.added = UNION {{AddedIn(q, k, i, c) : c \in OnlyIn(q, k, i)} : i \in Reporting(q)}
<1> DEFINE n == Len(q.regions)
           mapped == DOMAIN BuildOptions(q.mappings, k)
           readings == [i \in DOMAIN q.regions |-> Reading(q, k, i)]
           offered == [i \in DOMAIN readings |-> DOMAIN readings[i]]
           view(i) == [offered |-> offered[i],
                       only_here |-> OnlyHere(q, offered, i),
                       set_aside |-> {c \in mapped \ offered[i] : ~SectorExcluded(q, c)},
                       coverage |-> EffectiveCoverage(readings[i]),
                       gap |-> ResolutionGap(readings[i])]
           reporting == {i \in DOMAIN readings : q.mode = "symmetric" \/ i > 1}
           added == UNION {{[control |-> c, added_by |-> q.regions[i],
                             changes_coverage |-> readings[i][c].mapping_type # "contextual"] :
                               c \in view(i).only_here} : i \in reporting}
           common == {c \in offered[1] : \A i \in DOMAIN offered : c \in offered[i]}
           views == [i \in DOMAIN readings |-> view(i)]
           d == CapabilityDelta(q, k)
<1>1. d = [common |-> common, views |-> views, added |-> added,
           changed |-> added # {} \/ \E i \in DOMAIN offered : offered[i] # offered[1]]
  BY DEF CapabilityDelta
<1>2. d.common = common /\ d.views = views /\ d.added = added
  <2> HIDE DEF common, views, added, d, offered
  <2> QED BY <1>1
<1>3. n \in Nat /\ n >= 2 /\ DOMAIN q.regions = 1..n /\ DOMAIN readings = 1..n
  BY Regions
<1>4. \A i \in 1..n : readings[i] = Reading(q, k, i)
  BY <1>3
<1>5. \A i \in 1..n : DOMAIN readings[i] = OfferedBy(q, k, i)
  <2> SUFFICES ASSUME NEW i \in 1..n PROVE DOMAIN Reading(q, k, i) = OfferedBy(q, k, i)
    BY <1>4
  <2>1. Reading(q, k, i) \in Options(OfferedBy(q, k, i))
    BY <1>3, ReadingOffers
  <2> QED BY <2>1 DEF Options
<1> HIDE DEF readings, n, mapped
<1>6. offered = OfferedByEach(q, k) /\ DOMAIN offered = 1..n
      /\ \A i \in 1..n : offered[i] = OfferedBy(q, k, i)
  BY <1>3, <1>5 DEF OfferedByEach
<1> HIDE DEF offered
<1>7. 1 \in 1..n
  BY <1>3
<1>8. common = {c \in OfferedBy(q, k, 1) : \A i \in 1..n : c \in OfferedBy(q, k, i)}
  BY <1>6, <1>7
<1>9. ASSUME NEW i \in 1..n
      PROVE  /\ views[i] = view(i)
             /\ view(i).only_here = OnlyIn(q, k, i)
             /\ view(i).offered = OfferedBy(q, k, i)
             /\ view(i).coverage = EffectiveCoverage(Reading(q, k, i))
             /\ view(i).set_aside = Governing(q, k) \ OfferedBy(q, k, i)
  <2>1. views[i] = view(i)
    BY <1>3
  <2>2. view(i).only_here = OnlyIn(q, k, i)
    BY <1>6 DEF OnlyIn
  <2>3. view(i).offered = OfferedBy(q, k, i) /\ view(i).coverage = EffectiveCoverage(Reading(q, k, i))
    BY <1>4, <1>6
  <2>4. view(i).set_aside = Governing(q, k) \ OfferedBy(q, k, i)
    <3>1. view(i).set_aside = {c \in mapped \ offered[i] : ~SectorExcluded(q, c)}
      OBVIOUS
    <3> HIDE DEF view
    <3> QED BY <1>6, <3>1 DEF Governing, mapped
  <2> QED BY <2>1, <2>2, <2>3, <2>4
<1>10. reporting = Reporting(q) /\ Reporting(q) \subseteq 1..n
  BY <1>3 DEF Reporting
<1> HIDE DEF view, reporting
<1>11. added = UNION {{AddedIn(q, k, i, c) : c \in OnlyIn(q, k, i)} : i \in Reporting(q)}
  <2>1. \A i \in 1..n : \A c : [control |-> c, added_by |-> q.regions[i],
                                changes_coverage |-> readings[i][c].mapping_type # "contextual"]
                               = AddedIn(q, k, i, c)
    BY <1>4 DEF AddedIn
  <2>2. \A i \in 1..n :
           {[control |-> c, added_by |-> q.regions[i],
             changes_coverage |-> readings[i][c].mapping_type # "contextual"] :
               c \in view(i).only_here}
           = {AddedIn(q, k, i, c) : c \in OnlyIn(q, k, i)}
    BY <2>1, <1>9
  <2> QED BY <1>10, <2>2
<1>12. DOMAIN views = 1..n
  BY <1>3
<1> HIDE DEF views, common, added
<1> QED
  BY <1>2, <1>8, <1>9, <1>11, <1>12 DEF n

\* Where a control that governs is offered: everywhere if it is common ground,
\* else in the reading of its region, and in those that follow if they accumulate.
LEMMA HomeRegion ==
    ASSUME NEW q, IsQuery(q), NEW k, NEW c \in Governing(q, k)
    PROVE  \/ \A i \in 1..Len(q.regions) : c \in OfferedBy(q, k, i)
           \/ \E j \in 1..Len(q.regions) : \A i \in 1..Len(q.regions) :
                 c \in OfferedBy(q, k, i) <=> IF q.mode = "symmetric" THEN i = j ELSE j <= i
<1> DEFINE n == Len(q.regions)
<1>1. n \in Nat /\ DOMAIN q.regions = 1..n
      /\ \A i, j \in 1..n : q.regions[i] = q.regions[j] => i = j
  BY Regions
<1>2. CASE ~OnTheAxis(q, c)
  BY <1>2 DEF OfferedBy, Offers
<1>3. CASE OnTheAxis(q, c)
  <2>1. PICK j \in 1..n : q.regions[j] = Attributes[c].jurisdiction
    BY <1>1, <1>3 DEF OnTheAxis, Compared, ToSet
  <2>2. ASSUME NEW i \in 1..n
        PROVE  c \in OfferedBy(q, k, i) <=> IF q.mode = "symmetric" THEN i = j ELSE j <= i
    <3>1. c \in OfferedBy(q, k, i) <=> q.regions[j] \in Included(q, i)
      BY <1>3, <2>1 DEF OfferedBy, Offers
    <3>2. CASE q.mode = "symmetric"
      BY <1>1, <3>1, <3>2 DEF Included
    <3>3. CASE q.mode # "symmetric"
      <4>1. q.regions[j] \in Included(q, i) <=> \E m \in 1..i : q.regions[j] = q.regions[m]
        BY <3>3 DEF Included
      <4>2. \A m \in 1..i : m \in 1..n
        BY <1>1
      <4>3. (\E m \in 1..i : q.regions[j] = q.regions[m]) <=> j \in 1..i
        BY <1>1, <4>2
      <4> QED BY <1>1, <3>1, <3>3, <4>1, <4>3
    <3> QED BY <3>2, <3>3
  <2> QED BY <2>2
<1> QED
  BY <1>2, <1>3

\* What a cumulative reading offers, those after it offer.
LEMMA Accumulates ==
    ASSUME NEW q, IsQuery(q), q.mode = "cumulative", NEW k
    PROVE  \A i, j \in 1..Len(q.regions) : i <= j => OfferedBy(q, k, i) \subseteq OfferedBy(q, k, j)
<1> DEFINE n == Len(q.regions)
           off(i) == OfferedBy(q, k, i)
<1>1. n \in Nat
  BY Regions
<1> SUFFICES ASSUME NEW i \in 1..n, NEW j \in 1..n, i <= j, NEW c \in off(i)
             PROVE  c \in off(j)
  OBVIOUS
<1>2. c \in Governing(q, k)
  BY DEF OfferedBy
<1>3. \/ \A m \in 1..n : c \in OfferedBy(q, k, m)
      \/ \E h \in 1..n : \A m \in 1..n : c \in OfferedBy(q, k, m) <=> h <= m
  <2>1. "cumulative" # "symmetric"
    OBVIOUS
  <2> HIDE DEF off
  <2> QED BY <1>2, <2>1, HomeRegion
<1>4. CASE \A m \in 1..n : c \in OfferedBy(q, k, m)
  BY <1>4
<1>5. CASE \E h \in 1..n : \A m \in 1..n : c \in OfferedBy(q, k, m) <=> h <= m
  <2>1. PICK h \in 1..n : \A m \in 1..n : c \in OfferedBy(q, k, m) <=> h <= m
    BY <1>5
  <2>2. h <= i
    BY <2>1
  <2>3. h <= j
    BY <1>1, <2>2
  <2> QED BY <2>1, <2>3
<1> QED
  BY <1>3, <1>4, <1>5

\* The regions that a control is an addition of.
LEMMA OnlyOnce ==
    ASSUME NEW q, IsQuery(q), NEW k
    PROVE  /\ \A i \in Reporting(q) : OnlyIn(q, k, i) \subseteq OfferedBy(q, k, i)
           /\ \A i, j \in Reporting(q) : \A c : c \in OnlyIn(q, k, i) /\ c \in OnlyIn(q, k, j) => i = j
           /\ q.mode = "cumulative" => \A i \in Reporting(q) :
                 OnlyIn(q, k, i) = OfferedBy(q, k, i) \ OfferedBy(q, k, i - 1)
           /\ q.mode = "symmetric" => \A i \in Reporting(q) :
                 OnlyIn(q, k, i) = {c \in OfferedBy(q, k, i) :
                    \A j \in (1..Len(q.regions)) \ {i} : c \notin OfferedBy(q, k, j)}
<1> DEFINE n == Len(q.regions)
           off(i) == OfferedBy(q, k, i)
<1>1. n \in Nat /\ n >= 2 /\ DOMAIN q.regions = 1..n
  BY Regions
<1>2. Reporting(q) \subseteq 1..n /\ DOMAIN OfferedByEach(q, k) = 1..n
      /\ \A i \in 1..n : OfferedByEach(q, k)[i] = off(i)
  BY <1>1 DEF Reporting, OfferedByEach
<1>3. CASE q.mode = "symmetric"
  <2>1. ASSUME NEW i \in 1..n
        PROVE  OnlyIn(q, k, i) = {c \in off(i) : \A j \in (1..n) \ {i} : c \notin off(j)}
    <3>1. OnlyIn(q, k, i) = OfferedByEach(q, k)[i] \ UNION {OfferedByEach(q, k)[j] : j \in (1..n) \ {i}}
      BY <1>2, <1>3 DEF OnlyIn, OnlyHere
    <3> HIDE DEF off
    <3> QED BY <1>2, <3>1
  <2> HIDE DEF off
  <2>2. \A i \in Reporting(q) : OnlyIn(q, k, i) \subseteq off(i)
    BY <1>2, <2>1
  <2>3. \A i, j \in Reporting(q) : \A c : c \in OnlyIn(q, k, i) /\ c \in OnlyIn(q, k, j) => i = j
    BY <1>2, <2>1
  <2> QED BY <1>2, <1>3, <2>1, <2>2, <2>3 DEF off
<1>4. CASE q.mode = "cumulative"
  <2>1. ASSUME NEW i \in Reporting(q)
        PROVE  OnlyIn(q, k, i) = {c \in off(i) : \A j \in 1..(i - 1) : c \notin off(j)}
    <3>0. i \in 1..n /\ i > 1
      BY <1>1, <1>4 DEF Reporting
    <3>1. OnlyIn(q, k, i) = OfferedByEach(q, k)[i] \ UNION {OfferedByEach(q, k)[j] : j \in 1..(i - 1)}
      BY <1>2, <1>4, <3>0 DEF OnlyIn, OnlyHere
    <3>2. \A j \in 1..(i - 1) : j \in 1..n
      BY <1>1, <3>0
    <3> HIDE DEF off
    <3> QED BY <1>2, <3>0, <3>1, <3>2
  <2>2. \A i, j \in 1..n : i <= j => off(i) \subseteq off(j)
    BY <1>4, Accumulates
  <2> HIDE DEF off
  <2>3. \A i \in Reporting(q) : i \in 2..n
    BY <1>1, <1>4 DEF Reporting
  <2>4. \A i, j \in Reporting(q) : \A c : c \in OnlyIn(q, k, i) /\ c \in OnlyIn(q, k, j) => i = j
    <3> SUFFICES ASSUME NEW i \in Reporting(q), NEW j \in Reporting(q), i < j, NEW c,
                        c \in OnlyIn(q, k, i), c \in OnlyIn(q, k, j)
                 PROVE  FALSE
      BY <1>1, <2>3
    <3>1. i \in 1..(j - 1)
      BY <1>1, <2>3
    <3> QED BY <2>1, <3>1
  <2>5. ASSUME NEW i \in Reporting(q)
        PROVE  OnlyIn(q, k, i) = off(i) \ off(i - 1)
    <3>1. i \in 2..n /\ i - 1 \in 1..(i - 1) /\ i - 1 \in 1..n
      BY <1>1, <2>3
    <3>2. \A j \in 1..(i - 1) : j \in 1..n /\ j <= i - 1
      BY <1>1, <3>1
    <3>3. \A j \in 1..(i - 1) : off(j) \subseteq off(i - 1)
      BY <2>2, <3>1, <3>2
    <3> QED BY <2>1, <3>1, <3>3
  <2> QED BY <1>4, <2>1, <2>4, <2>5 DEF off
<1> QED
  BY <1>3, <1>4 DEF IsQuery, DeltaMode

\* The readings of one question add up for one capability.
LEMMA AddUp ==
    ASSUME NEW q, IsQuery(q), NEW k
    PROVE  LET d == CapabilityDelta(q, k)
               governing == Governing(q, k)
               offered(i) == d.views[i].offered
               added == {a.control : a \in d.added}
           IN  /\ UNION {offered(i) : i \in DOMAIN d.views} = governing
               /\ \A i \in DOMAIN d.views : d.views[i].set_aside = governing \ offered(i)
               /\ Cardinality(added) = Cardinality(d.added)
               /\ IF q.mode = "cumulative"
                  THEN /\ offered(Len(d.views)) = offered(1) \cup added
                       /\ offered(1) \cap added = {}
                  ELSE governing = d.common \cup added /\ d.common \cap added = {}
<1> DEFINE d == CapabilityDelta(q, k)
           n == Len(q.regions)
           off(i) == OfferedBy(q, k, i)
           gov == Governing(q, k)
           all == d.added
           added == {a.control : a \in all}
<1>1. /\ n \in Nat /\ n >= 2 /\ DOMAIN q.regions = 1..n
      /\ q.mode = "cumulative" \/ q.mode = "symmetric"
  BY Regions DEF IsQuery, DeltaMode
<1>2. /\ DOMAIN d.views = 1..n
      /\ \A i \in 1..n : d.views[i].offered = off(i) /\ d.views[i].set_aside = gov \ off(i)
      /\ d.common = {c \in off(1) : \A i \in 1..n : c \in off(i)}
      /\ all = UNION {{AddedIn(q, k, i, c) : c \in OnlyIn(q, k, i)} : i \in Reporting(q)}
  BY DeltaParts
<1>3. Len(d.views) = n
  <2>1. d.views = [i \in DOMAIN q.regions |-> d.views[i]]
    BY <1>1, <1>2 DEF CapabilityDelta
  <2> HIDE DEF d, n
  <2> QED BY <1>1, <2>1
<1>4. \A c \in gov : \/ \A i \in 1..n : c \in off(i)
                     \/ \E j \in 1..n : \A i \in 1..n :
                           c \in off(i) <=> IF q.mode = "symmetric" THEN i = j ELSE j <= i
  BY HomeRegion
<1>5. \A i \in 1..n : off(i) \subseteq gov
  BY DEF OfferedBy
<1>6. Reporting(q) = {i \in 1..n : q.mode = "symmetric" \/ i > 1}
  BY <1>1 DEF Reporting
<1>7. /\ \A i \in Reporting(q) : OnlyIn(q, k, i) \subseteq off(i)
      /\ \A i, j \in Reporting(q) : \A c : c \in OnlyIn(q, k, i) /\ c \in OnlyIn(q, k, j) => i = j
      /\ q.mode = "cumulative" => \A i \in Reporting(q) : OnlyIn(q, k, i) = off(i) \ off(i - 1)
      /\ q.mode = "symmetric" => \A i \in Reporting(q) :
            OnlyIn(q, k, i) = {c \in off(i) : \A j \in (1..n) \ {i} : c \notin off(j)}
  BY OnlyOnce
<1>8. gov \subseteq Control
  BY BuiltOptions DEF Governing, IsQuery
<1> HIDE DEF d, n, off, gov, all
<1>9. \A i \in Reporting(q) : \A c \in OnlyIn(q, k, i) : AddedIn(q, k, i, c).control = c
  BY DEF AddedIn
<1>10. added = UNION {OnlyIn(q, k, i) : i \in Reporting(q)}
  <2>1. ASSUME NEW c \in added PROVE \E i \in Reporting(q) : c \in OnlyIn(q, k, i)
    <3>1. PICK a \in all : a.control = c
      OBVIOUS
    <3>2. PICK i \in Reporting(q) : \E e \in OnlyIn(q, k, i) : a = AddedIn(q, k, i, e)
      BY <1>2
    <3> QED BY <1>9, <3>1, <3>2
  <2>2. ASSUME NEW i \in Reporting(q), NEW c \in OnlyIn(q, k, i) PROVE c \in added
    <3>1. AddedIn(q, k, i, c) \in all
      BY <1>2
    <3> QED BY <1>9, <3>1
  <2> HIDE DEF added
  <2> QED BY <2>1, <2>2
<1>11. Cardinality(added) = Cardinality(all)
  <2>1. \A a, b \in all : a.control = b.control => a = b
    <3> SUFFICES ASSUME NEW a \in all, NEW b \in all, a.control = b.control PROVE a = b
      OBVIOUS
    <3>1. PICK i \in Reporting(q) : \E c \in OnlyIn(q, k, i) : a = AddedIn(q, k, i, c)
      BY <1>2
    <3>2. PICK j \in Reporting(q) : \E c \in OnlyIn(q, k, j) : b = AddedIn(q, k, j, c)
      BY <1>2
    <3>3. PICK c \in OnlyIn(q, k, i) : a = AddedIn(q, k, i, c)
      BY <3>1
    <3>4. PICK e \in OnlyIn(q, k, j) : b = AddedIn(q, k, j, e)
      BY <3>2
    <3>5. c = e
      BY <1>9, <3>3, <3>4
    <3>6. i = j
      BY <1>7, <3>3, <3>4, <3>5
    <3> QED BY <3>3, <3>4, <3>5, <3>6
  <2>2. IsFiniteSet(added)
    <3>1. added \subseteq Control
      <4>1. \A i \in Reporting(q) : i \in 1..n /\ OnlyIn(q, k, i) \subseteq off(i)
        BY <1>6, <1>7
      <4> HIDE DEF added
      <4> QED BY <1>5, <1>8, <1>10, <4>1
    <3> HIDE DEF added
    <3> QED BY <3>1, FS_Subset, FiniteCatalogAssumption
  <2> DEFINE f == [c \in added |-> CHOOSE a \in all : a.control = c]
  <2>3. \A c \in added : f[c] \in all /\ f[c].control = c
    OBVIOUS
  <2>4. \A a \in all : a.control \in added
    OBVIOUS
  <2> DEFINE A == added
  <2>5. f \in [A -> all]
    OBVIOUS
  <2> HIDE DEF f, added, A
  <2>6. f \in Bijection(A, all)
    <3>1. \A c, e \in A : f[c] = f[e] => c = e
      BY <2>3 DEF A
    <3>2. \A a \in all : \E c \in A : f[c] = a
      BY <2>1, <2>3, <2>4 DEF A
    <3> QED BY <2>5, <3>1, <3>2 DEF Bijection, Injection, Surjection, IsInjective
  <2>7. ExistsBijection(A, all)
    BY <2>6 DEF ExistsBijection
  <2> QED BY <2>2, <2>7, FS_Bijection DEF A
<1>12. UNION {off(i) : i \in 1..n} = gov
  <2>1. \A c \in gov : \E i \in 1..n : c \in off(i)
    <3> SUFFICES ASSUME NEW c \in gov PROVE \E i \in 1..n : c \in off(i)
      OBVIOUS
    <3>1. CASE \A i \in 1..n : c \in off(i)
      BY <1>1, <3>1
    <3>2. CASE \E j \in 1..n : \A i \in 1..n :
                  c \in off(i) <=> IF q.mode = "symmetric" THEN i = j ELSE j <= i
      <4>1. PICK j \in 1..n : \A i \in 1..n :
                  c \in off(i) <=> IF q.mode = "symmetric" THEN i = j ELSE j <= i
        BY <3>2
      <4>2. j <= j
        BY <1>1
      <4> QED BY <4>1, <4>2
    <3> QED BY <1>4, <3>1, <3>2
  <2> QED BY <1>5, <2>1
<1> HIDE DEF added
<1>15. /\ UNION {d.views[i].offered : i \in DOMAIN d.views} = gov
       /\ \A i \in DOMAIN d.views : d.views[i].set_aside = gov \ d.views[i].offered
  BY <1>2, <1>12
<1>13. CASE q.mode = "cumulative"
  <2>0. q.mode # "symmetric"
    BY <1>13
  <2>1. ASSUME NEW c \in gov
        PROVE  /\ c \in off(n) <=> c \in off(1) \/ c \in added
               /\ ~(c \in off(1) /\ c \in added)
    <3>1. c \in added <=> \E i \in Reporting(q) : c \in off(i) /\ c \notin off(i - 1)
      BY <1>7, <1>10, <1>13
    <3>2. Reporting(q) = 2..n /\ 1 \in 1..n /\ n \in 1..n /\ \A i \in 2..n : i \in 1..n /\ i - 1 \in 1..n
      BY <1>1, <1>6, <2>0
    <3>3. CASE \A i \in 1..n : c \in off(i)
      BY <3>1, <3>2, <3>3
    <3>4. CASE \E j \in 1..n : \A i \in 1..n : c \in off(i) <=> j <= i
      <4>1. PICK j \in 1..n : \A i \in 1..n : c \in off(i) <=> j <= i
        BY <3>4
      <4>2. c \in off(n) /\ (c \in off(1) <=> j = 1)
        BY <1>1, <3>2, <4>1
      <4>3. \A i \in 2..n : (c \in off(i) /\ c \notin off(i - 1)) <=> i = j
        BY <1>1, <3>2, <4>1
      <4>4. c \in added <=> j \in 2..n
        BY <3>1, <3>2, <4>3
      <4> QED BY <1>1, <4>2, <4>4
    <3> QED BY <1>4, <2>0, <3>3, <3>4
  <2>2. added \subseteq gov
    <3>1. \A i \in Reporting(q) : i \in 1..n
      BY <1>6
    <3> QED BY <1>5, <1>7, <1>10, <3>1
  <2>3. 1 \in 1..n /\ n \in 1..n
    BY <1>1
  <2>4. off(n) = off(1) \cup added /\ off(1) \cap added = {}
    BY <1>5, <2>1, <2>2, <2>3
  <2> QED
    BY <1>2, <1>3, <1>11, <1>15, <1>13, <2>3, <2>4 DEF d, gov, all, added
<1>14. CASE q.mode = "symmetric"
  <2>0. q.mode # "cumulative" /\ Reporting(q) = 1..n
    BY <1>6, <1>14
  <2>1. ASSUME NEW c \in gov
        PROVE  /\ c \in d.common \/ c \in added
               /\ ~(c \in d.common /\ c \in added)
    <3>1. c \in added <=> \E i \in 1..n : c \in off(i) /\ \A j \in (1..n) \ {i} : c \notin off(j)
      BY <1>7, <1>10, <1>14, <2>0
    <3>2. 1 \in 1..n /\ 2 \in 1..n
      BY <1>1
    <3>3. c \in d.common <=> \A i \in 1..n : c \in off(i)
      BY <1>2, <3>2
    <3>4. CASE \A i \in 1..n : c \in off(i)
      <4>1. \A i \in 1..n : \E j \in (1..n) \ {i} : c \in off(j)
        <5> SUFFICES ASSUME NEW i \in 1..n PROVE \E j \in (1..n) \ {i} : c \in off(j)
          OBVIOUS
        <5>1. 1 \in (1..n) \ {i} \/ 2 \in (1..n) \ {i}
          BY <3>2
        <5> QED BY <3>2, <3>4, <5>1
      <4> QED BY <3>1, <3>3, <3>4, <4>1
    <3>5. CASE \E j \in 1..n : \A i \in 1..n : c \in off(i) <=> i = j
      <4>1. PICK j \in 1..n : \A i \in 1..n : c \in off(i) <=> i = j
        BY <3>5
      <4>2. c \notin d.common
        BY <3>2, <3>3, <4>1
      <4> QED BY <3>1, <4>1, <4>2
    <3> QED BY <1>4, <1>14, <3>4, <3>5
  <2>2. added \subseteq gov
    BY <1>5, <1>7, <1>10, <2>0
  <2>3. 1 \in 1..n
    BY <1>1
  <2>4. gov = d.common \cup added /\ d.common \cap added = {}
    <3>1. d.common \subseteq gov
      BY <1>2, <1>5, <2>3
    <3> QED BY <2>1, <2>2, <3>1
  <2> QED
    BY <1>11, <1>15, <2>0, <2>4 DEF d, gov, all, added
<1> QED
  BY <1>1, <1>13, <1>14

\* A rule that applies to a capability names two mechanisms of the i-th reading, one
\* of which that reading brings.
ContradictedIn(q, k, i) ==
    LET d == CapabilityDelta(q, k)
    IN  \E rule \in ToSet(q.contradictions) :
           /\ AppliesTo(rule, k, q.zone)
           /\ Cardinality(rule.control_ids \cap d.views[i].offered) >= 2
           /\ \E a \in {b \in d.added : b.added_by = q.regions[i]} : a.control \in rule.control_ids

\* What a cumulative reading brings.
LEMMA Brought ==
    ASSUME NEW q, IsQuery(q), q.mode = "cumulative", NEW k, NEW i \in 2..Len(q.regions)
    PROVE  LET brought == {a \in CapabilityDelta(q, k).added : a.added_by = q.regions[i]}
           IN  /\ \A c : (\E a \in brought : a.control = c) <=>
                            c \in OfferedBy(q, k, i) \ OfferedBy(q, k, i - 1)
               /\ \A a \in brought : a.changes_coverage <=>
                            Reading(q, k, i)[a.control].mapping_type # "contextual"
<1> DEFINE n == Len(q.regions)
           brought == {a \in CapabilityDelta(q, k).added : a.added_by = q.regions[i]}
<1>1. /\ n \in Nat /\ n >= 2 /\ DOMAIN q.regions = 1..n
      /\ \A m, j \in 1..n : q.regions[m] = q.regions[j] => m = j
  BY Regions
<1>2. CapabilityDelta(q, k).added
        = UNION {{AddedIn(q, k, m, c) : c \in OnlyIn(q, k, m)} : m \in Reporting(q)}
  BY DeltaParts
<1>3. i \in Reporting(q) /\ Reporting(q) \subseteq 1..n
  BY <1>1 DEF Reporting
<1>4. OnlyIn(q, k, i) = OfferedBy(q, k, i) \ OfferedBy(q, k, i - 1)
  BY <1>3, OnlyOnce
<1> HIDE DEF n
<1>5. \A m \in 1..n : \A c : /\ AddedIn(q, k, m, c).control = c
                             /\ AddedIn(q, k, m, c).added_by = q.regions[m]
  BY DEF AddedIn
<1>6. \A c : AddedIn(q, k, i, c).changes_coverage <=> Reading(q, k, i)[c].mapping_type # "contextual"
  BY DEF AddedIn
<1>7. brought = {AddedIn(q, k, i, c) : c \in OnlyIn(q, k, i)}
  <2>1. ASSUME NEW a \in brought PROVE \E c \in OnlyIn(q, k, i) : a = AddedIn(q, k, i, c)
    <3>1. PICK m \in Reporting(q) : \E c \in OnlyIn(q, k, m) : a = AddedIn(q, k, m, c)
      BY <1>2
    <3>2. m \in 1..n /\ i \in 1..n /\ a.added_by = q.regions[m] /\ a.added_by = q.regions[i]
      BY <1>3, <1>5, <3>1
    <3>3. m = i
      BY <1>1, <3>2
    <3> QED BY <3>1, <3>3
  <2>2. ASSUME NEW c \in OnlyIn(q, k, i) PROVE AddedIn(q, k, i, c) \in brought
    <3>1. AddedIn(q, k, i, c) \in CapabilityDelta(q, k).added
      BY <1>2, <1>3
    <3> QED BY <1>3, <1>5, <3>1
  <2> HIDE DEF brought
  <2> QED BY <2>1, <2>2
<1> HIDE DEF brought
<1>8. \A c : (\E a \in brought : a.control = c) <=> c \in OnlyIn(q, k, i)
  BY <1>3, <1>5, <1>7
<1>9. ASSUME NEW a \in brought
      PROVE  a.changes_coverage <=> Reading(q, k, i)[a.control].mapping_type # "contextual"
  <2>1. PICK c \in OnlyIn(q, k, i) : a = AddedIn(q, k, i, c)
    BY <1>7
  <2>2. a.control = c
    BY <1>3, <1>5, <2>1
  <2> QED BY <1>6, <2>1, <2>2
<1> QED
  BY <1>4, <1>8, <1>9 DEF brought

\* Unless it is contradicted, a reading leaves what it took over where it was.
LEMMA ReadTogether ==
    ASSUME NEW q, IsQuery(q), q.mode = "cumulative", NEW k, NEW i \in 2..Len(q.regions),
           ~ContradictedIn(q, k, i)
    PROVE  LET after == Reading(q, k, i)
               before == Reading(q, k, i - 1)
           IN  /\ OfferedBy(q, k, i - 1) \subseteq OfferedBy(q, k, i)
               /\ \A c \in OfferedBy(q, k, i - 1) :
                     /\ after[c].status = before[c].status
                     /\ after[c].mapping_type = before[c].mapping_type
                     /\ after[c].coverage_weight = before[c].coverage_weight
               /\ \A c \in OfferedBy(q, k, i) \ OfferedBy(q, k, i - 1) :
                     after[c].status = "eligible"
<1> DEFINE S == OfferedBy(q, k, i)
           B == OfferedBy(q, k, i - 1)
           built == BuildOptions(q.mappings, k)
           o == Restrict(built, S)
           b == Restrict(built, B)
           X(x) == {rule \in ToSet(q.contradictions) : AppliesTo(rule, k, q.zone) /\ Materialised(rule, x)}
           declared(x) == ContradictionsFor(q.contradictions, k, x, q.zone)
<1>1. /\ Len(q.regions) \in Nat /\ DOMAIN q.regions = 1..Len(q.regions)
      /\ i \in 1..Len(q.regions) /\ i - 1 \in 1..Len(q.regions)
  BY Regions
<1>2. B \subseteq S
  BY <1>1, Accumulates
<1>3. /\ DOMAIN built \subseteq Control /\ S \subseteq DOMAIN built
      /\ o \in Options(S) /\ b \in Options(B)
      /\ \A c \in S : o[c] = built[c] /\ built[c].status = "eligible"
      /\ \A c \in B : b[c] = built[c]
      /\ Reading(q, k, i) = Settled(o, declared(o), q.zone)
      /\ Reading(q, k, i - 1) = Settled(b, declared(b), q.zone)
      /\ \A c \in S : /\ Reading(q, k, i)[c].mapping_type = built[c].mapping_type
                      /\ Reading(q, k, i)[c].coverage_weight = built[c].coverage_weight
      /\ \A c \in B : /\ Reading(q, k, i - 1)[c].mapping_type = built[c].mapping_type
                      /\ Reading(q, k, i - 1)[c].coverage_weight = built[c].coverage_weight
  BY <1>1, ReadingOffers
<1>4. \A a : (\E x \in {y \in CapabilityDelta(q, k).added : y.added_by = q.regions[i]} : x.control = a)
                <=> a \in S \ B
  BY Brought
<1>5. CapabilityDelta(q, k).views[i].offered = S
  BY <1>1, DeltaParts
<1>6. \A rule \in ToSet(q.contradictions) :
         AppliesTo(rule, k, q.zone) /\ Cardinality(rule.control_ids \cap S) >= 2 =>
            rule.control_ids \cap S = rule.control_ids \cap B
  <2> HIDE DEF S, B
  <2>1. ASSUME NEW rule \in ToSet(q.contradictions), AppliesTo(rule, k, q.zone),
               Cardinality(rule.control_ids \cap S) >= 2, NEW c \in rule.control_ids \cap S, c \notin B
        PROVE  FALSE
    <3>1. PICK x \in {y \in CapabilityDelta(q, k).added : y.added_by = q.regions[i]} : x.control = c
      BY <1>4, <2>1
    <3> QED BY <1>5, <2>1, <3>1 DEF ContradictedIn
  <2> QED BY <1>2, <2>1
<1> HIDE DEF S, B, built
<1>7. DOMAIN o = S /\ DOMAIN b = B
  BY <1>3 DEF Options
<1>8. \A rule : /\ Materialised(rule, o) <=> Cardinality(rule.control_ids \cap S) >= 2
                /\ Materialised(rule, b) <=> Cardinality(rule.control_ids \cap B) >= 2
  BY <1>7 DEF Materialised, Involved
<1>9. X(o) = X(b)
  <2>1. ASSUME NEW rule, Cardinality(rule.control_ids \cap B) >= 2
        PROVE  Cardinality(rule.control_ids \cap S) >= 2
    <3> DEFINE U == rule.control_ids \cap S
               V == rule.control_ids \cap B
    <3>1. U \subseteq Control /\ V \subseteq U
      BY <1>2, <1>3
    <3> HIDE DEF U, V
    <3>2. IsFiniteSet(U)
      BY <3>1, FS_Subset, FiniteCatalogAssumption
    <3>3. Cardinality(V) <= Cardinality(U) /\ IsFiniteSet(V)
      BY <3>1, <3>2, FS_Subset
    <3>4. Cardinality(U) \in Nat /\ Cardinality(V) \in Nat
      BY <3>2, <3>3, FS_CardinalityType
    <3>5. Cardinality(V) >= 2
      BY <2>1 DEF V
    <3> QED BY <3>3, <3>4, <3>5 DEF U
  <2>2. ASSUME NEW rule \in ToSet(q.contradictions), AppliesTo(rule, k, q.zone)
        PROVE  Materialised(rule, o) <=> Materialised(rule, b)
    BY <1>6, <1>8, <2>1, <2>2
  <2> HIDE DEF o, b
  <2> QED BY <2>2
<1>10. declared(o) = declared(b)
  BY <1>9 DEF ContradictionsFor
<1>11. declared(o) \in Seq(Contradiction) /\ ToSet(declared(o)) = X(o)
  BY DeclaredOnes DEF IsQuery
<1>12. \A rule \in ToSet(declared(o)) : rule.control_ids \cap S = rule.control_ids \cap B
  BY <1>6, <1>8, <1>11
<1> HIDE DEF o, b, X, declared
<1>13. /\ \A c \in B : Settled(o, declared(o), q.zone)[c].status = Settled(b, declared(o), q.zone)[c].status
       /\ \A c \in S \ B : Settled(o, declared(o), q.zone)[c].status = o[c].status
  <2>1. \A c \in B : b[c] = o[c]
    BY <1>2, <1>3
  <2> QED BY <1>2, <1>3, <1>11, <1>12, <2>1, SettledTogether
<1> QED
  BY <1>2, <1>3, <1>10, <1>13 DEF S, B

\* So coverage moves only with what is new.
LEMMA CoverageMoves ==
    ASSUME NEW q, IsQuery(q), q.mode = "cumulative", NEW k, NEW i \in 2..Len(q.regions),
           ~ContradictedIn(q, k, i)
    PROVE  LET d == CapabilityDelta(q, k)
           IN  /\ d.views[i].coverage > d.views[i - 1].coverage =>
                    \E a \in {b \in d.added : b.added_by = q.regions[i]} : a.changes_coverage
               /\ ~(d.views[i].coverage < d.views[i - 1].coverage)
<1> DEFINE d == CapabilityDelta(q, k)
           S == OfferedBy(q, k, i)
           B == OfferedBy(q, k, i - 1)
           after == Reading(q, k, i)
           before == Reading(q, k, i - 1)
           W(x) == {x[c].coverage_weight : c \in Effective(x)} \cup {0}
           brought == {b \in d.added : b.added_by = q.regions[i]}
<1>1. /\ Len(q.regions) \in Nat /\ DOMAIN q.regions = 1..Len(q.regions)
      /\ i \in 1..Len(q.regions) /\ i - 1 \in 1..Len(q.regions)
  BY Regions
<1>2. after \in Options(S) /\ before \in Options(B)
  BY <1>1, ReadingOffers
<1>3. /\ B \subseteq S
      /\ \A c \in B : /\ after[c].status = before[c].status
                      /\ after[c].mapping_type = before[c].mapping_type
                      /\ after[c].coverage_weight = before[c].coverage_weight
      /\ \A c \in S \ B : after[c].status = "eligible"
  BY ReadTogether
<1>4. /\ \A c : (\E a \in brought : a.control = c) <=> c \in S \ B
      /\ \A a \in brought : a.changes_coverage <=> after[a.control].mapping_type # "contextual"
  <2>1. \A c : (\E a \in brought : a.control = c) <=> c \in S \ B
    BY Brought
  <2>2. \A a \in brought : a.changes_coverage <=> after[a.control].mapping_type # "contextual"
    BY Brought
  <2> QED BY <2>1, <2>2
<1>5. d.views[i].coverage = Max(W(after)) /\ d.views[i - 1].coverage = Max(W(before))
  <2>1. \A j \in 1..Len(q.regions) : d.views[j].coverage = EffectiveCoverage(Reading(q, k, j))
    BY DeltaParts
  <2>2. d.views[i].coverage = EffectiveCoverage(after) /\ d.views[i - 1].coverage = EffectiveCoverage(before)
    BY <1>1, <2>1
  <2> QED BY <2>2 DEF EffectiveCoverage
<1> HIDE DEF d, S, B, after, before, brought
<1>6. Effective(after) = {c \in S : after[c].status # "superseded" /\ after[c].mapping_type # "contextual"}
      /\ Effective(before) = {c \in B : before[c].status # "superseded" /\ before[c].mapping_type # "contextual"}
  BY <1>2 DEF Effective, Options
<1>7. /\ Effective(before) \subseteq Effective(after)
      /\ \A c \in Effective(after) \ Effective(before) : c \in S \ B /\ after[c].mapping_type # "contextual"
      /\ \A c \in Effective(before) : after[c].coverage_weight = before[c].coverage_weight
  BY <1>3, <1>6
<1>8. W(before) \subseteq W(after) /\ W(after) \subseteq 0..Full
  <2>1. \A c \in Effective(after) : after[c] \in CandidateOption
    BY <1>2, <1>6 DEF Options
  <2>2. \A c \in Effective(after) : after[c].coverage_weight \in 0..Full
    BY <2>1 DEF CandidateOption
  <2> QED BY <1>7, <2>2, FullAssumption
<1>9. /\ Max(W(before)) \in W(before) /\ Max(W(after)) \in W(after)
      /\ \A y \in W(after) : Max(W(after)) >= y
  <2> HIDE DEF W
  <2>1. W(before) # {} /\ W(after) # {}
    BY DEF W
  <2>2. W(before) \subseteq 0..Full /\ Full \in Nat
    BY <1>8, FullAssumption
  <2> QED BY <1>8, <2>1, <2>2, GreatestOne
<1>10. ~(Max(W(after)) < Max(W(before)))
  <2> HIDE DEF W
  <2>1. Max(W(after)) \in Int /\ Max(W(before)) \in Int /\ Max(W(after)) >= Max(W(before))
    BY <1>8, <1>9
  <2> QED BY <2>1
<1>11. (\A a \in brought : ~a.changes_coverage) => Max(W(after)) = Max(W(before))
  <2> SUFFICES ASSUME \A a \in brought : ~a.changes_coverage PROVE W(after) = W(before)
    OBVIOUS
  <2>1. \A c \in S \ B : after[c].mapping_type = "contextual"
    BY <1>4
  <2>2. Effective(after) = Effective(before)
    BY <1>7, <2>1
  <2> QED BY <1>7, <2>2
<1>12. Max(W(after)) > Max(W(before)) => \E a \in brought : a.changes_coverage
  <2> HIDE DEF W
  <2>1. Max(W(before)) \in Int
    BY <1>8, <1>9
  <2> QED BY <1>11, <2>1
<1> HIDE DEF W
<1> QED
  BY <1>5, <1>10, <1>12 DEF d, brought

(***************************************************************************)
(* The retrieval                                                           *)
(***************************************************************************)
\* The smaller of two numbers.
LEMMA LeastOfTwo ==
    ASSUME NEW a \in Int, NEW b \in Int
    PROVE  Min({a, b}) = IF a <= b THEN a ELSE b
BY DEF Min

\* The first elements of a ranking.
LEMMA TakeKeeps ==
    ASSUME NEW A, NEW s \in Seq(A), NEW n \in Nat
    PROVE  /\ Take(s, n) \in Seq(A)
           /\ Len(Take(s, n)) = IF n <= Len(s) THEN n ELSE Len(s)
           /\ \A i \in 1..Len(Take(s, n)) : Take(s, n)[i] = s[i]
<1> DEFINE m == Min({n, Len(s)})
<1>1. Len(s) \in Nat /\ \A i \in 1..Len(s) : s[i] \in A
  BY LenProperties, ElementOfSeq
<1>2. m = (IF n <= Len(s) THEN n ELSE Len(s)) /\ m \in Nat /\ m <= Len(s)
  BY <1>1, LeastOfTwo
<1> HIDE DEF m
<1>3. \A i \in 1..m : s[i] \in A
  BY <1>1, <1>2
<1>4. /\ SubSeq(s, 1, m) \in Seq(A)
      /\ Len(SubSeq(s, 1, m)) = IF 1 <= m THEN m - 1 + 1 ELSE 0
      /\ \A i \in 1..(m - 1 + 1) : SubSeq(s, 1, m)[i] = s[1 + i - 1]
  BY <1>2, <1>3, SubSeqProperties
<1>5. Len(SubSeq(s, 1, m)) = m /\ \A i \in 1..m : SubSeq(s, 1, m)[i] = s[i]
  BY <1>2, <1>4
<1>6. Take(s, n) = SubSeq(s, 1, m)
  BY DEF Take, m
<1> QED
  BY <1>2, <1>4, <1>5, <1>6

\* No control is there twice.
OneEach(s) == \A i, j \in DOMAIN s : s[i].control = s[j].control => i = j

\* A selection names a control once if what it is made of does.
LEMMA OnlyOneEach ==
    ASSUME NEW s \in Seq(IndexHit), OneEach(s), NEW X
    PROVE  Only(s, X) \in Seq(IndexHit) /\ OneEach(Only(s, X))
           /\ ToSet(Only(s, X)) = ToSet(s) \cap X
<1> DEFINE t == Only(s, X)
           at == Ascending(Positions(s, X))
<1>1. /\ t \in Seq(IndexHit) /\ Len(t) \in Nat
      /\ at \in [1..Len(t) -> 1..Len(s)]
      /\ \A n \in 1..Len(t) : t[n] = s[at[n]] /\ t[n] \in X
      /\ \A m, n \in 1..Len(t) : m < n => at[m] < at[n]
  BY OnlyKeeps
<1>s. ToSet(t) = ToSet(s) \cap X
  BY OnlySet
<1> HIDE DEF t, at
<1>2. DOMAIN t = 1..Len(t) /\ DOMAIN s = 1..Len(s) /\ Len(s) \in Nat
  BY <1>1, LenProperties
<1>3. ASSUME NEW m \in 1..Len(t), NEW n \in 1..Len(t), t[m].control = t[n].control PROVE m = n
  <2>0. at[m] \in DOMAIN s /\ at[n] \in DOMAIN s /\ s[at[m]].control = s[at[n]].control
    BY <1>1, <1>2, <1>3
  <2>1. at[m] = at[n]
    BY <2>0 DEF OneEach
  <2>2. at[m] \in Int /\ at[n] \in Int
    BY <1>1
  <2> QED BY <1>1, <2>1, <2>2
<1>4. OneEach(t)
  BY <1>2, <1>3 DEF OneEach
<1> QED
  BY <1>1, <1>4, <1>s DEF t

\* The hits about some controls.
LEMMA HitsAre ==
    ASSUME NEW s \in Seq(IndexHit), OneEach(s), NEW C
    PROVE  /\ HitsOf(s, C) \in Seq(IndexHit) /\ OneEach(HitsOf(s, C))
           /\ ToSet(HitsOf(s, C)) = {h \in ToSet(s) : h.control \in C}
BY OnlyOneEach DEF HitsOf

\* A hit is about a control.
LEMMA HitsAreTyped ==
    ASSUME NEW s \in Seq(IndexHit), NEW i \in DOMAIN s
    PROVE  s[i] \in IndexHit /\ s[i].control \in Control
<1>1. s[i] \in IndexHit
  BY LenProperties, ElementOfSeq
<1> QED BY <1>1 DEF IndexHit

\* What a search returns names a control once.
LEMMA SearchAre ==
    ASSUME NEW ranking \in Seq(IndexHit), OneEach(ranking), NEW limit \in Nat, NEW passing
    PROVE  LET hits == Search(ranking, limit, passing)
           IN  hits \in Seq(IndexHit) /\ OneEach(hits)
<1> DEFINE s == HitsOf(ranking, passing)
           t == Take(s, limit)
<1>1. s \in Seq(IndexHit) /\ OneEach(s)
  BY HitsAre
<1> HIDE DEF s
<1>2. /\ t \in Seq(IndexHit) /\ Len(t) = (IF limit <= Len(s) THEN limit ELSE Len(s))
      /\ \A i \in 1..Len(t) : t[i] = s[i]
  BY <1>1, TakeKeeps
<1> HIDE DEF t
<1>3. DOMAIN t = 1..Len(t) /\ DOMAIN s = 1..Len(s) /\ Len(s) \in Nat
  BY <1>1, <1>2, LenProperties
<1>4. \A i \in DOMAIN t : i \in DOMAIN s
  BY <1>2, <1>3
<1>5. OneEach(t)
  BY <1>1, <1>2, <1>3, <1>4 DEF OneEach
<1> QED BY <1>2, <1>5 DEF Search, t, s

\* Two lists one after the other.
LEMMA OneAfterTheOther ==
    ASSUME NEW A, NEW s \in Seq(A), NEW t \in Seq(A)
    PROVE  /\ s \o t \in Seq(A) /\ Len(s) \in Nat /\ Len(t) \in Nat
           /\ Len(s \o t) = Len(s) + Len(t)
           /\ DOMAIN (s \o t) = 1..(Len(s) + Len(t))
           /\ DOMAIN s = 1..Len(s) /\ DOMAIN t = 1..Len(t)
           /\ \A i \in 1..Len(s) : (s \o t)[i] = s[i]
           /\ \A i \in (Len(s) + 1)..(Len(s) + Len(t)) :
                 (s \o t)[i] = t[i - Len(s)] /\ i - Len(s) \in 1..Len(t)
           /\ \A i \in 1..Len(t) : (s \o t)[i + Len(s)] = t[i] /\ i + Len(s) \in 1..(Len(s) + Len(t))
           /\ ToSet(s \o t) = ToSet(s) \cup ToSet(t)
<1>1. /\ s \o t \in Seq(A)
      /\ Len(s \o t) = Len(s) + Len(t)
      /\ \A i \in 1 .. Len(s) + Len(t) : (s \o t)[i] = IF i <= Len(s) THEN s[i] ELSE t[i - Len(s)]
  BY ConcatProperties
<1>2. /\ Len(s) \in Nat /\ Len(t) \in Nat
      /\ DOMAIN s = 1..Len(s) /\ DOMAIN t = 1..Len(t) /\ DOMAIN (s \o t) = 1..Len(s \o t)
  BY <1>1, LenProperties
<1> DEFINE u == s \o t
           m == Len(s)
           n == Len(t)
<1> HIDE DEF u, m, n
<1>3. /\ m \in Nat /\ n \in Nat /\ DOMAIN u = 1..(m + n)
      /\ \A i \in 1..(m + n) : u[i] = IF i <= m THEN s[i] ELSE t[i - m]
  BY <1>1, <1>2 DEF u, m, n
<1>4. \A i \in 1..m : u[i] = s[i] /\ i \in 1..(m + n)
  BY <1>3
<1>5. \A i \in (m + 1)..(m + n) : u[i] = t[i - m] /\ i - m \in 1..n
  BY <1>3
<1>6. \A i \in 1..n : u[i + m] = t[i] /\ i + m \in 1..(m + n)
  BY <1>3
<1>7. ToSet(u) = ToSet(s) \cup ToSet(t)
  <2>1. \A i \in DOMAIN u : u[i] \in ToSet(s) \cup ToSet(t)
    <3> SUFFICES ASSUME NEW i \in 1..(m + n) PROVE u[i] \in ToSet(s) \cup ToSet(t)
      BY <1>3
    <3>1. CASE i <= m
      <4>1. i \in 1..m
        BY <1>3, <3>1
      <4>2. i \in DOMAIN s /\ u[i] = s[i]
        BY <1>2, <1>4, <4>1 DEF m
      <4> QED BY <4>2 DEF ToSet
    <3>2. CASE i > m
      <4>1. i \in (m + 1)..(m + n)
        BY <1>3, <3>2
      <4>2. i - m \in DOMAIN t /\ u[i] = t[i - m]
        BY <1>2, <1>5, <4>1 DEF n
      <4> QED BY <4>2 DEF ToSet
    <3> QED BY <1>3, <3>1, <3>2
  <2>2. \A i \in DOMAIN s : s[i] \in ToSet(u)
    BY <1>2, <1>3, <1>4 DEF m, ToSet
  <2>3. \A i \in DOMAIN t : t[i] \in ToSet(u)
    BY <1>2, <1>3, <1>6 DEF n, ToSet
  <2> QED BY <2>1, <2>2, <2>3 DEF ToSet
<1> QED
  BY <1>1, <1>2, <1>4, <1>5, <1>6, <1>7 DEF u, m, n

\* What is marked goes last, and nothing else changes.
LEMMA SinkAre ==
    ASSUME NEW s \in Seq(IndexHit), OneEach(s), NEW marked
    PROVE  LET t == SinkGated(s, marked)
           IN  t \in Seq(IndexHit) /\ OneEach(t) /\ ToSet(t) = ToSet(s)
<1> DEFINE a == HitsOf(s, Control \ marked)
           b == HitsOf(s, marked)
<1>1. /\ a \in Seq(IndexHit) /\ OneEach(a) /\ ToSet(a) = {h \in ToSet(s) : h.control \in Control \ marked}
      /\ b \in Seq(IndexHit) /\ OneEach(b) /\ ToSet(b) = {h \in ToSet(s) : h.control \in marked}
  BY HitsAre
<1> HIDE DEF a, b
<1>2. /\ a \o b \in Seq(IndexHit) /\ Len(a) \in Nat /\ Len(b) \in Nat
      /\ DOMAIN (a \o b) = 1..(Len(a) + Len(b))
      /\ DOMAIN a = 1..Len(a) /\ DOMAIN b = 1..Len(b)
      /\ \A i \in 1..Len(a) : (a \o b)[i] = a[i]
      /\ \A i \in (Len(a) + 1)..(Len(a) + Len(b)) :
            (a \o b)[i] = b[i - Len(a)] /\ i - Len(a) \in 1..Len(b)
      /\ ToSet(a \o b) = ToSet(a) \cup ToSet(b)
  BY <1>1, OneAfterTheOther
<1> DEFINE t == a \o b
           m == Len(a)
           n == Len(b)
<1>3. \A i \in 1..m, j \in 1..n : a[i].control # b[j].control
  <2> SUFFICES ASSUME NEW i \in 1..m, NEW j \in 1..n PROVE a[i].control # b[j].control
    OBVIOUS
  <2>1. a[i] \in ToSet(a) /\ b[j] \in ToSet(b)
    BY <1>2 DEF ToSet
  <2> QED BY <1>1, <2>1
<1> HIDE DEF t, m, n
<1>4. ASSUME NEW i \in 1..(m + n), NEW j \in 1..(m + n), t[i].control = t[j].control
      PROVE  i = j
  <2>1. m \in Nat /\ n \in Nat
    BY <1>2 DEF m, n
  <2>2. /\ \A x \in 1..m : t[x] = a[x]
        /\ \A x \in (m + 1)..(m + n) : t[x] = b[x - m] /\ x - m \in 1..n
    BY <1>2 DEF t, m, n
  <2>3. /\ \A x, y \in 1..m : a[x].control = a[y].control => x = y
        /\ \A x, y \in 1..n : b[x].control = b[y].control => x = y
    BY <1>1, <1>2 DEF OneEach, m, n
  <2>4. CASE i \in 1..m /\ j \in 1..m
    BY <1>4, <2>2, <2>3, <2>4
  <2>5. CASE i \in 1..m /\ j \in (m + 1)..(m + n)
    BY <1>3, <1>4, <2>2, <2>5
  <2>6. CASE i \in (m + 1)..(m + n) /\ j \in 1..m
    BY <1>3, <1>4, <2>2, <2>6
  <2>7. CASE i \in (m + 1)..(m + n) /\ j \in (m + 1)..(m + n)
    <3>1. i - m = j - m
      BY <1>4, <2>2, <2>3, <2>7
    <3> QED BY <2>1, <2>7, <3>1
  <2> QED BY <2>1, <2>4, <2>5, <2>6, <2>7
<1>5. OneEach(t)
  BY <1>2, <1>4 DEF OneEach, t, m, n
<1>6. \A h \in ToSet(s) : h.control \in Control
  BY HitsAreTyped DEF ToSet
<1>7. ToSet(t) = ToSet(s)
  BY <1>1, <1>2, <1>6 DEF t
<1> QED
  BY <1>2, <1>5, <1>7 DEF SinkGated, t, a, b

\* Two sequences with nothing in common and no repetitions.
LEMMA InjectiveConcat ==
    ASSUME NEW A, NEW s \in Seq(A), NEW t \in Seq(A), IsInjective(s), IsInjective(t),
           ToSet(s) \cap ToSet(t) = {}
    PROVE  IsInjective(s \o t) /\ IsPrefix(s, s \o t)
<1> DEFINE u == s \o t
           m == Len(s)
           n == Len(t)
<1>1. /\ u \in Seq(A) /\ m \in Nat /\ n \in Nat
      /\ Len(u) = m + n /\ DOMAIN u = 1..(m + n)
      /\ DOMAIN s = 1..m /\ DOMAIN t = 1..n
      /\ \A i \in 1..m : u[i] = s[i]
      /\ \A i \in (m + 1)..(m + n) : u[i] = t[i - m] /\ i - m \in 1..n
  BY OneAfterTheOther
<1> HIDE DEF u, m, n
<1>2. /\ \A i, j \in 1..m : s[i] = s[j] => i = j
      /\ \A i, j \in 1..n : t[i] = t[j] => i = j
      /\ \A i \in 1..m, j \in 1..n : s[i] # t[j]
  <2>1. \A i \in 1..m : s[i] \in ToSet(s)
    BY <1>1 DEF ToSet
  <2>2. \A i \in 1..n : t[i] \in ToSet(t)
    BY <1>1 DEF ToSet
  <2> QED BY <1>1, <2>1, <2>2 DEF IsInjective
<1>3. ASSUME NEW i \in 1..(m + n), NEW j \in 1..(m + n), u[i] = u[j]
      PROVE  i = j
  <2>4. CASE i \in 1..m /\ j \in 1..m
    BY <1>1, <1>2, <1>3, <2>4
  <2>5. CASE i \in 1..m /\ j \in (m + 1)..(m + n)
    BY <1>1, <1>2, <1>3, <2>5
  <2>6. CASE i \in (m + 1)..(m + n) /\ j \in 1..m
    BY <1>1, <1>2, <1>3, <2>6
  <2>7. CASE i \in (m + 1)..(m + n) /\ j \in (m + 1)..(m + n)
    <3>1. i - m = j - m
      BY <1>1, <1>2, <1>3, <2>7
    <3> QED BY <1>1, <2>7, <3>1
  <2> QED BY <1>1, <2>4, <2>5, <2>6, <2>7
<1>4. IsInjective(u)
  BY <1>1, <1>3 DEF IsInjective
<1>5. IsPrefix(s, u)
  <2> DEFINE x == SubSeq(s, 1, m)
             y == SubSeq(u, 1, m)
  <2>1. /\ \A i \in 1..m : s[i] \in A
        /\ \A i \in 1..m : u[i] \in A
    BY <1>1, ElementOfSeq DEF m
  <2>2. /\ x \in Seq(A) /\ Len(x) = (IF 1 <= m THEN m - 1 + 1 ELSE 0)
        /\ \A i \in 1..(m - 1 + 1) : x[i] = s[1 + i - 1]
    BY <1>1, <2>1, SubSeqProperties
  <2>3. /\ y \in Seq(A) /\ Len(y) = (IF 1 <= m THEN m - 1 + 1 ELSE 0)
        /\ \A i \in 1..(m - 1 + 1) : y[i] = u[1 + i - 1]
    BY <1>1, <2>1, SubSeqProperties
  <2> HIDE DEF x, y
  <2>4. Len(x) = m /\ Len(y) = m /\ \A i \in 1..m : x[i] = s[i] /\ y[i] = u[i]
    BY <1>1, <2>2, <2>3
  <2>5. x = y
    BY <1>1, <2>2, <2>3, <2>4, SeqEqual
  <2>6. Len(s) <= Len(u)
    BY <1>1 DEF m
  <2> QED BY <2>5, <2>6 DEF IsPrefix, x, y, m
<1> QED
  BY <1>4, <1>5 DEF u

\* What the pass found of a capability.
IsFound(f) ==
    /\ f.catalog_control_ids \in Seq(Control) /\ IsInjective(f.catalog_control_ids)
    /\ f.retrieved \in Seq(IndexHit) /\ OneEach(f.retrieved)

\* That is what the pass returns.
LEMMA RetrievedIsFound ==
    ASSUME NEW ranking \in Seq(IndexHit), OneEach(ranking), NEW mappings, NEW lens,
           NEW catalog \in Seq(Control), IsInjective(catalog), NEW gatedOut
    PROVE  LET f == RetrieveCapability(ranking, mappings, lens, catalog, gatedOut)
           IN  IsFound(f) /\ f.catalog_control_ids = catalog
<1> DEFINE limit == RETRIEVAL_DEPTH + Len(catalog)
           offered == ToSet(catalog)
           hits == Search(ranking, limit, {c \in Control : Matches(lens, mappings, c)})
           cut == ApplyCut(HitsOf(hits, Control \ offered))
           shown == Only(hits, {h \in ToSet(hits) : h.control \in offered \/ h \in ToSet(cut.kept)})
           f == RetrieveCapability(ranking, mappings, lens, catalog, gatedOut)
<1>1. limit \in Nat
  BY LenProperties, CutPolicyAssumption
<1>2. f.catalog_control_ids = catalog /\ f.retrieved = SinkGated(shown, gatedOut \ offered)
  <2> HIDE DEF limit, offered, cut, shown
  <2> QED BY DEF RetrieveCapability, limit, offered, hits, cut, shown
<1> HIDE DEF limit, f
<1>3. hits \in Seq(IndexHit) /\ OneEach(hits)
  BY <1>1, SearchAre
<1> HIDE DEF hits
<1>4. shown \in Seq(IndexHit) /\ OneEach(shown)
  BY <1>3, OnlyOneEach
<1> HIDE DEF shown
<1>5. SinkGated(shown, gatedOut \ offered) \in Seq(IndexHit)
      /\ OneEach(SinkGated(shown, gatedOut \ offered))
  BY <1>4, SinkAre
<1> QED
  BY <1>2, <1>5 DEF IsFound, f

\* The candidates of a capability: those of the catalog first, every control once.
LEMMA OfferedAre ==
    ASSUME NEW f, IsFound(f)
    PROVE  /\ OfferedControlIds(f) \in Seq(Control)
           /\ IsPrefix(f.catalog_control_ids, OfferedControlIds(f))
           /\ IsInjective(OfferedControlIds(f))
           /\ ToSet(OfferedControlIds(f))
                = ToSet(f.catalog_control_ids) \cup {h.control : h \in ToSet(f.retrieved)}
<1> DEFINE catalog == f.catalog_control_ids
           w == Widening(f)
           ids == [i \in DOMAIN w |-> w[i].control]
<1>1. /\ catalog \in Seq(Control) /\ IsInjective(catalog)
      /\ f.retrieved \in Seq(IndexHit) /\ OneEach(f.retrieved)
  BY DEF IsFound
<1>2. /\ w \in Seq(IndexHit) /\ OneEach(w)
      /\ ToSet(w) = {h \in ToSet(f.retrieved) : h.control \in Control \ ToSet(catalog)}
  BY <1>1, HitsAre DEF Widening
<1> HIDE DEF w
<1>3. DOMAIN w = 1..Len(w) /\ Len(w) \in Nat /\ \A i \in DOMAIN w : w[i].control \in Control
  BY <1>2, LenProperties, HitsAreTyped
<1>4. ids \in Seq(Control) /\ DOMAIN ids = DOMAIN w /\ \A i \in DOMAIN w : ids[i] = w[i].control
  <2>1. ids \in [1..Len(w) -> Control]
    BY <1>3
  <2>2. DOMAIN ids = DOMAIN w /\ \A i \in DOMAIN w : ids[i] = w[i].control
    OBVIOUS
  <2> HIDE DEF ids
  <2> QED BY <1>3, <2>1, <2>2
<1> HIDE DEF ids
<1>5. IsInjective(ids)
  BY <1>2, <1>4 DEF IsInjective, OneEach
<1>6. ToSet(ids) = {h.control : h \in ToSet(w)}
  BY <1>4 DEF ToSet
<1>7. ToSet(catalog) \cap ToSet(ids) = {}
  BY <1>2, <1>6
<1>8. OfferedControlIds(f) = catalog \o ids
  BY DEF OfferedControlIds, ids, w
<1> HIDE DEF catalog
<1>9. /\ catalog \o ids \in Seq(Control)
      /\ ToSet(catalog \o ids) = ToSet(catalog) \cup ToSet(ids)
  BY <1>1, <1>4, OneAfterTheOther
<1>10. IsInjective(catalog \o ids) /\ IsPrefix(catalog, catalog \o ids)
  BY <1>1, <1>4, <1>5, <1>7, InjectiveConcat
<1>11. ToSet(catalog) \cup ToSet(ids) = ToSet(catalog) \cup {h.control : h \in ToSet(f.retrieved)}
  <2>1. \A h \in ToSet(f.retrieved) : h.control \in Control
    BY <1>1, HitsAreTyped DEF ToSet
  <2> QED BY <1>2, <1>6, <2>1
<1> QED
  BY <1>8, <1>9, <1>10, <1>11 DEF catalog

(***************************************************************************)
(* What the core and the retrieval compute for a request                   *)
(***************************************************************************)
Context(ask, i) == ZoneContext(ask.zones[i], ask.profile)
Passed(ask) == [i \in DOMAIN Core(ask) |-> RetrieveZone(ask, Core(ask)[i])]

\* The core reads every zone of the profile, and settles every capability.
LEMMA CoreOfZone ==
    ASSUME NEW ask \in AskedCandidates
    PROVE  /\ DOMAIN Core(ask) = DOMAIN ask.zones
           /\ \A i \in DOMAIN Core(ask) :
                /\ Core(ask)[i].zone = Context(ask, i) /\ Context(ask, i) \in ZoneContextType
                /\ \A k \in Capability :
                      LET built == BuildOptions(ask.mappings, k)
                      IN  /\ Core(ask)[i].resolved[k] = Settled(built,
                                ContradictionsFor(ask.contradictions, k, built, Context(ask, i)),
                                Context(ask, i))
                          /\ Core(ask)[i].resolved[k] \in Options(DOMAIN built)
                          /\ DOMAIN built \subseteq Control
                          /\ DOMAIN Core(ask)[i].resolved[k] = DOMAIN built
<1>1. DOMAIN Core(ask) = DOMAIN ask.zones
      /\ \A i \in DOMAIN ask.zones : Core(ask)[i] = ZoneCore(ask, Context(ask, i))
  BY DEF Core, Context
<1>2. ASSUME NEW i \in DOMAIN ask.zones PROVE Context(ask, i) \in ZoneContextType
  <2>1. ask.zones \in Seq(Zone) /\ ask.profile \in Profile
    BY DEF AskedCandidates
  <2>2. ask.zones[i] \in Zone
    BY <2>1, LenProperties, ElementOfSeq
  <2> QED BY <2>1, <2>2, ZoneOfContext DEF Context
<1>3. ASSUME NEW zone
      PROVE  /\ ZoneCore(ask, zone).zone = zone
             /\ \A k \in Capability : ZoneCore(ask, zone).resolved[k] =
                   Settled(BuildOptions(ask.mappings, k),
                           ContradictionsFor(ask.contradictions, k, BuildOptions(ask.mappings, k), zone),
                           zone)
  BY DEF ZoneCore, ResolveCapability
<1>4. ASSUME NEW i \in DOMAIN ask.zones, NEW k \in Capability
      PROVE  LET built == BuildOptions(ask.mappings, k)
             IN  /\ Core(ask)[i].resolved[k] \in Options(DOMAIN built)
                 /\ DOMAIN built \subseteq Control
                 /\ DOMAIN Core(ask)[i].resolved[k] = DOMAIN built
  <2> DEFINE built == BuildOptions(ask.mappings, k)
             declared == ContradictionsFor(ask.contradictions, k, built, Context(ask, i))
  <2>1. ask.mappings \in SUBSET Mapping /\ ask.contradictions \in Seq(Contradiction)
    BY DEF AskedCandidates
  <2>2. built \in Options(DOMAIN built) /\ DOMAIN built \subseteq Control
    BY <2>1, BuiltOptions
  <2>3. declared \in Seq(Contradiction)
    BY <2>1, DeclaredOnes
  <2>4. Core(ask)[i].resolved[k] = Settled(built, declared, Context(ask, i))
    BY <1>1, <1>3
  <2> HIDE DEF built, declared
  <2>5. Settled(built, declared, Context(ask, i)) \in Options(DOMAIN built)
    BY <2>2, <2>3, SettledFields
  <2> QED BY <2>2, <2>4, <2>5 DEF Options, built
<1> QED
  BY <1>1, <1>2, <1>3, <1>4

\* The catalog of a capability is what was mapped to it, once each.
LEMMA CatalogOfCapability ==
    ASSUME NEW ask \in AskedCandidates, NEW i \in DOMAIN Core(ask), NEW k \in Capability
    PROVE  LET catalog == Presented(Core(ask)[i].resolved[k], Core(ask)[i].zone)
           IN  /\ catalog \in Seq(Control) /\ IsInjective(catalog)
               /\ ToSet(catalog) = DOMAIN Core(ask)[i].resolved[k]
<1> DEFINE o == Core(ask)[i].resolved[k]
           S == DOMAIN BuildOptions(ask.mappings, k)
<1>1. o \in Options(S) /\ S \subseteq Control /\ DOMAIN o = S
      /\ Core(ask)[i].zone \in ZoneContextType
  BY CoreOfZone
<1> HIDE DEF o, S
<1> QED
  BY <1>1, PresentedLists DEF o

\* The retrieval keeps the catalog of a capability as it is.
LEMMA PassedOfCapability ==
    ASSUME NEW ask \in AskedCandidates, NEW i \in DOMAIN Core(ask), NEW k \in Capability
    PROVE  /\ DOMAIN Passed(ask) = DOMAIN Core(ask)
           /\ IsFound(Passed(ask)[i][k])
           /\ Passed(ask)[i][k].catalog_control_ids
                = Presented(Core(ask)[i].resolved[k], Core(ask)[i].zone)
<1> DEFINE core == Core(ask)[i]
           lens == ApplicabilityLens(core.zone, ask.lens)
           catalog == Presented(core.resolved[k], core.zone)
<1>1. DOMAIN Passed(ask) = DOMAIN Core(ask) /\ Passed(ask)[i] = RetrieveZone(ask, core)
  BY DEF Passed
<1>2. Passed(ask)[i][k] = RetrieveCapability(ask.ranking[k], ask.mappings, lens, catalog,
                                             ZoneGatedControls(core.gated))
  BY <1>1 DEF RetrieveZone
<1>3. catalog \in Seq(Control) /\ IsInjective(catalog)
  BY CatalogOfCapability
<1>4. ask.ranking[k] \in Seq(IndexHit) /\ OneEach(ask.ranking[k])
  <2>1. ask.ranking \in [Capability -> {s \in Seq(IndexHit) :
                            \A m, j \in DOMAIN s : s[m].control = s[j].control => m = j}]
    BY DEF AskedCandidates
  <2> QED BY <2>1 DEF OneEach
<1> HIDE DEF lens, catalog, core
<1>5. /\ IsFound(Passed(ask)[i][k])
      /\ Passed(ask)[i][k].catalog_control_ids = catalog
  BY <1>2, <1>3, <1>4, RetrievedIsFound
<1> QED
  BY <1>1, <1>5 DEF catalog, core

(***************************************************************************)
(* The invariant of a request                                              *)
(***************************************************************************)
Batches(r) == Cardinality({b \in DOMAIN ledger : ledger[b].by = r})

\* The stages of a candidates request, once its core has run and once the
\* retrieval is recorded.
Writing == {"explaining", "verifying", "asking"}
Computed == {"computed", "recorded", "widened"} \cup Writing

AskedOf(r) ==
    /\ asks[r] \in Asked
    /\ stage[r] \in Computed \ {"verifying", "asking"} => Is(r, "candidates")
    /\ stage[r] \in {"verifying", "asking"} => Is(r, "candidates") \/ Is(r, "parse")

\* What is computed is what the core and the retrieval make of what is asked.
RunOf(r) ==
    /\ run[r] # Nothing => Is(r, "candidates") /\ ScopeIsReachable(asks[r]) /\ run[r] = Core(asks[r])
    /\ Is(r, "candidates") /\ stage[r] \in Computed =>
          ScopeIsReachable(asks[r]) /\ run[r] = Core(asks[r])

RetrievedOf(r) ==
    /\ retrieved[r] # Nothing => run[r] = Core(asks[r]) /\ retrieved[r] = Passed(asks[r])
    /\ Is(r, "candidates") /\ stage[r] \in {"widened"} \cup Writing => retrieved[r] = Passed(asks[r])

\* An explanation of the candidates of a capability.
Explains(x, ask) ==
    /\ x.capability \in ask.explain.capabilities
    /\ [n \in DOMAIN x.explanations |-> x.explanations[n].control_id]
         = OfferedControlIds(Passed(ask)[ask.explain.zone][x.capability])

CapabilitiesOf(s) == [j \in DOMAIN s |-> s[j].capability]

ExplainedOf(r) ==
    /\ stage[r] \in {"received", "computed", "recorded", "widened"} => explained[r] = Nothing
    /\ open[r] \in Seq(Capability) /\ \E S : explained[r] \in Seq(S)
    /\ explained[r] # Nothing =>
          /\ Is(r, "candidates") /\ ScopeIsReachable(asks[r])
          /\ run[r] = Core(asks[r]) /\ retrieved[r] = Passed(asks[r])
    /\ \A j \in DOMAIN explained[r] : Explains(explained[r][j], asks[r])
    /\ Is(r, "candidates") /\ stage[r] \in Writing =>
          CapabilitiesOf(explained[r]) \o open[r] = Ascending(asks[r].explain.capabilities)
    /\ Is(r, "candidates") /\ stage[r] \in {"verifying", "asking"} => open[r] # << >>

\* What a request has recorded, and what it is answered with.
RecordedOf(r) ==
    Is(r, "candidates") =>
        /\ stage[r] \in {"received", "computed"} => Batches(r) = 0
        /\ stage[r] \in {"recorded", "widened"} => Batches(r) = 1
        /\ stage[r] \in Writing => Batches(r) = 2
        /\ stage[r] = "failed" /\ Batches(r) > 0 => faults[r] \cap {"ledger", "encoder", "tags"} # {}

AnsweredOf(r) ==
    Is(r, "candidates") /\ stage[r] = "answered" =>
        /\ run[r] = Core(asks[r]) /\ (retrieved[r] = Nothing \/ retrieved[r] = Passed(asks[r]))
        /\ \E report, events :
              /\ answer[r] = CandidatesResponse(run[r], retrieved[r], report, events)
              /\ report.status = "ok" =>
                    /\ Batches(r) = 2
                    /\ CapabilitiesOf(explained[r]) = Ascending(asks[r].explain.capabilities)
              /\ report.status # "ok" => Batches(r) = 1

DeltaOf(r) ==
    delta[r] # Nothing =>
        /\ asks[r] \in AskedDelta /\ AcceptedRegions(asks[r].regions)
        /\ asks[r].zone \in DOMAIN asks[r].zones
        /\ delta[r] = RegionalDelta(DeltaQuery(asks[r]))

RequestInv(r) ==
    /\ AskedOf(r) /\ RunOf(r) /\ RetrievedOf(r) /\ ExplainedOf(r)
    /\ RecordedOf(r) /\ AnsweredOf(r) /\ DeltaOf(r)

\* Every variable has an entry for each request, and the ledger is a list.
Shape ==
    /\ stage \in [Request -> Stage]
    /\ DOMAIN run = Request /\ DOMAIN retrieved = Request /\ DOMAIN open = Request
    /\ DOMAIN explained = Request /\ DOMAIN answer = Request /\ DOMAIN delta = Request
    /\ DOMAIN faults = Request
    /\ \E S : ledger \in Seq(S)

DataInv == Shape /\ \A r \in Request : RequestInv(r)

-----------------------------------------------------------------------------
\* What the invariant of r reads is as it was.
Same(r) ==
    /\ asks' = asks
    /\ stage'[r] = stage[r] /\ run'[r] = run[r] /\ retrieved'[r] = retrieved[r]
    /\ open'[r] = open[r] /\ explained'[r] = explained[r] /\ answer'[r] = answer[r]
    /\ delta'[r] = delta[r] /\ faults'[r] = faults[r]
    /\ Batches(r)' = Batches(r)

\* What holds of a request then still holds.
LEMMA SameRequest ==
    ASSUME NEW r \in Request, RequestInv(r), Same(r)
    PROVE  RequestInv(r)'
<1>1. AskedOf(r)'
  BY DEF RequestInv, Same, AskedOf, Is
<1>2. RunOf(r)'
  BY DEF RequestInv, Same, RunOf, Is
<1>3. RetrievedOf(r)'
  BY DEF RequestInv, Same, RetrievedOf, Is
<1>4. ExplainedOf(r)'
  BY DEF RequestInv, Same, ExplainedOf, Is
<1>5. RecordedOf(r)'
  BY DEF RequestInv, Same, RecordedOf, Is
<1>6. AnsweredOf(r)'
  BY DEF RequestInv, Same, AnsweredOf, Is
<1>7. DeltaOf(r)'
  BY DEF RequestInv, Same, DeltaOf
<1> QED
  BY <1>1, <1>2, <1>3, <1>4, <1>5, <1>6, <1>7 DEF RequestInv

\* One batch more is one more of the request it is appended for, and of no other.
LEMMA OneBatchMore ==
    ASSUME NEW S, ledger \in Seq(S), NEW r \in Request, NEW entries,
           ledger' = Append(ledger, [by |-> r, entries |-> entries])
    PROVE  /\ \E T : ledger' \in Seq(T)
           /\ Batches(r)' = Batches(r) + 1
           /\ \A q \in Request : q # r => Batches(q)' = Batches(q)
<1> DEFINE b == [by |-> r, entries |-> entries]
           T == S \cup {b}
           n == Len(ledger)
           Of(q) == {i \in DOMAIN ledger : ledger[i].by = q}
<1>1. ledger \in Seq(T) /\ b \in T
  <2>1. n \in Nat /\ ledger \in [1..n -> S]
    BY LenProperties
  <2>2. ledger \in [1..n -> T]
    BY <2>1
  <2> HIDE DEF T
  <2>3. ledger \in Seq(T)
    BY <2>1, <2>2, SeqDef
  <2> QED BY <2>3 DEF T
<1>2. /\ ledger' \in Seq(T) /\ n \in Nat /\ DOMAIN ledger = 1..n /\ DOMAIN ledger' = 1..(n + 1)
      /\ \A i \in 1..n : ledger'[i] = ledger[i]
      /\ ledger'[n + 1] = b
  <2> HIDE DEF T, b
  <2>1. ledger' = Append(ledger, b)
    BY DEF b
  <2> QED BY <1>1, <2>1, AppendProperties, LenProperties DEF n
<1>3. b.by = r
  OBVIOUS
<1> HIDE DEF b, n, T
<1>4. \A q : IsFiniteSet(Of(q)) /\ Cardinality(Of(q)) \in Nat /\ n + 1 \notin Of(q)
  <2>1. IsFiniteSet(1..n)
    BY <1>2, FS_Interval
  <2>2. \A q : Of(q) \subseteq 1..n
    BY <1>2
  <2> QED BY <1>2, <2>1, <2>2, FS_Subset, FS_CardinalityType
<1>5. \A q : {i \in DOMAIN ledger' : ledger'[i].by = q}
                = IF q = r THEN Of(q) \cup {n + 1} ELSE Of(q)
  BY <1>2, <1>3
<1>6. \A q : Batches(q) = Cardinality(Of(q))
             /\ Batches(q)' = Cardinality(IF q = r THEN Of(q) \cup {n + 1} ELSE Of(q))
  BY <1>5 DEF Batches
<1> HIDE DEF Of
<1>7. Cardinality(Of(r) \cup {n + 1}) = Cardinality(Of(r)) + 1
  BY <1>4, FS_AddElement
<1> QED
  BY <1>2, <1>6, <1>7

(***************************************************************************)
(* The steps of a request                                                  *)
(***************************************************************************)
\* All of r but its stage, and what broke under it, is as it was.
Kept(r) ==
    /\ asks' = asks
    /\ run'[r] = run[r] /\ retrieved'[r] = retrieved[r] /\ open'[r] = open[r]
    /\ explained'[r] = explained[r] /\ answer'[r] = answer[r] /\ delta'[r] = delta[r]
    /\ faults[r] \subseteq faults'[r]
    /\ Batches(r)' = Batches(r)

\* A request that is over without an answer.  One that fails after it recorded
\* something has something that broke to show for it.
LEMMA RequestEnds ==
    ASSUME NEW r \in Request, RequestInv(r), Kept(r),
           stage'[r] \in {"refused", "failed", "lost"},
           stage'[r] = "failed" /\ Is(r, "candidates") =>
                stage[r] = "received" \/ stage[r] = "computed"
                \/ faults'[r] \cap {"ledger", "encoder", "tags"} # {}
    PROVE  RequestInv(r)'
<1>1. AskedOf(r)'
  BY DEF RequestInv, Kept, AskedOf, Is, Computed, Writing
<1>2. RunOf(r)'
  BY DEF RequestInv, Kept, RunOf, Is, Computed, Writing
<1>3. RetrievedOf(r)'
  BY DEF RequestInv, Kept, RetrievedOf, Is, Writing
<1>4. ExplainedOf(r)'
  BY DEF RequestInv, Kept, ExplainedOf, Is, Writing
<1>5. RecordedOf(r)'
  BY DEF RequestInv, Kept, RecordedOf, Is, Writing
<1>6. AnsweredOf(r)'
  BY DEF RequestInv, Kept, AnsweredOf, Is
<1>7. DeltaOf(r)'
  BY DEF RequestInv, Kept, DeltaOf
<1> QED
  BY <1>1, <1>2, <1>3, <1>4, <1>5, <1>6, <1>7 DEF RequestInv

\* A request on its way to the model: a parse, or a capability that is open.
LEMMA RequestAsks ==
    ASSUME NEW r \in Request, RequestInv(r), Kept(r), stage'[r] \in {"verifying", "asking"},
           \/ Is(r, "parse") /\ stage[r] \in {"received", "verifying"}
           \/ Is(r, "candidates") /\ stage[r] \in Writing /\ open[r] # << >>
    PROVE  RequestInv(r)'
<1>1. AskedOf(r)'
  BY DEF RequestInv, Kept, AskedOf, Is, Computed, Writing
<1>2. RunOf(r)'
  BY DEF RequestInv, Kept, RunOf, Is, Computed, Writing
<1>3. RetrievedOf(r)'
  BY DEF RequestInv, Kept, RetrievedOf, Is, Writing
<1>4. ExplainedOf(r)'
  BY DEF RequestInv, Kept, ExplainedOf, Is, Writing
<1>5. RecordedOf(r)'
  BY DEF RequestInv, Kept, RecordedOf, Is, Writing
<1>6. AnsweredOf(r)'
  BY DEF RequestInv, Kept, AnsweredOf, Is
<1>7. DeltaOf(r)'
  BY DEF RequestInv, Kept, DeltaOf
<1> QED
  BY <1>1, <1>2, <1>3, <1>4, <1>5, <1>6, <1>7 DEF RequestInv

\* A step of r leaves the others alone.
Alone(r) ==
    /\ asks' = asks
    /\ \A q \in Request : q # r => Same(q)

StagesOnly(r) ==
    /\ \E to \in Stage : stage' = [stage EXCEPT ![r] = to]
    /\ UNCHANGED <<environmentVars, ledger, run, retrieved, open, explained, answer, delta>>
    /\ faults' = faults \/ \E what : faults' = [faults EXCEPT ![r] = @ \cup {what}]

\* Nothing but stages moved: the others are left alone.
LEMMA StagesOnlyKeep ==
    ASSUME Shape, NEW r \in Request, StagesOnly(r)
    PROVE  Shape' /\ Alone(r) /\ Kept(r)
<1>1. PICK to \in Stage : stage' = [stage EXCEPT ![r] = to]
  BY DEF StagesOnly
<1>2. /\ asks' = asks /\ ledger' = ledger /\ run' = run /\ retrieved' = retrieved /\ open' = open
      /\ explained' = explained /\ answer' = answer /\ delta' = delta
  BY DEF StagesOnly, environmentVars
<1>3. DOMAIN faults' = Request /\ faults[r] \subseteq faults'[r]
      /\ \A q \in Request : q # r => faults'[q] = faults[q]
  BY DEF StagesOnly, Shape
<1>4. stage' \in [Request -> Stage] /\ \A q \in Request : q # r => stage'[q] = stage[q]
  BY <1>1 DEF Shape
<1>5. \A q \in Request : Batches(q)' = Batches(q)
  BY <1>2 DEF Batches
<1>6. Shape'
  BY <1>2, <1>3, <1>4 DEF Shape
<1>7. Alone(r) /\ Kept(r)
  BY <1>2, <1>3, <1>4, <1>5 DEF Alone, Kept, Same
<1> QED
  BY <1>6, <1>7

DataInvOf(r) == Shape' /\ Alone(r) /\ RequestInv(r)'

\* It is enough to look at the request that moved.
LEMMA OneRequestMoved ==
    ASSUME NEW r \in Request, DataInv, DataInvOf(r)
    PROVE  DataInv'
<1>1. ASSUME NEW q \in Request PROVE RequestInv(q)'
  <2>1. CASE q = r
    BY <2>1 DEF DataInvOf
  <2>2. CASE q # r
    BY <2>2, SameRequest DEF DataInvOf, Alone, DataInv
  <2> QED BY <2>1, <2>2
<1> QED
  BY <1>1 DEF DataInv, DataInvOf

\* The steps that end a request without an answer.
LEMMA EndingSteps ==
    ASSUME DataInv, NEW r \in Request,
           \/ RefuseScope(r) \/ RulesRefused(r) \/ AppendRefused(r) \/ EncoderBroken(r)
           \/ TagsGarbled(r) \/ RefuseEmptyDescription(r) \/ ParseFails(r) \/ RefuseDelta(r)
    PROVE  DataInvOf(r)
<1>1. StagesOnly(r)
  BY DEF RefuseScope, RulesRefused, AppendRefused, EncoderBroken, TagsGarbled,
         RefuseEmptyDescription, ParseFails, RefuseDelta, StagesOnly, Unmoved, Fault, Move,
         dataVars, recordVars, environmentVars, Stage, Ended
<1>2. Shape' /\ Alone(r) /\ Kept(r)
  BY <1>1, StagesOnlyKeep DEF DataInv
<1>3. stage \in [Request -> Stage] /\ DOMAIN faults = Request
  BY DEF DataInv, Shape
<1>4. stage'[r] \in {"refused", "failed", "lost"}
  BY <1>3 DEF RefuseScope, RulesRefused, AppendRefused, EncoderBroken, TagsGarbled,
         RefuseEmptyDescription, ParseFails, RefuseDelta, Move
<1>5. stage'[r] = "failed" /\ Is(r, "candidates") =>
         stage[r] = "received" \/ stage[r] = "computed"
         \/ faults'[r] \cap {"ledger", "encoder", "tags"} # {}
  BY <1>3 DEF RefuseScope, RulesRefused, AppendRefused, EncoderBroken, TagsGarbled,
         RefuseEmptyDescription, ParseFails, RefuseDelta, Move, Fault, Is
<1> QED
  BY <1>2, <1>4, <1>5, RequestEnds DEF DataInv, DataInvOf

\* The steps that bring a request to the model.
LEMMA AskingSteps ==
    ASSUME DataInv, NEW r \in Request, VerifyFromCache(r) \/ AskTags(r) \/ Verify(r)
    PROVE  DataInvOf(r)
<1>1. StagesOnly(r)
  BY DEF VerifyFromCache, AskTags, Verify, StagesOnly, Move, dataVars, recordVars,
         environmentVars, Stage
<1>2. Shape' /\ Alone(r) /\ Kept(r)
  BY <1>1, StagesOnlyKeep DEF DataInv
<1>3. stage \in [Request -> Stage] /\ AskedOf(r) /\ ExplainedOf(r)
  BY DEF DataInv, Shape, RequestInv
<1>4. stage'[r] \in {"verifying", "asking"}
  BY <1>3 DEF VerifyFromCache, AskTags, Verify, Move
<1>5. \/ Is(r, "parse") /\ stage[r] \in {"received", "verifying"}
      \/ Is(r, "candidates") /\ stage[r] \in Writing /\ open[r] # << >>
  BY <1>3 DEF VerifyFromCache, AskTags, Verify, Move, Asks, AskedOf, ExplainedOf, Computed,
         Writing
<1> QED
  BY <1>2, <1>4, <1>5, RequestAsks DEF DataInv, DataInvOf

\* The core runs.
LEMMA ComputeCoreStep ==
    ASSUME DataInv, NEW r \in Request, ComputeCore(r)
    PROVE  DataInvOf(r)
<1>1. /\ Is(r, "candidates") /\ ScopeIsReachable(asks[r]) /\ stage[r] = "received"
      /\ stage' = [stage EXCEPT ![r] = "computed"]
      /\ run' = [run EXCEPT ![r] = Core(asks[r])]
      /\ asks' = asks /\ ledger' = ledger /\ retrieved' = retrieved /\ open' = open
      /\ explained' = explained /\ answer' = answer /\ delta' = delta /\ faults' = faults
  BY DEF ComputeCore, Move, environmentVars, recordVars
<1>2. Shape /\ RequestInv(r)
  BY DEF DataInv
<1>3. Shape' /\ Alone(r)
  <2>1. \A q \in Request : Batches(q)' = Batches(q)
    BY <1>1 DEF Batches
  <2> QED BY <1>1, <1>2, <2>1 DEF Shape, Alone, Same, Stage
<1>4. /\ asks' = asks /\ stage'[r] = "computed" /\ run'[r] = Core(asks[r])
      /\ retrieved'[r] = retrieved[r] /\ open'[r] = open[r] /\ explained'[r] = explained[r]
      /\ answer'[r] = answer[r] /\ delta'[r] = delta[r] /\ faults'[r] = faults[r]
      /\ Batches(r)' = Batches(r)
  BY <1>1, <1>2 DEF Shape, Batches
<1>5. AskedOf(r)'
  BY <1>1, <1>2, <1>4 DEF RequestInv, AskedOf, Is, Computed, Writing
<1>6. RunOf(r)'
  BY <1>1, <1>2, <1>4 DEF RequestInv, RunOf, Is, Computed, Writing
<1>7. RetrievedOf(r)'
  BY <1>1, <1>2, <1>4 DEF RequestInv, RetrievedOf, Is, Writing
<1>8. ExplainedOf(r)'
  <2>1. explained[r] = Nothing /\ DOMAIN Nothing = {}
    BY <1>1, <1>2 DEF RequestInv, ExplainedOf, Nothing
  <2>2. open[r] \in Seq(Capability) /\ \E S : explained[r] \in Seq(S)
    BY <1>2 DEF RequestInv, ExplainedOf
  <2> QED BY <1>4, <2>1, <2>2 DEF ExplainedOf, Is, Writing
<1>9. RecordedOf(r)'
  BY <1>1, <1>2, <1>4 DEF RequestInv, RecordedOf, Is, Writing
<1>10. AnsweredOf(r)'
  BY <1>4 DEF AnsweredOf
<1>11. DeltaOf(r)'
  BY <1>2, <1>4 DEF RequestInv, DeltaOf
<1> QED
  BY <1>3, <1>5, <1>6, <1>7, <1>8, <1>9, <1>10, <1>11 DEF RequestInv, DataInvOf

\* What the core computed is recorded.
LEMMA RecordCoreStep ==
    ASSUME DataInv, NEW r \in Request, RecordCore(r)
    PROVE  DataInvOf(r)
<1>1. /\ stage[r] = "computed"
      /\ stage' = [stage EXCEPT ![r] = "recorded"]
      /\ ledger' = Append(ledger, [by |-> r, entries |-> CoreTrail(run[r])])
      /\ asks' = asks /\ run' = run /\ retrieved' = retrieved /\ open' = open
      /\ explained' = explained /\ answer' = answer /\ delta' = delta /\ faults' = faults
  BY DEF RecordCore, Move, environmentVars, dataVars
<1>2. Shape /\ RequestInv(r)
  BY DEF DataInv
<1>3. /\ \E T : ledger' \in Seq(T)
      /\ Batches(r)' = Batches(r) + 1
      /\ \A q \in Request : q # r => Batches(q)' = Batches(q)
  <2>1. PICK S : ledger \in Seq(S)
    BY <1>2 DEF Shape
  <2> QED BY <1>1, <2>1, OneBatchMore
<1>4. Shape' /\ Alone(r)
  BY <1>1, <1>2, <1>3 DEF Shape, Alone, Same, Stage
<1>5. /\ asks' = asks /\ stage'[r] = "recorded" /\ run'[r] = run[r]
      /\ retrieved'[r] = retrieved[r] /\ open'[r] = open[r] /\ explained'[r] = explained[r]
      /\ answer'[r] = answer[r] /\ delta'[r] = delta[r] /\ faults'[r] = faults[r]
  BY <1>1, <1>2 DEF Shape
<1>6. AskedOf(r)'
  BY <1>1, <1>2, <1>5 DEF RequestInv, AskedOf, Is, Computed, Writing
<1>7. RunOf(r)'
  BY <1>1, <1>2, <1>5 DEF RequestInv, RunOf, Is, Computed, Writing
<1>8. RetrievedOf(r)'
  BY <1>1, <1>2, <1>5 DEF RequestInv, RetrievedOf, Is, Writing
<1>9. ExplainedOf(r)'
  <2>1. explained[r] = Nothing
    BY <1>1, <1>2 DEF RequestInv, ExplainedOf
  <2> QED BY <1>2, <1>5, <2>1 DEF RequestInv, ExplainedOf, Is, Writing
<1>10. RecordedOf(r)'
  BY <1>1, <1>2, <1>3, <1>5 DEF RequestInv, RecordedOf, Is, Writing
<1>11. AnsweredOf(r)'
  BY <1>5 DEF AnsweredOf
<1>12. DeltaOf(r)'
  BY <1>2, <1>5 DEF RequestInv, DeltaOf
<1> QED
  BY <1>4, <1>6, <1>7, <1>8, <1>9, <1>10, <1>11, <1>12 DEF RequestInv, DataInvOf

\* The index widens what the core computed.
LEMMA RetrieveStep ==
    ASSUME DataInv, NEW r \in Request, Retrieve(r)
    PROVE  DataInvOf(r)
<1>1. /\ Is(r, "candidates") /\ stage[r] = "recorded"
      /\ stage' = [stage EXCEPT ![r] = "widened"]
      /\ retrieved' = [retrieved EXCEPT ![r] =
            [i \in DOMAIN run[r] |-> RetrieveZone(asks[r], run[r][i])]]
      /\ asks' = asks /\ ledger' = ledger /\ run' = run /\ open' = open
      /\ explained' = explained /\ answer' = answer /\ delta' = delta /\ faults' = faults
  BY DEF Retrieve, Move, environmentVars, recordVars
<1>2. Shape /\ RequestInv(r)
  BY DEF DataInv
<1>3. Shape' /\ Alone(r)
  <2>1. \A q \in Request : Batches(q)' = Batches(q)
    BY <1>1 DEF Batches
  <2> QED BY <1>1, <1>2, <2>1 DEF Shape, Alone, Same, Stage
<1>4. run[r] = Core(asks[r]) /\ ScopeIsReachable(asks[r])
  BY <1>1, <1>2 DEF RequestInv, RunOf, Computed
<1>5. /\ asks' = asks /\ stage'[r] = "widened" /\ run'[r] = run[r]
      /\ retrieved'[r] = Passed(asks[r]) /\ open'[r] = open[r] /\ explained'[r] = explained[r]
      /\ answer'[r] = answer[r] /\ delta'[r] = delta[r] /\ faults'[r] = faults[r]
      /\ Batches(r)' = Batches(r)
  BY <1>1, <1>2, <1>4 DEF Shape, Batches, Passed
<1>6. AskedOf(r)'
  BY <1>1, <1>2, <1>5 DEF RequestInv, AskedOf, Is, Computed, Writing
<1>7. RunOf(r)'
  BY <1>1, <1>2, <1>5 DEF RequestInv, RunOf, Is, Computed, Writing
<1>8. RetrievedOf(r)'
  BY <1>4, <1>5 DEF RetrievedOf
<1>9. ExplainedOf(r)'
  <2>1. explained[r] = Nothing /\ DOMAIN Nothing = {}
    BY <1>1, <1>2 DEF RequestInv, ExplainedOf, Nothing
  <2>2. open[r] \in Seq(Capability) /\ \E S : explained[r] \in Seq(S)
    BY <1>2 DEF RequestInv, ExplainedOf
  <2> QED BY <1>5, <2>1, <2>2 DEF ExplainedOf, Is, Writing
<1>10. RecordedOf(r)'
  BY <1>1, <1>2, <1>5 DEF RequestInv, RecordedOf, Is, Writing
<1>11. AnsweredOf(r)'
  BY <1>5 DEF AnsweredOf
<1>12. DeltaOf(r)'
  BY <1>2, <1>5 DEF RequestInv, DeltaOf
<1> QED
  BY <1>3, <1>6, <1>7, <1>8, <1>9, <1>10, <1>11, <1>12 DEF RequestInv, DataInvOf

\* What the operator has open is a list of capabilities.
LEMMA ScopeListed ==
    ASSUME NEW ask \in AskedCandidates, ScopeIsReachable(ask)
    PROVE  /\ Ascending(ask.explain.capabilities) \in Seq(Capability)
           /\ ToSet(Ascending(ask.explain.capabilities)) = ask.explain.capabilities
           /\ ask.explain.capabilities # {} => ask.explain.zone \in DOMAIN Core(ask)
<1> DEFINE S == ask.explain.capabilities
<1>1. S \subseteq Capability /\ (S # {} => ask.explain.zone \in DOMAIN ask.zones)
  BY DEF ScopeIsReachable, NoScope
<1> HIDE DEF S
<1>2. IsFiniteSet(S) /\ S \subseteq Int
  <2>1. IsFiniteSet(S)
    BY <1>1, FiniteCatalogAssumption, FS_Subset, Zenon
  <2> QED BY <1>1, <2>1, CapabilityAssumption
<1>3. DOMAIN Core(ask) = DOMAIN ask.zones
  BY CoreOfZone
<1>4. /\ Ascending(S) \in Seq(S) /\ Cardinality(S) \in Nat
      /\ Ascending(S) \in [1..Cardinality(S) -> S]
      /\ \A c \in S : \E i \in 1..Cardinality(S) : Ascending(S)[i] = c
  BY <1>2, AscendingLists
<1>5. Ascending(S) \in Seq(Capability)
  BY <1>1, <1>4, SeqDef
<1>6. ToSet(Ascending(S)) = S
  BY <1>4 DEF ToSet
<1> QED
  BY <1>1, <1>3, <1>5, <1>6 DEF S

\* An element moved from the head of one sequence to the end of another.
LEMMA OneMore ==
    ASSUME NEW A, NEW s \in Seq(A), NEW t \in Seq(A), t # << >>
    PROVE  /\ Head(t) \in ToSet(t)
           /\ Append(s, Head(t)) \o Tail(t) = s \o t
<1> DEFINE h == Head(t)
           x == Tail(t)
           u == Append(s, h)
           m == Len(s)
           n == Len(t)
<1>1. /\ m \in Nat /\ n \in Nat /\ n >= 1 /\ h = t[1] /\ h \in A
      /\ DOMAIN t = 1..n
      /\ x \in Seq(A) /\ Len(x) = n - 1 /\ DOMAIN x = 1..(n - 1)
      /\ \A i \in 1..(n - 1) : x[i] = t[i + 1]
  BY LenProperties, HeadTailProperties, EmptySeq
<1>2. /\ u \in Seq(A) /\ Len(u) = m + 1 /\ DOMAIN u = 1..(m + 1) /\ u[m + 1] = h
      /\ \A i \in 1..m : u[i] = s[i]
  BY <1>1, AppendProperties
<1>3. h \in ToSet(t)
  <2>1. 1 \in DOMAIN t
    BY <1>1
  <2> QED BY <1>1, <2>1 DEF ToSet
<1> HIDE DEF h, x, u, m, n
<1>4. /\ u \o x \in Seq(A) /\ Len(u \o x) = m + n
      /\ \A i \in 1..(m + 1) : (u \o x)[i] = u[i]
      /\ \A i \in (m + 2)..(m + n) : (u \o x)[i] = x[i - (m + 1)] /\ i - (m + 1) \in 1..(n - 1)
  <2>0. u \in Seq(A) /\ x \in Seq(A)
    BY <1>1, <1>2
  <2>1. /\ u \o x \in Seq(A) /\ Len(u \o x) = Len(u) + Len(x)
        /\ \A i \in 1..Len(u) : (u \o x)[i] = u[i]
        /\ \A i \in (Len(u) + 1)..(Len(u) + Len(x)) :
              (u \o x)[i] = x[i - Len(u)] /\ i - Len(u) \in 1..Len(x)
    BY <2>0, OneAfterTheOther
  <2> QED BY <1>1, <1>2, <2>1
<1>5. /\ s \o t \in Seq(A) /\ Len(s \o t) = m + n
      /\ \A i \in 1..m : (s \o t)[i] = s[i]
      /\ \A i \in (m + 1)..(m + n) : (s \o t)[i] = t[i - m] /\ i - m \in 1..n
  BY OneAfterTheOther DEF m, n
<1>6. ASSUME NEW i \in 1..(m + n) PROVE (u \o x)[i] = (s \o t)[i]
  <2>1. CASE i \in 1..m
    BY <1>1, <1>2, <1>4, <1>5, <2>1
  <2>2. CASE i = m + 1
    <3>1. i - m = 1
      BY <1>1, <2>2
    <3> QED BY <1>1, <1>2, <1>4, <1>5, <2>2, <3>1
  <2>3. CASE i \in (m + 2)..(m + n)
    <3>1. (i - (m + 1)) + 1 = i - m /\ i \in (m + 1)..(m + n)
      BY <1>1, <2>3
    <3>2. (s \o t)[i] = t[i - m]
      BY <1>5, <3>1
    <3>3. (u \o x)[i] = x[i - (m + 1)] /\ i - (m + 1) \in 1..(n - 1)
      BY <1>4, <2>3
    <3>4. x[i - (m + 1)] = t[(i - (m + 1)) + 1]
      BY <1>1, <3>3
    <3> QED BY <3>1, <3>2, <3>3, <3>4
  <2>4. m \in Nat /\ n \in Nat
    BY <1>1
  <2>5. i \in 1..m \/ i = m + 1 \/ i \in (m + 2)..(m + n)
    BY <2>4
  <2> QED BY <2>1, <2>2, <2>3, <2>5
<1>7. u \o x = s \o t
  <2>1. \A i \in 1..Len(u \o x) : (u \o x)[i] = (s \o t)[i]
    BY <1>4, <1>6
  <2> QED BY <1>4, <1>5, <2>1, SeqEqual
<1> QED
  BY <1>3, <1>7 DEF h, x, u

\* What the index added is recorded, and the explanations start.
LEMMA RecordRetrievalStep ==
    ASSUME DataInv, NEW r \in Request, RecordRetrieval(r)
    PROVE  DataInvOf(r)
<1>1. /\ stage[r] = "widened"
      /\ stage' = [stage EXCEPT ![r] = "explaining"]
      /\ ledger' = Append(ledger, [by |-> r, entries |-> RetrievalTrail(retrieved[r])])
      /\ open' = [open EXCEPT ![r] = Ascending(asks[r].explain.capabilities)]
      /\ asks' = asks /\ run' = run /\ retrieved' = retrieved
      /\ explained' = explained /\ answer' = answer /\ delta' = delta /\ faults' = faults
  BY DEF RecordRetrieval, Move, environmentVars
<1>2. Shape /\ RequestInv(r)
  BY DEF DataInv
<1>3. /\ \E T : ledger' \in Seq(T)
      /\ Batches(r)' = Batches(r) + 1
      /\ \A q \in Request : q # r => Batches(q)' = Batches(q)
  <2>1. PICK S : ledger \in Seq(S)
    BY <1>2 DEF Shape
  <2> QED BY <1>1, <2>1, OneBatchMore
<1>4. Shape' /\ Alone(r)
  BY <1>1, <1>2, <1>3 DEF Shape, Alone, Same, Stage
<1>5. /\ asks' = asks /\ stage'[r] = "explaining" /\ run'[r] = run[r]
      /\ retrieved'[r] = retrieved[r] /\ open'[r] = Ascending(asks[r].explain.capabilities)
      /\ explained'[r] = explained[r]
      /\ answer'[r] = answer[r] /\ delta'[r] = delta[r] /\ faults'[r] = faults[r]
  BY <1>1, <1>2 DEF Shape
<1>6. Is(r, "candidates") /\ asks[r] \in AskedCandidates /\ ScopeIsReachable(asks[r])
  <2>1. Is(r, "candidates") /\ asks[r] \in Asked
    BY <1>1, <1>2 DEF RequestInv, AskedOf, Computed, Writing
  <2>2. ScopeIsReachable(asks[r])
    BY <1>1, <1>2, <2>1 DEF RequestInv, RunOf, Computed
  <2> QED BY <2>1, <2>2 DEF Asked, AskedDelta, AskedParse, Is
<1>7. AskedOf(r)'
  BY <1>1, <1>2, <1>5 DEF RequestInv, AskedOf, Is, Computed, Writing
<1>8. RunOf(r)'
  BY <1>1, <1>2, <1>5 DEF RequestInv, RunOf, Is, Computed, Writing
<1>9. RetrievedOf(r)'
  BY <1>1, <1>2, <1>5 DEF RequestInv, RetrievedOf, Is, Writing
<1>10. ExplainedOf(r)'
  <2>1. explained[r] = Nothing /\ DOMAIN Nothing = {}
    BY <1>1, <1>2 DEF RequestInv, ExplainedOf, Nothing
  <2>2. open[r] \in Seq(Capability) /\ \E S : explained[r] \in Seq(S)
    BY <1>2 DEF RequestInv, ExplainedOf
  <2>3. CapabilitiesOf(explained[r]) \o Ascending(asks[r].explain.capabilities)
          = Ascending(asks[r].explain.capabilities)
    <3> DEFINE t == Ascending(asks[r].explain.capabilities)
    <3>1. CapabilitiesOf(explained[r]) = << >>
      BY <2>1 DEF CapabilitiesOf
    <3>2. t \in Seq(Capability)
      BY <1>6, ScopeListed
    <3> HIDE DEF t
    <3>3. << >> \o t = t
      BY <3>2, ConcatEmptySeq
    <3> QED BY <3>1, <3>3 DEF t
  <2>4. Ascending(asks[r].explain.capabilities) \in Seq(Capability)
    BY <1>6, ScopeListed
  <2> QED BY <1>5, <2>1, <2>2, <2>3, <2>4 DEF ExplainedOf, Is, Writing
<1>11. RecordedOf(r)'
  BY <1>1, <1>2, <1>3, <1>5 DEF RequestInv, RecordedOf, Is, Writing
<1>12. AnsweredOf(r)'
  BY <1>5 DEF AnsweredOf
<1>13. DeltaOf(r)'
  BY <1>2, <1>5 DEF RequestInv, DeltaOf
<1> QED
  BY <1>4, <1>7, <1>8, <1>9, <1>10, <1>11, <1>12, <1>13 DEF RequestInv, DataInvOf

\* The candidates a list of explanations is about.
ControlsOf(s) == [n \in DOMAIN s |-> s[n].control_id]

\* One explanation more.
LEMMA OneCapabilityMore ==
    ASSUME NEW A, NEW s \in Seq(A), NEW x, NEW K, x.capability \in K,
           \A j \in DOMAIN s : s[j].capability \in K
    PROVE  /\ \E B : Append(s, x) \in Seq(B)
           /\ CapabilitiesOf(s) \in Seq(K)
           /\ CapabilitiesOf(Append(s, x)) = Append(CapabilitiesOf(s), x.capability)
           /\ \A j \in DOMAIN Append(s, x) :
                 Append(s, x)[j] = x \/ (j \in DOMAIN s /\ Append(s, x)[j] = s[j])
<1> DEFINE k == x.capability
           caps == CapabilitiesOf(s)
           n == Len(s)
           C == A \cup {x}
           u == Append(s, x)
<1>1. n \in Nat /\ DOMAIN s = 1..n /\ s \in [1..n -> A]
  BY LenProperties
<1>2. s \in Seq(C) /\ x \in C
  <2>1. s \in [1..n -> C]
    BY <1>1
  <2>2. s \in Seq(C)
    <3> HIDE DEF C
    <3> QED BY <1>1, <2>1, SeqDef
  <2> QED BY <2>2
<1>3. DOMAIN caps = 1..n /\ \A i \in 1..n : caps[i] = s[i].capability
  BY <1>1 DEF CapabilitiesOf
<1>4. k \in K /\ \A i \in 1..n : caps[i] \in K
  BY <1>1, <1>3
<1>5. caps = [i \in 1..n |-> caps[i]]
  BY <1>1 DEF CapabilitiesOf
<1> HIDE DEF k, caps, n, C
<1>6. caps \in [1..n -> K]
  BY <1>4, <1>5
<1>7. caps \in Seq(K) /\ Len(caps) = n
  <2>1. caps \in Seq(K)
    BY <1>1, <1>6, SeqDef
  <2> QED BY <1>1, <1>3, <2>1, LenProperties
<1>8. /\ u \in Seq(C) /\ Len(u) = n + 1 /\ DOMAIN u = 1..(n + 1) /\ u[n + 1] = x
      /\ \A i \in 1..n : u[i] = s[i]
  BY <1>1, <1>2, AppendProperties DEF n
<1> HIDE DEF u
<1>9. CapabilitiesOf(u) = Append(caps, k)
  <2> DEFINE v == Append(caps, k)
             w == CapabilitiesOf(u)
  <2>1. DOMAIN w = 1..(n + 1) /\ w = [i \in 1..(n + 1) |-> u[i].capability]
    BY <1>8 DEF CapabilitiesOf
  <2>2. /\ v \in Seq(K) /\ Len(v) = n + 1 /\ DOMAIN v = 1..(n + 1) /\ v[n + 1] = k
        /\ \A i \in 1..n : v[i] = caps[i]
    BY <1>1, <1>4, <1>7, AppendProperties
  <2> HIDE DEF v, w
  <2>3. ASSUME NEW i \in 1..(n + 1) PROVE v[i] = u[i].capability
    <3>1. CASE i \in 1..n
      BY <1>3, <1>8, <2>2, <3>1
    <3>2. CASE i = n + 1
      BY <1>8, <2>2, <3>2 DEF k
    <3> QED BY <1>1, <3>1, <3>2
  <2>4. v = [i \in 1..(n + 1) |-> v[i]]
    <3>1. v \in [1..(n + 1) -> K]
      BY <2>2, SeqDef, LenProperties
    <3> QED BY <3>1
  <2>5. v = w
    BY <2>1, <2>3, <2>4
  <2> QED BY <2>5 DEF v, w
<1>10. \A j \in DOMAIN u : u[j] = x \/ (j \in DOMAIN s /\ u[j] = s[j])
  BY <1>1, <1>8
<1> QED
  BY <1>7, <1>8, <1>9, <1>10 DEF u, caps, k

\* The next capability is explained.
LEMMA CapabilityExplained ==
    ASSUME DataInv, NEW r \in Request, Is(r, "candidates"), stage[r] \in Writing,
           open[r] # << >>, NEW x, x.capability = Opened(r),
           ControlsOf(x.explanations) = OfferedControlIds(Found(r)),
           stage' = [stage EXCEPT ![r] = "explaining"],
           explained' = [explained EXCEPT ![r] = Append(@, x)],
           open' = [open EXCEPT ![r] = Tail(@)],
           UNCHANGED <<asks, ledger, run, retrieved, answer, delta, faults>>
    PROVE  DataInvOf(r)
<1>1. Shape /\ RequestInv(r)
  BY DEF DataInv
<1>2. Shape' /\ Alone(r)
  <2>1. \A q \in Request : Batches(q)' = Batches(q)
    BY DEF Batches
  <2> QED BY <1>1, <2>1 DEF Shape, Alone, Same, Stage
<1>3. /\ asks' = asks /\ stage'[r] = "explaining" /\ run'[r] = run[r]
      /\ retrieved'[r] = retrieved[r] /\ open'[r] = Tail(open[r])
      /\ explained'[r] = Append(explained[r], x)
      /\ answer'[r] = answer[r] /\ delta'[r] = delta[r] /\ faults'[r] = faults[r]
      /\ Batches(r)' = Batches(r)
  BY <1>1 DEF Shape, Batches
<1>4. /\ ScopeIsReachable(asks[r]) /\ run[r] = Core(asks[r]) /\ retrieved[r] = Passed(asks[r])
      /\ CapabilitiesOf(explained[r]) \o open[r] = Ascending(asks[r].explain.capabilities)
      /\ \A j \in DOMAIN explained[r] : Explains(explained[r][j], asks[r])
      /\ \E S : explained[r] \in Seq(S)
  BY <1>1 DEF RequestInv, RunOf, RetrievedOf, ExplainedOf, Computed
<1>5. asks[r] \in AskedCandidates
  BY <1>1 DEF RequestInv, AskedOf, Asked, AskedDelta, AskedParse, Is
<1> DEFINE e == explained[r]
           o == open[r]
           caps == CapabilitiesOf(e)
           S == asks[r].explain.capabilities
           k == Opened(r)
<1>6. Ascending(S) \in Seq(Capability) /\ ToSet(Ascending(S)) = S
  BY <1>4, <1>5, ScopeListed
<1>7. o \in Seq(Capability) /\ o # << >>
  BY <1>1 DEF RequestInv, ExplainedOf
<1>8. S \subseteq Capability
  <2>1. ToSet(Ascending(S)) \subseteq Capability
    BY <1>6, LenProperties, ElementOfSeq DEF ToSet
  <2> QED BY <1>6, <2>1
<1>9. \A j \in DOMAIN e : e[j].capability \in Capability
  BY <1>4, <1>8 DEF Explains
<1>10. k \in Capability /\ k \in ToSet(o)
  BY <1>7, OneMore, HeadTailProperties DEF Opened
<1>11. /\ \E B : Append(e, x) \in Seq(B)
       /\ caps \in Seq(Capability)
       /\ CapabilitiesOf(Append(e, x)) = Append(caps, k)
       /\ \A j \in DOMAIN Append(e, x) :
             Append(e, x)[j] = x \/ (j \in DOMAIN e /\ Append(e, x)[j] = e[j])
  <2>1. x.capability = k
    OBVIOUS
  <2> HIDE DEF k, e
  <2>2. PICK A : e \in Seq(A)
    BY <1>4 DEF e
  <2> QED BY <1>9, <1>10, <2>1, <2>2, OneCapabilityMore
<1>12. CapabilitiesOf(Append(e, x)) \o Tail(o) = Ascending(S)
  <2>1. Append(caps, Head(o)) \o Tail(o) = caps \o o
    BY <1>7, <1>11, OneMore
  <2> QED BY <1>4, <1>11, <2>1 DEF Opened
<1>13. k \in S
  <2>1. ToSet(caps \o o) = ToSet(caps) \cup ToSet(o)
    BY <1>7, <1>11, OneAfterTheOther
  <2> QED BY <1>4, <1>6, <1>10, <2>1
<1>14. Explains(x, asks[r])
  BY <1>4, <1>13 DEF Explains, ControlsOf, Found, Opened
<1>15. Tail(o) \in Seq(Capability)
  BY <1>7, HeadTailProperties
<1>16. AskedOf(r)'
  BY <1>1, <1>3 DEF RequestInv, AskedOf, Is, Computed, Writing
<1>17. RunOf(r)'
  BY <1>1, <1>3, <1>4 DEF RequestInv, RunOf, Is, Computed, Writing
<1>18. RetrievedOf(r)'
  BY <1>1, <1>3, <1>4 DEF RequestInv, RetrievedOf, Is, Writing
<1>19. ExplainedOf(r)'
  <2>1. \A j \in DOMAIN Append(e, x) : Explains(Append(e, x)[j], asks[r])
    BY <1>4, <1>11, <1>14
  <2>3. CapabilitiesOf(explained[r])' = CapabilitiesOf(Append(e, x))
    BY <1>3 DEF CapabilitiesOf
  <2>4. open'[r] \in Seq(Capability) /\ \E B : explained'[r] \in Seq(B)
    BY <1>3, <1>11, <1>15
  <2>5. /\ Is(r, "candidates")' /\ ScopeIsReachable(asks'[r])
        /\ run'[r] = Core(asks'[r]) /\ retrieved'[r] = Passed(asks'[r])
    BY <1>3, <1>4 DEF Is
  <2>6. (\A j \in DOMAIN explained[r] : Explains(explained[r][j], asks[r]))'
    <3>1. explained'[r] = Append(e, x) /\ asks'[r] = asks[r]
      BY <1>3
    <3>2. \A j \in DOMAIN explained'[r] : Explains(explained'[r][j], asks'[r])
      BY <2>1, <3>1
    <3> QED BY <3>2 DEF Explains
  <2>7. CapabilitiesOf(explained[r])' \o open'[r] = Ascending(asks'[r].explain.capabilities)
    BY <1>3, <1>12, <2>3
  <2>8. /\ stage'[r] \notin {"received", "computed", "recorded", "widened"}
        /\ stage'[r] \notin {"verifying", "asking"}
    BY <1>3
  <2> HIDE DEF e, o, caps, S, k
  <2> QED
    BY <2>4, <2>5, <2>6, <2>7, <2>8 DEF ExplainedOf
<1>20. RecordedOf(r)'
  BY <1>1, <1>3 DEF RequestInv, RecordedOf, Is, Writing
<1>21. AnsweredOf(r)'
  BY <1>3 DEF AnsweredOf
<1>22. DeltaOf(r)'
  BY <1>1, <1>3 DEF RequestInv, DeltaOf
<1> QED
  BY <1>2, <1>16, <1>17, <1>18, <1>19, <1>20, <1>21, <1>22 DEF RequestInv, DataInvOf

\* Where something is open, there is a list of candidates for it.
LEMMA FoundIsFound ==
    ASSUME NEW r \in Request, RequestInv(r), Is(r, "candidates"), stage[r] \in Writing,
           open[r] # << >>
    PROVE  IsFound(Found(r))
<1>1. /\ ScopeIsReachable(asks[r]) /\ retrieved[r] = Passed(asks[r])
      /\ CapabilitiesOf(explained[r]) \o open[r] = Ascending(asks[r].explain.capabilities)
      /\ \A j \in DOMAIN explained[r] : Explains(explained[r][j], asks[r])
      /\ \E S : explained[r] \in Seq(S)
      /\ open[r] \in Seq(Capability)
  BY DEF RequestInv, RunOf, RetrievedOf, ExplainedOf, Computed
<1>2. asks[r] \in AskedCandidates
  BY DEF RequestInv, AskedOf, Asked, AskedDelta, AskedParse, Is
<1> DEFINE e == explained[r]
           o == open[r]
           caps == CapabilitiesOf(e)
           S == asks[r].explain.capabilities
           k == Opened(r)
<1>3. ToSet(Ascending(S)) = S /\ (S # {} => asks[r].explain.zone \in DOMAIN Core(asks[r]))
  BY <1>1, <1>2, ScopeListed
<1>4. k \in Capability /\ k \in ToSet(o)
  BY <1>1, OneMore, HeadTailProperties DEF Opened
<1>5. \E T : o \in Seq(T) /\ caps \in Seq(T)
  <2>1. PICK B : e \in Seq(B)
    BY <1>1
  <2> DEFINE n == Len(e)
             T == Capability \cup {caps[i] : i \in 1..n}
  <2>2. n \in Nat /\ DOMAIN e = 1..n
    BY <2>1, LenProperties
  <2>3. caps \in [1..n -> T]
    BY <2>2 DEF CapabilitiesOf
  <2>4. o \in [1..Len(o) -> T] /\ Len(o) \in Nat
    BY <1>1, LenProperties
  <2> HIDE DEF T, n, caps, o
  <2>5. caps \in Seq(T) /\ o \in Seq(T)
    BY <2>2, <2>3, <2>4, SeqDef
  <2> QED BY <2>5
<1>6. k \in S
  <2>1. ToSet(caps \o o) = ToSet(caps) \cup ToSet(o)
    BY <1>5, OneAfterTheOther
  <2> QED BY <1>1, <1>3, <1>4, <2>1
<1>7. asks[r].explain.zone \in DOMAIN Core(asks[r])
  BY <1>3, <1>6
<1>8. Found(r) = Passed(asks[r])[asks[r].explain.zone][k]
  BY <1>1 DEF Found
<1> HIDE DEF k
<1> QED
  BY <1>2, <1>4, <1>7, <1>8, PassedOfCapability

\* With the text of the engine.
LEMMA FlatControls ==
    ASSUME NEW f, IsFound(f), NEW status
    PROVE  ControlsOf(Flat(f, status)) = OfferedControlIds(f)
<1> DEFINE ids == OfferedControlIds(f)
<1>1. ids \in Seq(Control)
  BY OfferedAre
<1>2. ids = [i \in DOMAIN ids |-> ids[i]]
  <2> HIDE DEF ids
  <2> QED BY <1>1, SeqDef
<1>3. ControlsOf(Flat(f, status)) = [i \in DOMAIN ids |-> ids[i]]
  <2> HIDE DEF ids
  <2>1. Flat(f, status) = [i \in DOMAIN ids |-> [control_id |-> ids[i], status |-> status]]
    BY DEF Flat, Explanation, ids
  <2> QED BY <2>1 DEF ControlsOf
<1> QED
  BY <1>2, <1>3

\* Whatever the model wrote.
LEMMA AssembledControls ==
    ASSUME NEW f, IsFound(f), NEW o, NEW mappings, NEW drafts
    PROVE  ControlsOf(AssembleExplanations(o, mappings, f, drafts)) = OfferedControlIds(f)
<1> DEFINE ids == OfferedControlIds(f)
           assembled == AssembleExplanations(o, mappings, f, drafts)
<1>1. ids \in Seq(Control)
  BY OfferedAre
<1>2. \A c, drafted, allowed : ExplainCandidate(c, drafted, allowed).control_id = c
  BY DEF ExplainCandidate, Explanation
<1> HIDE DEF ids
<1>3. ids = [i \in DOMAIN ids |-> ids[i]]
  BY <1>1, SeqDef
<1>4. assembled = [i \in DOMAIN ids |->
            ExplainCandidate(ids[i], FirstDrafts(drafts, ids[i]),
                             AllowedEvidence(o, mappings, f, ids[i]))]
  BY DEF AssembleExplanations, ids
<1> HIDE DEF assembled
<1>5. DOMAIN assembled = DOMAIN ids /\ \A i \in DOMAIN ids : assembled[i].control_id = ids[i]
  BY <1>2, <1>4
<1>6. ControlsOf(assembled) = ids
  BY <1>3, <1>5 DEF ControlsOf
<1> QED
  BY <1>6 DEF assembled, ids

\* The steps that explain the next capability.
LEMMA ExplainingSteps ==
    ASSUME DataInv, NEW r \in Request,
           \/ VerifyFails(r) /\ ~Is(r, "parse")
           \/ ExplainWithoutModel(r) \/ AgentAnswers(r) \/ AgentFails(r)
    PROVE  DataInvOf(r)
<1>1. Shape /\ RequestInv(r)
  BY DEF DataInv
<1>2. stage[r] \in Writing /\ Is(r, "candidates") /\ open[r] # << >>
  <2>1. stage[r] \in Writing /\ (stage[r] = "explaining" => open[r] # << >>) /\ ~Is(r, "parse")
    <3>1. stage[r] = "explaining" => Is(r, "candidates")
      BY <1>1 DEF RequestInv, AskedOf, Computed, Writing
    <3> QED
      BY <3>1 DEF VerifyFails, ExplainWithoutModel, AgentAnswers, AgentFails, Move, Writing, Is
  <2>2. Is(r, "candidates")
    BY <1>1, <2>1 DEF RequestInv, AskedOf, Computed, Writing
  <2> QED BY <1>1, <2>1, <2>2 DEF RequestInv, ExplainedOf, Writing
<1>3. IsFound(Found(r))
  BY <1>1, <1>2, FoundIsFound
<1>4. /\ stage' = [stage EXCEPT ![r] = "explaining"]
      /\ open' = [open EXCEPT ![r] = Tail(@)]
      /\ UNCHANGED <<asks, ledger, run, retrieved, answer, delta, faults>>
  <2>1. CASE ExplainWithoutModel(r)
    <3>1. stage[r] = "explaining" /\ stage' = stage /\ stage \in [Request -> Stage]
      BY <1>1, <2>1 DEF ExplainWithoutModel, Shape
    <3>2. stage' = [stage EXCEPT ![r] = "explaining"]
      BY <3>1
    <3> QED BY <2>1, <3>2 DEF ExplainWithoutModel, ShowFlat, environmentVars, recordVars
  <2>2. CASE AgentAnswers(r) \/ AgentFails(r)
    BY <2>2 DEF AgentAnswers, AgentFails, Move, ShowFlat, environmentVars, recordVars
  <2>3. CASE VerifyFails(r) /\ ~Is(r, "parse")
    BY <2>3 DEF VerifyFails, ShowFlat, environmentVars, recordVars
  <2> QED BY <2>1, <2>2, <2>3
<1>5. \E x : /\ x.capability = Opened(r)
             /\ ControlsOf(x.explanations) = OfferedControlIds(Found(r))
             /\ explained' = [explained EXCEPT ![r] = Append(@, x)]
  <2>1. CASE AgentAnswers(r)
    <3>1. PICK drafts \in Drafts : explained' = [explained EXCEPT ![r] = Append(@,
              [capability |-> Opened(r),
               explanations |-> AssembleExplanations(OptionsOf(r), asks[r].mappings, Found(r),
                                                     drafts)])]
      BY <2>1 DEF AgentAnswers
    <3> DEFINE text == AssembleExplanations(OptionsOf(r), asks[r].mappings, Found(r), drafts)
               x == [capability |-> Opened(r), explanations |-> text]
    <3>2. ControlsOf(text) = OfferedControlIds(Found(r))
      BY <1>3, AssembledControls
    <3> HIDE DEF text
    <3>3. x.capability = Opened(r) /\ x.explanations = text
      OBVIOUS
    <3>4. explained' = [explained EXCEPT ![r] = Append(@, x)]
      BY <3>1 DEF text
    <3> HIDE DEF x
    <3> QED BY <3>2, <3>3, <3>4
  <2>2. CASE ~AgentAnswers(r)
    <3>1. PICK status : ShowFlat(r, status)
      BY <2>2 DEF VerifyFails, ExplainWithoutModel, AgentFails
    <3> DEFINE text == Flat(Found(r), status)
               x == [capability |-> Opened(r), explanations |-> text]
    <3>2. ControlsOf(text) = OfferedControlIds(Found(r))
      BY <1>3, FlatControls
    <3> HIDE DEF text
    <3>3. x.capability = Opened(r) /\ x.explanations = text
      OBVIOUS
    <3>4. explained' = [explained EXCEPT ![r] = Append(@, x)]
      BY <3>1 DEF text, ShowFlat
    <3> HIDE DEF x
    <3> QED BY <3>2, <3>3, <3>4
  <2> QED BY <2>1, <2>2
<1> QED
  BY <1>2, <1>4, <1>5, CapabilityExplained

\* Every candidate of the catalog is shown, and an empty capability has its gap:
\* the schemas never refuse what is put together.
LEMMA ResponseIsWellFormed ==
    ASSUME NEW ask \in AskedCandidates, NEW found, found = Nothing \/ found = Passed(ask),
           NEW report, NEW events
    PROVE  IsWellFormed(Core(ask), CandidatesResponse(Core(ask), found, report, events))
<1> DEFINE core == Core(ask)
           response == CandidatesResponse(core, found, report, events)
<1>1. SUFFICES ASSUME NEW i \in DOMAIN core, NEW k \in Capability
      PROVE  LET shown == response.zones[i].capabilities[k].offered_control_ids
             IN  /\ DOMAIN core[i].resolved[k] \subseteq ToSet(shown)
                 /\ shown = << >> => response.zones[i].capabilities[k].gap_is_declared
  BY DEF IsWellFormed
<1> DEFINE o == core[i].resolved[k]
           catalog == Presented(o, core[i].zone)
           ids == OfferedIn(core, found, i, k)
<1>2. response.zones[i].capabilities[k] = CapabilityCandidates(core, found, i, k)
  <2> HIDE DEF core
  <2> QED BY DEF CandidatesResponse, ZoneCandidates
<1>3. /\ CapabilityCandidates(core, found, i, k).offered_control_ids = ids
      /\ CapabilityCandidates(core, found, i, k).gap_is_declared
            = (\/ ResolutionGap(o) # NoGap
               \/ GatingGap(core[i].gated[k]) # NoGap
               \/ found # << >> /\ found[i][k].gap # NoGap)
  BY DEF CapabilityCandidates
<1>4. DOMAIN o \subseteq ToSet(ids)
  <2>1. ToSet(catalog) = DOMAIN o
    BY CatalogOfCapability
  <2>2. CASE found = << >>
    BY <2>1, <2>2 DEF OfferedIn
  <2>3. CASE found # << >>
    <3>1. found = Passed(ask) /\ ids = OfferedControlIds(Passed(ask)[i][k])
      BY <2>3 DEF OfferedIn, Nothing
    <3>2. IsFound(Passed(ask)[i][k]) /\ Passed(ask)[i][k].catalog_control_ids = catalog
      BY PassedOfCapability
    <3>3. ToSet(catalog) \subseteq ToSet(ids)
      BY <3>1, <3>2, OfferedAre
    <3> QED BY <2>1, <3>3
  <2> QED BY <2>2, <2>3
<1>5. ids = << >> => ResolutionGap(o) # NoGap
  <2>1. ToSet(<< >>) = {}
    BY DEF ToSet
  <2>2. DOMAIN o = {} => ResolutionGap(o).kind = "no_candidate"
    BY DEF ResolutionGap, DeclaredGap
  <2>3. NoGap.kind = "none"
    BY DEF NoGap, None
  <2> HIDE DEF o, ids
  <2> QED BY <1>4, <2>1, <2>2, <2>3
<1> HIDE DEF o, ids, response
<1> QED
  BY <1>2, <1>3, <1>4, <1>5 DEF o

\* The answer of a candidates request is put together.
LEMMA RespondStep ==
    ASSUME DataInv, NEW r \in Request, NEW from, NEW report, Respond(r, from, report),
           Is(r, "candidates"), from \in {"recorded", "explaining"},
           report.status = "ok" <=> from = "explaining",
           from = "explaining" => open[r] = << >>,
           faults' = faults \/ \E what : faults' = [faults EXCEPT ![r] = @ \cup {what}]
    PROVE  DataInvOf(r)
<1> DEFINE events == FoldLeft(LAMBDA n, b : n + IF b.by = r THEN Len(b.entries) ELSE 0, 0, ledger)
           response == CandidatesResponse(run[r], retrieved[r], report, events)
<1>1. /\ Move(r, from, IF IsWellFormed(run[r], response) THEN "answered" ELSE "failed")
      /\ answer' = [answer EXCEPT ![r] = response]
      /\ asks' = asks /\ ledger' = ledger /\ run' = run /\ retrieved' = retrieved
      /\ open' = open /\ explained' = explained /\ delta' = delta
  BY DEF Respond, environmentVars, recordVars
<1> HIDE DEF events
<1>2. Shape /\ RequestInv(r)
  BY DEF DataInv
<1>3. stage[r] = from
  BY <1>1 DEF Move
<1>4. /\ asks[r] \in AskedCandidates /\ ScopeIsReachable(asks[r]) /\ run[r] = Core(asks[r])
      /\ retrieved[r] = Nothing \/ retrieved[r] = Passed(asks[r])
  <2>1. asks[r] \in AskedCandidates
    BY <1>2 DEF RequestInv, AskedOf, Asked, AskedDelta, AskedParse, Is
  <2>2. ScopeIsReachable(asks[r]) /\ run[r] = Core(asks[r])
    BY <1>2, <1>3 DEF RequestInv, RunOf, Computed, Writing
  <2>3. retrieved[r] = Nothing \/ retrieved[r] = Passed(asks[r])
    BY <1>2 DEF RequestInv, RetrievedOf
  <2> QED BY <2>1, <2>2, <2>3
<1>5. IsWellFormed(run[r], response)
  BY <1>4, ResponseIsWellFormed
<1>6. response = CandidatesResponse(run[r], retrieved[r], report, events)
  OBVIOUS
<1> HIDE DEF response
<1>7. stage' = [stage EXCEPT ![r] = "answered"]
  BY <1>1, <1>5 DEF Move
<1>8. Shape' /\ Alone(r)
  <2>1. \A q \in Request : Batches(q)' = Batches(q)
    BY <1>1 DEF Batches
  <2>2. DOMAIN faults' = Request /\ \A q \in Request : q # r => faults'[q] = faults[q]
    BY <1>2 DEF Shape
  <2> QED BY <1>1, <1>2, <1>7, <2>1, <2>2 DEF Shape, Alone, Same, Stage, Ended
<1>9. /\ asks' = asks /\ stage'[r] = "answered" /\ run'[r] = run[r]
      /\ retrieved'[r] = retrieved[r] /\ open'[r] = open[r] /\ explained'[r] = explained[r]
      /\ answer'[r] = response /\ delta'[r] = delta[r] /\ Batches(r)' = Batches(r)
  BY <1>1, <1>2, <1>7 DEF Shape, Batches
<1>10. AskedOf(r)'
  BY <1>2, <1>9 DEF RequestInv, AskedOf, Is, Computed, Writing
<1>11. RunOf(r)'
  BY <1>2, <1>9 DEF RequestInv, RunOf, Is, Computed, Writing
<1>12. RetrievedOf(r)'
  BY <1>2, <1>9 DEF RequestInv, RetrievedOf, Is, Writing
<1>13. ExplainedOf(r)'
  BY <1>2, <1>9 DEF RequestInv, ExplainedOf, Is, Writing
<1>14. RecordedOf(r)'
  BY <1>9 DEF RecordedOf, Writing
<1>15. AnsweredOf(r)'
  <2>1. report.status = "ok" =>
           /\ Batches(r) = 2
           /\ CapabilitiesOf(explained[r]) = Ascending(asks[r].explain.capabilities)
    <3>1. SUFFICES ASSUME from = "explaining"
                   PROVE  /\ Batches(r) = 2
                          /\ CapabilitiesOf(explained[r]) = Ascending(asks[r].explain.capabilities)
      OBVIOUS
    <3>2. Batches(r) = 2
      BY <1>2, <1>3, <3>1 DEF RequestInv, RecordedOf, Writing
    <3>3. CapabilitiesOf(explained[r]) \o << >> = Ascending(asks[r].explain.capabilities)
      BY <1>2, <1>3, <3>1 DEF RequestInv, ExplainedOf, Writing
    <3> DEFINE caps == CapabilitiesOf(explained[r])
    <3>4. \E T : caps \in Seq(T)
      <4>1. PICK S : explained[r] \in Seq(S)
        BY <1>2 DEF RequestInv, ExplainedOf
      <4> DEFINE n == Len(explained[r])
                 T == {caps[i] : i \in 1..n}
      <4>2. n \in Nat /\ DOMAIN explained[r] = 1..n
        BY <4>1, LenProperties
      <4>3. caps \in [1..n -> T]
        BY <4>2 DEF CapabilitiesOf
      <4> HIDE DEF T, n, caps
      <4>4. caps \in Seq(T)
        BY <4>2, <4>3, SeqDef
      <4> QED BY <4>4
    <3> HIDE DEF caps
    <3>5. caps \o << >> = caps
      BY <3>4, ConcatEmptySeq
    <3> QED BY <3>2, <3>3, <3>5 DEF caps
  <2>2. report.status # "ok" => Batches(r) = 1
    BY <1>2, <1>3 DEF RequestInv, RecordedOf
  <2>3. CapabilitiesOf(explained[r])' = CapabilitiesOf(explained[r])
    BY <1>9 DEF CapabilitiesOf
  <2>4. answer'[r] = CandidatesResponse(run'[r], retrieved'[r], report, events)
    BY <1>6, <1>9
  <2>5. /\ report.status = "ok" =>
              /\ Batches(r)' = 2
              /\ CapabilitiesOf(explained[r])' = Ascending(asks'[r].explain.capabilities)
        /\ report.status # "ok" => Batches(r)' = 1
    BY <1>9, <2>1, <2>2, <2>3
  <2>6. run'[r] = Core(asks'[r]) /\ (retrieved'[r] = Nothing \/ retrieved'[r] = Passed(asks'[r]))
    BY <1>4, <1>9
  <2> QED BY <2>4, <2>5, <2>6 DEF AnsweredOf
<1>16. DeltaOf(r)'
  BY <1>2, <1>9 DEF RequestInv, DeltaOf
<1> QED
  BY <1>8, <1>10, <1>11, <1>12, <1>13, <1>14, <1>15, <1>16 DEF RequestInv, DataInvOf

\* The steps that answer a candidates request.
LEMMA RespondingSteps ==
    ASSUME DataInv, NEW r \in Request,
           SkipRetrieval(r) \/ IndexUnavailable(r) \/ AnswerCandidates(r)
    PROVE  DataInvOf(r)
<1>1. CASE SkipRetrieval(r)
  <2>1. NotRun("disabled").status # "ok"
    BY DEF NotRun
  <2> QED BY <1>1, <2>1, RespondStep DEF SkipRetrieval
<1>2. CASE IndexUnavailable(r)
  <2>1. NotRun("unavailable").status # "ok"
    BY DEF NotRun
  <2>2. \E what : faults' = [faults EXCEPT ![r] = @ \cup {what}]
    BY <1>2 DEF IndexUnavailable, Fault
  <2> QED BY <1>2, <2>1, <2>2, RespondStep DEF IndexUnavailable
<1>3. CASE AnswerCandidates(r)
  <2> DEFINE report == RetrievalReport(retrieved[r])
  <2>1. report.status = "ok"
    BY DEF RetrievalReport
  <2>2. Respond(r, "explaining", report) /\ open[r] = << >> /\ faults' = faults
    BY <1>3 DEF AnswerCandidates
  <2> HIDE DEF report
  <2>3. stage[r] = "explaining"
    BY <2>2 DEF Respond, Move
  <2>4. Is(r, "candidates")
    BY <2>3 DEF DataInv, RequestInv, AskedOf, Computed, Writing
  <2> QED BY <2>1, <2>2, <2>4, RespondStep
<1> QED
  BY <1>1, <1>2, <1>3

\* A parse ends.
LEMMA ParseEnds ==
    ASSUME DataInv, NEW r \in Request, AnswerParse(r) \/ (VerifyFails(r) /\ Is(r, "parse"))
    PROVE  DataInvOf(r)
<1>1. StagesOnly(r)
  BY DEF AnswerParse, VerifyFails, StagesOnly, Move, dataVars, recordVars, environmentVars,
         Stage, Ended
<1>2. Shape' /\ Alone(r) /\ Kept(r)
  BY <1>1, StagesOnlyKeep DEF DataInv
<1>3. stage \in [Request -> Stage]
  BY DEF DataInv, Shape
<1>4. Is(r, "parse") /\ stage'[r] \in {"answered", "failed"}
  BY <1>3 DEF AnswerParse, VerifyFails, Move
<1>5. ~Is(r, "candidates") /\ ~Is(r, "candidates")'
  BY <1>2, <1>4 DEF Is, Kept
<1>6. RequestInv(r)
  BY DEF DataInv
<1>7. AskedOf(r)'
  BY <1>2, <1>4, <1>6 DEF RequestInv, Kept, AskedOf, Computed, Writing
<1>8. RunOf(r)' /\ RetrievedOf(r)'
  BY <1>2, <1>5, <1>6 DEF RequestInv, Kept, RunOf, RetrievedOf, Is
<1>9. ExplainedOf(r)'
  BY <1>2, <1>4, <1>5, <1>6 DEF RequestInv, Kept, ExplainedOf, Is
<1>10. RecordedOf(r)' /\ AnsweredOf(r)'
  BY <1>5 DEF RecordedOf, AnsweredOf
<1>11. DeltaOf(r)'
  BY <1>2, <1>6 DEF RequestInv, Kept, DeltaOf
<1> QED
  BY <1>2, <1>7, <1>8, <1>9, <1>10, <1>11 DEF RequestInv, DataInvOf

\* A delta is answered.
LEMMA AnswerDeltaStep ==
    ASSUME DataInv, NEW r \in Request, AnswerDelta(r)
    PROVE  DataInvOf(r)
<1>1. /\ Is(r, "delta") /\ AcceptedRegions(asks[r].regions)
      /\ asks[r].zone \in DOMAIN asks[r].zones
      /\ stage' = [stage EXCEPT ![r] = "answered"]
      /\ delta' = [delta EXCEPT ![r] = RegionalDelta(DeltaQuery(asks[r]))]
      /\ asks' = asks /\ ledger' = ledger /\ run' = run /\ retrieved' = retrieved /\ open' = open
      /\ explained' = explained /\ answer' = answer /\ faults' = faults
  BY DEF AnswerDelta, Move, environmentVars, recordVars
<1>2. Shape /\ RequestInv(r)
  BY DEF DataInv
<1>3. Shape' /\ Alone(r)
  <2>1. \A q \in Request : Batches(q)' = Batches(q)
    BY <1>1 DEF Batches
  <2> QED BY <1>1, <1>2, <2>1 DEF Shape, Alone, Same, Stage, Ended
<1>4. /\ asks' = asks /\ stage'[r] = "answered" /\ run'[r] = run[r]
      /\ retrieved'[r] = retrieved[r] /\ open'[r] = open[r] /\ explained'[r] = explained[r]
      /\ delta'[r] = RegionalDelta(DeltaQuery(asks[r]))
  BY <1>1, <1>2 DEF Shape
<1>5. ~Is(r, "candidates") /\ ~Is(r, "candidates")'
  BY <1>1 DEF Is
<1>6. AskedOf(r)'
  BY <1>2, <1>4 DEF RequestInv, AskedOf, Computed, Writing
<1>7. RunOf(r)' /\ RetrievedOf(r)'
  BY <1>2, <1>4, <1>5 DEF RequestInv, RunOf, RetrievedOf, Is
<1>8. ExplainedOf(r)'
  BY <1>2, <1>4, <1>5 DEF RequestInv, ExplainedOf, Is
<1>9. RecordedOf(r)' /\ AnsweredOf(r)'
  BY <1>5 DEF RecordedOf, AnsweredOf
<1>10. asks[r] \in AskedDelta
  BY <1>1, <1>2 DEF RequestInv, AskedOf, Asked, AskedCandidates, AskedParse, Is
<1>11. DeltaOf(r)'
  BY <1>1, <1>4, <1>10 DEF DeltaOf
<1> QED
  BY <1>3, <1>6, <1>7, <1>8, <1>9, <1>11 DEF RequestInv, DataInvOf

\* A step of a request.
LEMMA DataRequestStep ==
    ASSUME DataInv, NEW r \in Request, Step(r)
    PROVE  DataInv'
<1>1. CASE \/ RefuseScope(r) \/ RulesRefused(r) \/ AppendRefused(r) \/ EncoderBroken(r)
           \/ TagsGarbled(r) \/ RefuseEmptyDescription(r) \/ ParseFails(r) \/ RefuseDelta(r)
  BY <1>1, EndingSteps, OneRequestMoved
<1>2. CASE VerifyFromCache(r) \/ AskTags(r) \/ Verify(r)
  BY <1>2, AskingSteps, OneRequestMoved
<1>3. CASE ComputeCore(r) \/ RecordCore(r) \/ Retrieve(r) \/ RecordRetrieval(r)
  BY <1>3, ComputeCoreStep, RecordCoreStep, RetrieveStep, RecordRetrievalStep, OneRequestMoved
<1>4. CASE VerifyFails(r) \/ ExplainWithoutModel(r) \/ AgentAnswers(r) \/ AgentFails(r)
  BY <1>4, ExplainingSteps, ParseEnds, OneRequestMoved
<1>5. CASE SkipRetrieval(r) \/ IndexUnavailable(r) \/ AnswerCandidates(r)
  BY <1>5, RespondingSteps, OneRequestMoved
<1>6. CASE AnswerParse(r)
  BY <1>6, ParseEnds, OneRequestMoved
<1>7. CASE AnswerDelta(r)
  BY <1>7, AnswerDeltaStep, OneRequestMoved
<1> QED
  BY <1>1, <1>2, <1>3, <1>4, <1>5, <1>6, <1>7 DEF Step

\* Weights are pulled, the process verifies as it starts, or it dies.
LEMMA DataEnvironmentStep ==
    ASSUME DataInv, PullWeights \/ WarmUp \/ Restart \/ Rest \/ UNCHANGED vars
    PROVE  DataInv'
<1>1. /\ asks' = asks /\ run' = run /\ retrieved' = retrieved /\ open' = open
      /\ explained' = explained /\ answer' = answer /\ delta' = delta /\ ledger' = ledger
      /\ faults' = faults
      /\ \A r \in Request : stage'[r] = stage[r] \/ stage'[r] = "lost"
      /\ stage' \in [Request -> Stage]
  <2>1. stage \in [Request -> Stage]
    BY DEF DataInv, Shape
  <2>2. CASE Restart
    BY <2>1, <2>2 DEF Restart, recordVars, dataVars, Stage, Ended
  <2>3. CASE PullWeights \/ WarmUp \/ Rest \/ UNCHANGED vars
    BY <2>1, <2>3 DEF PullWeights, WarmUp, Rest, vars, requestVars, recordVars, dataVars,
                      environmentVars
  <2> QED BY <2>2, <2>3
<1>2. Shape'
  BY <1>1 DEF DataInv, Shape
<1>3. ASSUME NEW r \in Request PROVE RequestInv(r)'
  <2>1. Batches(r)' = Batches(r)
    BY <1>1 DEF Batches
  <2>2. RequestInv(r)
    BY DEF DataInv
  <2>3. CASE stage'[r] = stage[r]
    BY <1>1, <2>1, <2>2, <2>3, SameRequest DEF Same
  <2>4. CASE stage'[r] = "lost"
    BY <1>1, <2>1, <2>2, <2>4, RequestEnds DEF Kept
  <2> QED BY <1>1, <2>3, <2>4
<1> QED
  BY <1>2, <1>3 DEF DataInv

\* No request has anything yet.
LEMMA DataInitially ==
    ASSUME Init
    PROVE  DataInv
<1>1. /\ asks \in [Request -> Asked]
      /\ stage = [r \in Request |-> IF asks[r].kind = "none" THEN "idle" ELSE "received"]
      /\ run = [r \in Request |-> Nothing] /\ retrieved = [r \in Request |-> Nothing]
      /\ open = [r \in Request |-> Nothing] /\ explained = [r \in Request |-> Nothing]
      /\ answer = [r \in Request |-> Nothing] /\ delta = [r \in Request |-> Nothing]
      /\ faults = [r \in Request |-> {}] /\ ledger = << >>
  BY LoadsAssumption DEF Init
<1>2. Shape
  <2>1. ledger \in Seq(Request)
    BY <1>1, EmptySeq
  <2> QED BY <1>1, <2>1 DEF Shape, Stage, Ended
<1>3. ASSUME NEW r \in Request PROVE RequestInv(r)
  <2>1. /\ asks[r] \in Asked /\ stage[r] \in {"idle", "received"} /\ run[r] = Nothing
        /\ retrieved[r] = Nothing /\ open[r] = Nothing /\ explained[r] = Nothing
        /\ delta[r] = Nothing
    BY <1>1
  <2>2. DOMAIN Nothing = {} /\ Nothing \in Seq(Capability)
    BY EmptySeq DEF Nothing
  <2>3. Batches(r) = 0
    <3>1. {b \in DOMAIN ledger : ledger[b].by = r} = {}
      BY <1>1
    <3> QED BY <3>1, FS_EmptySet DEF Batches
  <2>4. AskedOf(r)
    BY <2>1 DEF AskedOf, Computed, Writing
  <2>5. RunOf(r) /\ RetrievedOf(r)
    BY <2>1 DEF RunOf, RetrievedOf, Computed, Writing
  <2>6. ExplainedOf(r)
    BY <2>1, <2>2 DEF ExplainedOf, Writing
  <2>7. RecordedOf(r) /\ AnsweredOf(r) /\ DeltaOf(r)
    BY <2>1, <2>3 DEF RecordedOf, AnsweredOf, DeltaOf, Writing
  <2> QED BY <2>4, <2>5, <2>6, <2>7 DEF RequestInv
<1> QED
  BY <1>2, <1>3 DEF DataInv

\* Any step.
LEMMA DataStep ==
    ASSUME DataInv, [Next]_vars
    PROVE  DataInv'
BY DataRequestStep, DataEnvironmentStep DEF Next

\* What a request holds at each await is what the passes make of what it asked for:
\* nothing else writes it (candidates/service.py, delta/service.py).
THEOREM DataIsDerived == Spec => []DataInv
BY DataInitially, DataStep, PTL DEF Spec

(***************************************************************************)
(* What the invariant gives                                                *)
(***************************************************************************)
\* What the invariant says of explanations.
LEMMA ExplainedInTheState ==
    ASSUME DataInv
    PROVE  ExplainedAsOffered
<1> SUFFICES ASSUME NEW r \in Request, NEW j \in DOMAIN explained[r]
             PROVE  LET i == asks[r].explain.zone
                        k == explained[r][j].capability
                        shown == explained[r][j].explanations
                        catalog == Presented(run[r][i].resolved[k], run[r][i].zone)
                        controls == [n \in DOMAIN shown |-> shown[n].control_id]
                    IN  /\ IsPrefix(catalog, controls)
                        /\ IsInjective(controls)
                        /\ ToSet(controls) = DOMAIN run[r][i].resolved[k] \cup
                                     {h.control : h \in ToSet(retrieved[r][i][k].retrieved)}
  BY DEF ExplainedAsOffered
<1> DEFINE i == asks[r].explain.zone
           k == explained[r][j].capability
           shown == explained[r][j].explanations
           controls == [n \in DOMAIN shown |-> shown[n].control_id]
           f == Passed(asks[r])[i][k]
<1>1. RequestInv(r)
  BY DEF DataInv
<1>2. explained[r] # Nothing
  BY DEF Nothing
<1>3. /\ Is(r, "candidates") /\ ScopeIsReachable(asks[r])
      /\ run[r] = Core(asks[r]) /\ retrieved[r] = Passed(asks[r])
      /\ k \in asks[r].explain.capabilities
      /\ controls = OfferedControlIds(f)
  BY <1>1, <1>2 DEF RequestInv, ExplainedOf, Explains
<1>4. asks[r] \in AskedCandidates
  BY <1>1, <1>3 DEF RequestInv, AskedOf, Asked, AskedDelta, AskedParse, Is
<1>5. i \in DOMAIN Core(asks[r]) /\ k \in Capability
  <2>1. asks[r].explain.capabilities \subseteq Capability
    <3>1. NoScope.capabilities = {}
      BY DEF NoScope
    <3> QED BY <1>3, <3>1 DEF ScopeIsReachable
  <2>2. asks[r].explain.capabilities # {}
    BY <1>3
  <2> QED BY <1>3, <1>4, <2>1, <2>2, ScopeListed
<1> DEFINE catalog == Presented(Core(asks[r])[i].resolved[k], Core(asks[r])[i].zone)
<1>6. IsFound(f) /\ f.catalog_control_ids = catalog
  <2> HIDE DEF i, k
  <2> QED BY <1>4, <1>5, PassedOfCapability
<1>7. ToSet(catalog) = DOMAIN Core(asks[r])[i].resolved[k]
  <2> HIDE DEF i, k
  <2> QED BY <1>4, <1>5, CatalogOfCapability
<1> HIDE DEF f, controls, catalog, shown, i, k
<1>8. /\ IsPrefix(catalog, controls)
      /\ IsInjective(controls)
      /\ ToSet(controls) = ToSet(catalog) \cup {h.control : h \in ToSet(f.retrieved)}
  BY <1>3, <1>6, OfferedAre
<1> QED
  BY <1>3, <1>7, <1>8 DEF f, controls, catalog, shown, i, k

\* Whatever the model answered, the explanations of a capability are its candidates,
\* all of them once, those of the catalog first (explain/service.py).
THEOREM ExplanationsAreOfWhatIsOffered == Spec => []ExplainedAsOffered
BY DataInitially, DataStep, ExplainedInTheState, PTL DEF Spec

\* What it says of answers.
LEMMA OptionalInTheState ==
    ASSUME DataInv
    PROVE  OptionalPassesCostNothing
<1> SUFFICES ASSUME NEW r \in Request, Is(r, "candidates")
             PROVE  /\ stage[r] = "failed" /\ Batches(r) > 0 =>
                          faults[r] \cap {"ledger", "encoder", "tags"} # {}
                    /\ stage[r] = "answered" =>
                          /\ Batches(r) = IF answer[r].retrieval.status = "ok" THEN 2 ELSE 1
                          /\ \A i \in DOMAIN run[r] : \A k \in Capability :
                                LET shown == answer[r].zones[i].capabilities[k].offered_control_ids
                                IN  /\ IsPrefix(Presented(run[r][i].resolved[k], run[r][i].zone), shown)
                                    /\ IsInjective(shown)
                          /\ answer[r].retrieval.status = "ok" =>
                                CapabilitiesOf(explained[r]) = Ascending(asks[r].explain.capabilities)
  BY DEF OptionalPassesCostNothing, Batches, CapabilitiesOf, Is
<1>1. RequestInv(r)
  BY DEF DataInv
<1>2. stage[r] = "failed" /\ Batches(r) > 0 => faults[r] \cap {"ledger", "encoder", "tags"} # {}
  BY <1>1 DEF RequestInv, RecordedOf
<1>3. asks[r] \in AskedCandidates
  BY <1>1 DEF RequestInv, AskedOf, Asked, AskedDelta, AskedParse, Is
<1>4. ASSUME stage[r] = "answered"
      PROVE  /\ Batches(r) = IF answer[r].retrieval.status = "ok" THEN 2 ELSE 1
             /\ \A i \in DOMAIN run[r] : \A k \in Capability :
                   LET shown == answer[r].zones[i].capabilities[k].offered_control_ids
                   IN  /\ IsPrefix(Presented(run[r][i].resolved[k], run[r][i].zone), shown)
                       /\ IsInjective(shown)
             /\ answer[r].retrieval.status = "ok" =>
                   CapabilitiesOf(explained[r]) = Ascending(asks[r].explain.capabilities)
  <2>1. run[r] = Core(asks[r]) /\ (retrieved[r] = Nothing \/ retrieved[r] = Passed(asks[r]))
    BY <1>1, <1>4 DEF RequestInv, AnsweredOf
  <2>2. PICK report, events :
              /\ answer[r] = CandidatesResponse(run[r], retrieved[r], report, events)
              /\ report.status = "ok" =>
                    /\ Batches(r) = 2
                    /\ CapabilitiesOf(explained[r]) = Ascending(asks[r].explain.capabilities)
              /\ report.status # "ok" => Batches(r) = 1
    BY <1>1, <1>4 DEF RequestInv, AnsweredOf
  <2>3. answer[r].retrieval = report
    BY <2>2 DEF CandidatesResponse
  <2>4. ASSUME NEW i \in DOMAIN run[r], NEW k \in Capability
        PROVE  LET shown == answer[r].zones[i].capabilities[k].offered_control_ids
               IN  /\ IsPrefix(Presented(run[r][i].resolved[k], run[r][i].zone), shown)
                   /\ IsInjective(shown)
    <3> DEFINE ask == asks[r]
               catalog == Presented(Core(ask)[i].resolved[k], Core(ask)[i].zone)
               shown == answer[r].zones[i].capabilities[k].offered_control_ids
    <3>1. shown = OfferedIn(run[r], retrieved[r], i, k)
      <4>1. answer[r].zones = [z \in DOMAIN run[r] |-> ZoneCandidates(run[r], retrieved[r], z)]
        <5>1. answer[r] = CandidatesResponse(run[r], retrieved[r], report, events)
          BY <2>2
        <5>2. CandidatesResponse(run[r], retrieved[r], report, events).zones
                = [z \in DOMAIN run[r] |-> ZoneCandidates(run[r], retrieved[r], z)]
          BY DEF CandidatesResponse
        <5> QED BY <5>1, <5>2
      <4>2. answer[r].zones[i] = ZoneCandidates(run[r], retrieved[r], i)
        BY <4>1
      <4>3. answer[r].zones[i].capabilities[k] = CapabilityCandidates(run[r], retrieved[r], i, k)
        BY <4>2 DEF ZoneCandidates
      <4> QED BY <4>3 DEF CapabilityCandidates
    <3>2. catalog \in Seq(Control) /\ IsInjective(catalog)
      BY <1>3, <2>1, CatalogOfCapability
    <3>3. CASE retrieved[r] = << >>
      <4>1. shown = catalog
        BY <2>1, <3>1, <3>3 DEF OfferedIn
      <4>2. IsPrefix(catalog, catalog)
        <5> HIDE DEF catalog
        <5>1. Len(catalog) \in Nat
          BY <3>2, LenProperties
        <5> QED BY <5>1 DEF IsPrefix
      <4> HIDE DEF shown
      <4> QED BY <2>1, <3>2, <4>1, <4>2 DEF shown
    <3>4. CASE retrieved[r] # << >>
      <4> DEFINE f == Passed(ask)[i][k]
      <4>1. shown = OfferedControlIds(f)
        BY <2>1, <3>1, <3>4 DEF OfferedIn, Nothing
      <4>2. IsFound(f) /\ f.catalog_control_ids = catalog
        BY <1>3, <2>1, PassedOfCapability
      <4> HIDE DEF f, shown, catalog
      <4>3. IsPrefix(catalog, shown) /\ IsInjective(shown)
        BY <4>1, <4>2, OfferedAre
      <4> QED BY <2>1, <4>3 DEF shown, catalog
    <3> QED BY <3>3, <3>4
  <2> QED BY <2>2, <2>3, <2>4
<1> QED
  BY <1>2, <1>4

\* Without the retrieval, or with it broken, a recorded run is answered with every
\* candidate of the catalog first, and one that fails has something to show for it
\* that nothing catches (candidates/service.py).
THEOREM OptionalPassesAreOptional == Spec => []OptionalPassesCostNothing
BY DataInitially, DataStep, OptionalInTheState, PTL DEF Spec

-----------------------------------------------------------------------------
\* The question an answered delta is about.
LEMMA DeltaAnswered ==
    ASSUME DataInv, NEW r \in Request, delta[r] # Nothing
    PROVE  /\ IsQuery(DeltaQuery(asks[r]))
           /\ \A k \in Capability :
                 delta[r].capabilities[k] = CapabilityDelta(DeltaQuery(asks[r]), k)
           /\ DeltaQuery(asks[r]).mode = asks[r].mode
<1> DEFINE ask == asks[r]
           q == DeltaQuery(ask)
<1>1. /\ ask \in AskedDelta /\ AcceptedRegions(ask.regions) /\ ask.zone \in DOMAIN ask.zones
      /\ delta[r] = RegionalDelta(q)
  BY DEF DataInv, RequestInv, DeltaOf
<1>2. /\ q.regions = ask.regions /\ q.mode = ask.mode /\ q.mappings = ask.mappings
      /\ q.contradictions = ask.contradictions
      /\ q.zone = ZoneContext(ask.zones[ask.zone], ask.profile)
  BY DEF DeltaQuery
<1>3. /\ ask.regions \in Seq(Jurisdiction) /\ ask.mode \in DeltaMode
      /\ ask.mappings \in SUBSET Mapping /\ ask.contradictions \in Seq(Contradiction)
      /\ ask.zones \in Seq(Zone) /\ ask.profile \in Profile
  BY <1>1 DEF AskedDelta
<1> HIDE DEF q, ask
<1>4. q.zone \in ZoneContextType
  <2>1. ask.zones[ask.zone] \in Zone
    BY <1>1, <1>3, LenProperties, ElementOfSeq
  <2> QED BY <1>2, <1>3, <2>1, ZoneOfContext
<1>5. IsQuery(q)
  BY <1>1, <1>2, <1>3, <1>4 DEF IsQuery
<1>6. \A k \in Capability : delta[r].capabilities[k] = CapabilityDelta(q, k)
  BY <1>1 DEF RegionalDelta
<1> QED
  BY <1>2, <1>5, <1>6 DEF q, ask

\* What it says of deltas.
LEMMA ReadingsInTheState ==
    ASSUME DataInv
    PROVE  ReadingsAddUp
<1> SUFFICES ASSUME NEW r \in Request, NEW k \in Capability, delta[r] # Nothing
             PROVE  LET query == DeltaQuery(asks[r])
                        d == delta[r].capabilities[k]
                        governing == Governing(query, k)
                        offered(i) == d.views[i].offered
                        added == {a.control : a \in d.added}
                    IN  /\ UNION {offered(i) : i \in DOMAIN d.views} = governing
                        /\ \A i \in DOMAIN d.views : d.views[i].set_aside = governing \ offered(i)
                        /\ Cardinality(added) = Cardinality(d.added)
                        /\ IF query.mode = "cumulative"
                           THEN /\ offered(Len(d.views)) = offered(1) \cup added
                                /\ offered(1) \cap added = {}
                           ELSE governing = d.common \cup added /\ d.common \cap added = {}
  BY DEF ReadingsAddUp, Governing
<1> DEFINE q == DeltaQuery(asks[r])
<1>1. IsQuery(q) /\ delta[r].capabilities[k] = CapabilityDelta(q, k)
  BY DeltaAnswered
<1> HIDE DEF q
<1>2. LET d == CapabilityDelta(q, k)
          governing == Governing(q, k)
          offered(i) == d.views[i].offered
          added == {a.control : a \in d.added}
      IN  /\ UNION {offered(i) : i \in DOMAIN d.views} = governing
          /\ \A i \in DOMAIN d.views : d.views[i].set_aside = governing \ offered(i)
          /\ Cardinality(added) = Cardinality(d.added)
          /\ IF q.mode = "cumulative"
             THEN /\ offered(Len(d.views)) = offered(1) \cup added
                  /\ offered(1) \cap added = {}
             ELSE governing = d.common \cup added /\ d.common \cap added = {}
  BY <1>1, AddUp
<1> QED
  BY <1>1, <1>2 DEF q

\* Nothing that governs the zone is missing from the readings of a regional delta,
\* and the additions account for them, each once (delta/service.py).
THEOREM ReadingsOfADeltaAddUp == Spec => []ReadingsAddUp
BY DataInitially, DataStep, ReadingsInTheState, PTL DEF Spec

\* What it says of their coverage.
LEMMA CoverageInTheState ==
    ASSUME DataInv
    PROVE  CoverageMovesByMechanismOrContradiction
<1> SUFFICES ASSUME NEW r \in Request, NEW k \in Capability, delta[r] # Nothing,
                    asks[r].mode = "cumulative"
             PROVE  LET query == DeltaQuery(asks[r])
                        views == delta[r].capabilities[k].views
                        brings(i) == {a \in delta[r].capabilities[k].added :
                                        a.added_by = query.regions[i]}
                        contradicted(i) == \E rule \in ToSet(query.contradictions) :
                            /\ AppliesTo(rule, k, query.zone)
                            /\ Cardinality(rule.control_ids \cap views[i].offered) >= 2
                            /\ \E a \in brings(i) : a.control \in rule.control_ids
                    IN  \A i \in 2..Len(views) :
                          /\ views[i].coverage > views[i - 1].coverage =>
                                contradicted(i) \/ \E a \in brings(i) : a.changes_coverage
                          /\ views[i].coverage < views[i - 1].coverage => contradicted(i)
  BY ZenonT(60) DEF CoverageMovesByMechanismOrContradiction
<1> DEFINE q == DeltaQuery(asks[r])
           d == CapabilityDelta(q, k)
           brings(i) == {a \in d.added : a.added_by = q.regions[i]}
<1>1. IsQuery(q) /\ delta[r].capabilities[k] = d /\ q.mode = "cumulative"
  BY DeltaAnswered
<1> HIDE DEF q
<1>2. Len(d.views) = Len(q.regions)
  <2>1. DOMAIN d.views = 1..Len(q.regions) /\ Len(q.regions) \in Nat
    BY <1>1, DeltaParts, Regions
  <2>2. d.views = [i \in DOMAIN q.regions |-> d.views[i]]
    BY <2>1, Regions, <1>1 DEF CapabilityDelta
  <2> HIDE DEF d
  <2> QED BY <2>1, <2>2
<1>3. \A i \in 2..Len(d.views) :
         ContradictedIn(q, k, i)
         \/ /\ d.views[i].coverage > d.views[i - 1].coverage =>
                  \E a \in brings(i) : a.changes_coverage
            /\ ~(d.views[i].coverage < d.views[i - 1].coverage)
  BY <1>1, <1>2, CoverageMoves
<1>4. \A i : ContradictedIn(q, k, i) <=>
         \E rule \in ToSet(q.contradictions) :
            /\ AppliesTo(rule, k, q.zone)
            /\ Cardinality(rule.control_ids \cap d.views[i].offered) >= 2
            /\ \E a \in brings(i) : a.control \in rule.control_ids
  BY DEF ContradictedIn
<1> HIDE DEF d
<1> QED
  BY <1>1, <1>3, <1>4 DEF q

\* From one cumulative reading to the next coverage rises only with a mechanism or a
\* contradiction, and falls only with a contradiction (delta/service.py).
THEOREM CoverageOfADeltaMoves == Spec => []CoverageMovesByMechanismOrContradiction
BY DataInitially, DataStep, CoverageInTheState, PTL DEF Spec

\* What it says of rules.
LEMMA OrderInTheState ==
    ASSUME DataInv
    PROVE  RuleOrderMattersOnlyUnderSafety
<1> SUFFICES ASSUME NEW r \in Request, NEW i \in DOMAIN run[r], stage[r] = "computed",
                    NEW k \in Capability
             PROVE  LET zone == run[r][i].zone
                        built == BuildOptions(asks[r].mappings, k)
                        declared == ContradictionsFor(asks[r].contradictions, k, built, zone)
                        settled(p) == Settled(built, [n \in DOMAIN declared |-> declared[p[n]]], zone)
                        setAside == UNION {Involved(rule, built) \ {Prevailing(rule, built, zone)} :
                            rule \in {d \in ToSet(declared) : d.resolution = "framework_precedence"}}
                        leftToTheHuman == UNION {Involved(rule, built) :
                            rule \in {d \in ToSet(declared) : d.resolution = "safety_override"}}
                    IN  \A p \in Injection(DOMAIN declared, DOMAIN declared) :
                           \A c \in DOMAIN built \ (setAside \cap leftToTheHuman) :
                              settled(p)[c].status = run[r][i].resolved[k][c].status
  BY DEF RuleOrderMattersOnlyUnderSafety
<1> DEFINE ask == asks[r]
           zone == run[r][i].zone
           built == BuildOptions(ask.mappings, k)
           S == DOMAIN built
           declared == ContradictionsFor(ask.contradictions, k, built, zone)
           read(p) == [n \in DOMAIN declared |-> declared[p[n]]]
           setAside == UNION {Involved(rule, built) \ {Prevailing(rule, built, zone)} :
               rule \in {d \in ToSet(declared) : d.resolution = "framework_precedence"}}
           leftToTheHuman == UNION {Involved(rule, built) :
               rule \in {d \in ToSet(declared) : d.resolution = "safety_override"}}
<1>1. RequestInv(r)
  BY DEF DataInv
<1>2. Is(r, "candidates") /\ ask \in AskedCandidates
  BY <1>1 DEF RequestInv, AskedOf, Asked, AskedDelta, AskedParse, Is, Computed, Writing
<1>3. run[r] = Core(ask)
  BY <1>1, <1>2 DEF RequestInv, RunOf, Computed
<1>4. zone = Context(ask, i) /\ run[r][i].resolved[k] = Settled(built, declared, zone)
  BY <1>2, <1>3, CoreOfZone
<1>5. /\ built \in Options(S) /\ \A c \in S : built[c].status = "eligible"
      /\ ask.contradictions \in Seq(Contradiction)
  BY <1>2, BuiltOptions DEF AskedCandidates
<1> HIDE DEF ask, zone, built, S
<1>6. declared \in Seq(Contradiction)
  BY <1>5, DeclaredOnes
<1> HIDE DEF declared
<1>7. \A c : c \in setAside <=> SetAside(ToSet(declared), built, zone, c)
  BY DEF SetAside, SetAsideBy
<1>8. \A c : c \in leftToTheHuman <=> LeftToTheHuman(ToSet(declared), built, c)
  BY DEF LeftToTheHuman, LeftToTheHumanBy
<1> HIDE DEF setAside, leftToTheHuman
<1>9. ASSUME NEW p \in Injection(DOMAIN declared, DOMAIN declared),
             NEW c \in S \ (setAside \cap leftToTheHuman)
      PROVE  Settled(built, read(p), zone)[c].status = Settled(built, declared, zone)[c].status
  <2>1. read(p) \in Seq(Contradiction) /\ ToSet(read(p)) = ToSet(declared)
    BY <1>6, Reordered
  <2> HIDE DEF read
  <2> DEFINE aside == SetAside(ToSet(declared), built, zone, c)
             human == LeftToTheHuman(ToSet(declared), built, c)
             outcome(d, status) == Settled(built, d, zone)[c].status = status
  <2>2. ~(aside /\ human)
    BY <1>7, <1>8
  <2>3. ASSUME NEW d \in Seq(Contradiction), ToSet(d) = ToSet(declared)
        PROVE  /\ aside => outcome(d, "superseded")
               /\ human => outcome(d, "contested")
               /\ ~aside /\ ~human => outcome(d, "eligible")
    BY <1>5, <2>2, <2>3, SettledStatus
  <2> HIDE DEF aside, human
  <2> QED BY <1>6, <2>1, <2>2, <2>3
<1>10. \A p \in Injection(DOMAIN declared, DOMAIN declared) :
           \A c \in S \ (setAside \cap leftToTheHuman) :
              Settled(built, read(p), zone)[c].status = run[r][i].resolved[k][c].status
  <2> DEFINE outcome == run[r][i].resolved[k]
  <2>1. outcome = Settled(built, declared, zone)
    BY <1>4
  <2> HIDE DEF read, outcome
  <2>2. ASSUME NEW p \in Injection(DOMAIN declared, DOMAIN declared),
               NEW c \in S \ (setAside \cap leftToTheHuman)
        PROVE  Settled(built, read(p), zone)[c].status = outcome[c].status
    BY <1>9, <2>1
  <2> QED BY <2>2, Zenon DEF outcome
<1> QED
  BY <1>10 DEF ask, zone, built, S, declared, read, setAside, leftToTheHuman

\* The order the rules are read in matters only to a mechanism that one rule sets
\* aside and another leaves to the human (engine/conflicts.py, resolve_capability).
THEOREM OrderMattersOnlyUnderSafety == Spec => []RuleOrderMattersOnlyUnderSafety
BY DataInitially, DataStep, OrderInTheState, PTL DEF Spec

(***************************************************************************)
(* The cut                                                                 *)
(***************************************************************************)
\* A sequence without repetitions has as many elements as it is long.
LEMMA OneEachCount ==
    ASSUME NEW s \in Seq(IndexHit), OneEach(s)
    PROVE  IsFiniteSet(ToSet(s)) /\ Cardinality(ToSet(s)) = Len(s)
<1> DEFINE n == Len(s)
<1>1. n \in Nat /\ s \in [1..n -> ToSet(s)] /\ DOMAIN s = 1..n
  <2>1. n \in Nat /\ DOMAIN s = 1..n /\ s \in [1..n -> IndexHit]
    BY LenProperties
  <2> HIDE DEF n
  <2> QED BY <2>1 DEF ToSet
<1> HIDE DEF n
<1>2. IsFiniteSet(1..n) /\ Cardinality(1..n) = n
  BY <1>1, FS_Interval
<1>3. s \in Injection(1..n, ToSet(s))
  BY <1>1 DEF Injection, IsInjective, OneEach
<1>4. s \in Surjection(1..n, ToSet(s))
  BY <1>1 DEF Surjection, ToSet
<1> QED
  BY <1>2, <1>3, <1>4, FS_Surjection DEF n

\* g stands before h in s.
Earlier(s, g, h) == \E i, j \in DOMAIN s : i < j /\ s[i] = g /\ s[j] = h

\* A selection keeps the order, and nothing of it stands later than it did.
LEMMA OnlyInPlace ==
    ASSUME NEW s \in Seq(IndexHit), OneEach(s), NEW X
    PROVE  LET t == Only(s, X)
           IN  /\ \A p \in DOMAIN s : s[p] \in X => \E n \in DOMAIN t : n <= p /\ t[n] = s[p]
               /\ \A g, h \in ToSet(t) : Earlier(s, g, h) => Earlier(t, g, h)
<1> DEFINE t == Only(s, X)
           at == Ascending(Positions(s, X))
<1>1. /\ t \in Seq(IndexHit) /\ Len(t) \in Nat
      /\ at \in [1..Len(t) -> 1..Len(s)]
      /\ \A n \in 1..Len(t) : t[n] = s[at[n]] /\ t[n] \in X
      /\ \A m, n \in 1..Len(t) : m < n => at[m] < at[n]
      /\ \A i \in 1..Len(s) : s[i] \in X => \E n \in 1..Len(t) : at[n] = i
  BY OnlyKeeps
<1> HIDE DEF t, at
<1>2. DOMAIN t = 1..Len(t) /\ DOMAIN s = 1..Len(s) /\ Len(s) \in Nat
  BY <1>1, LenProperties
<1>3. \A n \in 1..Len(t) : n <= at[n]
  <2> DEFINE L == Len(t)
             T == {n \in 0..L : n = 0 \/ n <= at[n]}
  <2>1. 0 \in T
    BY <1>1
  <2>2. \A n \in 1..L : n - 1 \in T => n \in T
    <3> SUFFICES ASSUME NEW n \in 1..L, n - 1 = 0 \/ n - 1 <= at[n - 1]
                 PROVE  n <= at[n]
      BY <1>1
    <3>1. at[n] \in Nat /\ at[n] >= 1
      BY <1>1, <1>2
    <3>2. CASE n = 1
      BY <3>1, <3>2
    <3>3. CASE n # 1
      <4>1. n - 1 \in 1..Len(t) /\ n \in 1..Len(t) /\ n - 1 < n
        BY <1>1, <3>3
      <4>2. at[n - 1] < at[n] /\ at[n - 1] \in Nat
        BY <1>1, <1>2, <4>1
      <4> QED BY <3>1, <3>3, <4>1, <4>2
    <3> QED BY <3>2, <3>3
  <2>3. L \in Nat
    BY <1>1
  <2> HIDE DEF T, L
  <2>4. \A n \in 0..L : n \in T
    BY <2>1, <2>2, <2>3, Upward
  <2> QED BY <2>3, <2>4 DEF T, L
<1>4. ASSUME NEW p \in DOMAIN s, s[p] \in X
      PROVE  \E n \in DOMAIN t : n <= p /\ t[n] = s[p]
  <2>1. PICK n \in 1..Len(t) : at[n] = p
    BY <1>1, <1>2, <1>4
  <2> QED BY <1>1, <1>2, <1>3, <2>1
<1>5. ASSUME NEW g \in ToSet(t), NEW h \in ToSet(t), Earlier(s, g, h)
      PROVE  Earlier(t, g, h)
  <2>1. PICK i \in DOMAIN s, j \in DOMAIN s : i < j /\ s[i] = g /\ s[j] = h
    BY <1>5 DEF Earlier
  <2>2. PICK m \in DOMAIN t, n \in DOMAIN t : t[m] = g /\ t[n] = h
    BY DEF ToSet
  <2>3. at[m] \in DOMAIN s /\ at[n] \in DOMAIN s /\ s[at[m]] = s[i] /\ s[at[n]] = s[j]
    BY <1>1, <1>2, <2>1, <2>2
  <2>4. at[m] = i /\ at[n] = j
    BY <2>1, <2>3 DEF OneEach
  <2>5. m \in Int /\ n \in Int /\ i \in Int /\ j \in Int
    BY <1>2, <2>1, <2>2
  <2>6. ~(n < m) /\ m # n
    <3>1. n < m => j < i
      BY <1>1, <1>2, <2>2, <2>4
    <3>2. m = n => i = j
      BY <2>4
    <3> QED BY <2>1, <2>5, <3>1, <3>2
  <2>7. m < n
    BY <2>5, <2>6
  <2> QED BY <2>2, <2>7 DEF Earlier
<1> QED
  BY <1>4, <1>5 DEF t

\* Nor does what is taken of it.
LEMMA TakeInPlace ==
    ASSUME NEW s \in Seq(IndexHit), OneEach(s), NEW n \in Nat
    PROVE  LET t == Take(s, n)
           IN  /\ t \in Seq(IndexHit) /\ OneEach(t) /\ ToSet(t) \subseteq ToSet(s)
               /\ \A p \in DOMAIN s : p <= n => s[p] \in ToSet(t)
               /\ \A g, h \in ToSet(t) : Earlier(s, g, h) => Earlier(t, g, h)
<1> DEFINE t == Take(s, n)
<1>1. /\ t \in Seq(IndexHit)
      /\ Len(t) = IF n <= Len(s) THEN n ELSE Len(s)
      /\ \A i \in 1..Len(t) : t[i] = s[i]
  BY TakeKeeps
<1> HIDE DEF t
<1>2. DOMAIN t = 1..Len(t) /\ DOMAIN s = 1..Len(s) /\ Len(s) \in Nat
  BY <1>1, LenProperties
<1>3. \A i \in DOMAIN t : i \in DOMAIN s /\ t[i] = s[i]
  BY <1>1, <1>2
<1>4. OneEach(t)
  BY <1>3 DEF OneEach
<1>5. ToSet(t) \subseteq ToSet(s)
  BY <1>3 DEF ToSet
<1>6. \A p \in DOMAIN s : p <= n => s[p] \in ToSet(t)
  <2> SUFFICES ASSUME NEW p \in DOMAIN s, p <= n PROVE s[p] \in ToSet(t)
    OBVIOUS
  <2>1. p \in DOMAIN t
    BY <1>1, <1>2
  <2> QED BY <1>3, <2>1 DEF ToSet
<1>7. ASSUME NEW g \in ToSet(t), NEW h \in ToSet(t), Earlier(s, g, h)
      PROVE  Earlier(t, g, h)
  <2>1. PICK i \in DOMAIN s, j \in DOMAIN s : i < j /\ s[i] = g /\ s[j] = h
    BY <1>7 DEF Earlier
  <2>2. PICK a \in DOMAIN t, b \in DOMAIN t : t[a] = g /\ t[b] = h
    BY DEF ToSet
  <2>3. a \in DOMAIN s /\ b \in DOMAIN s /\ s[a] = s[i] /\ s[b] = s[j]
    BY <1>3, <2>1, <2>2
  <2>4. a = i /\ b = j
    BY <2>1, <2>3 DEF OneEach
  <2> QED BY <2>1, <2>2, <2>4 DEF Earlier
<1> QED
  BY <1>1, <1>4, <1>5, <1>6, <1>7 DEF t

\* Before the floor nothing is cut off.
LEMMA BandReachesTheFloor ==
    ASSUME NEW hits \in Seq(IndexHit)
    PROVE  /\ BandWidth(hits) \in Nat /\ Min({TOP_K, Len(hits)}) \in Nat
           /\ Min({TOP_K, Len(hits)}) <= BandWidth(hits)
           /\ Min({TOP_K, Len(hits)}) = IF TOP_K <= Len(hits) THEN TOP_K ELSE Len(hits)
<1> DEFINE floor == Min({TOP_K, Len(hits)})
           limit == Min({MAX_K, Len(hits)})
           T == {k \in floor..limit : k = limit \/ ~Tied(hits, k)} \cup {limit}
<1>1. Len(hits) \in Nat /\ TOP_K \in Nat /\ MAX_K \in Nat /\ TOP_K <= MAX_K
  BY LenProperties, CutPolicyAssumption
<1>2. floor = (IF TOP_K <= Len(hits) THEN TOP_K ELSE Len(hits))
      /\ limit = (IF MAX_K <= Len(hits) THEN MAX_K ELSE Len(hits))
  BY <1>1, LeastOfTwo
<1> HIDE DEF floor, limit
<1>3. floor \in Nat /\ limit \in Nat /\ floor <= limit
  BY <1>1, <1>2
<1>4. T \subseteq Nat /\ T # {} /\ \A k \in T : floor <= k
  BY <1>3
<1>5. BandWidth(hits) = Min(T)
  BY DEF BandWidth, floor, limit
<1> HIDE DEF T
<1>6. Min(T) \in T
  <2>1. PICK n \in T : \A m \in T : ~(m < n)
    BY <1>4, LeastOne
  <2>2. n \in T /\ \A m \in T : n <= m
    BY <1>4, <2>1
  <2> QED BY <2>2 DEF Min
<1> QED
  BY <1>2, <1>3, <1>4, <1>5, <1>6 DEF floor

\* How many of kept are of the framework of hit.
OfTheFramework(kept, hit) == {i \in DOMAIN kept :
    Attributes[kept[i].control].framework = Attributes[hit.control].framework}
Share(kept, hit) == Cardinality(OfTheFramework(kept, hit))

\* place: where a hit goes, by what is placed already.
Placed(hits, cut, hit) ==
    CASE Len(cut.kept) = BandWidth(hits) -> [cut EXCEPT !.rank = Append(@, hit)]
      [] Len(cut.kept) # BandWidth(hits) /\ Share(cut.kept, hit) >= FRAMEWORK_CAP ->
            [cut EXCEPT !.cap = Append(@, hit)]
      [] OTHER -> [cut EXCEPT !.kept = Append(@, hit)]

Cut == [kept: Seq(IndexHit), rank: Seq(IndexHit), cap: Seq(IndexHit)]

\* The band as the first n hits fill it.
FilledSets(x, hits, n) ==
    /\ x \in Cut
    /\ OneEach(x.kept) /\ OneEach(x.cap)
    /\ ToSet(x.kept) \cup ToSet(x.rank) \cup ToSet(x.cap) = {hits[i] : i \in 1..n}
    /\ ToSet(x.kept) \cap ToSet(x.cap) = {}
    /\ Len(x.kept) + Len(x.rank) + Len(x.cap) = n
FilledBand(x, hits) ==
    Len(x.kept) <= BandWidth(hits) /\ (x.rank # << >> => Len(x.kept) = BandWidth(hits))
RankLast(x, hits, n) ==
    \A i, j \in 1..n : hits[i] \in ToSet(x.rank) /\ hits[j] \in ToSet(x.kept) => j < i
CapFull(x) == \A d \in ToSet(x.cap) : Share(x.kept, d) >= FRAMEWORK_CAP
Filled(x, hits, n) ==
    FilledSets(x, hits, n) /\ FilledBand(x, hits) /\ RankLast(x, hits, n) /\ CapFull(x)

\* One more at the end.
LEMMA Appended ==
    ASSUME NEW s \in Seq(IndexHit), NEW h \in IndexHit
    PROVE  LET t == Append(s, h)
           IN  /\ t \in Seq(IndexHit) /\ t # << >> /\ Len(s) \in Nat /\ Len(t) = Len(s) + 1
               /\ ToSet(t) = ToSet(s) \cup {h}
               /\ DOMAIN s \subseteq DOMAIN t /\ \A i \in DOMAIN s : t[i] = s[i]
               /\ OneEach(s) /\ (\A g \in ToSet(s) : g.control # h.control) => OneEach(t)
<1> DEFINE t == Append(s, h)
           n == Len(s)
<1>1. /\ t \in Seq(IndexHit) /\ t # << >> /\ Len(t) = n + 1
      /\ \A i \in 1..n : t[i] = s[i]
      /\ t[n + 1] = h
  BY AppendProperties
<1> HIDE DEF t
<1>2. n \in Nat /\ DOMAIN s = 1..n /\ DOMAIN t = 1..(n + 1)
  BY <1>1, LenProperties
<1> HIDE DEF n
<1>3. DOMAIN s \subseteq DOMAIN t /\ \A i \in DOMAIN t : i \in DOMAIN s \/ i = n + 1
  BY <1>2
<1>4. ToSet(t) = ToSet(s) \cup {h}
  BY <1>1, <1>2, <1>3 DEF ToSet
<1>5. ASSUME OneEach(s), \A g \in ToSet(s) : g.control # h.control
      PROVE  OneEach(t)
  <2>1. \A i \in DOMAIN s : s[i].control # h.control
    BY <1>5 DEF ToSet
  <2> QED BY <1>1, <1>2, <1>3, <1>5, <2>1 DEF OneEach
<1> QED
  BY <1>1, <1>2, <1>3, <1>4, <1>5 DEF t, n

\* What a longer list keeps of a framework is no less.
LEMMA ShareGrows ==
    ASSUME NEW s \in Seq(IndexHit), NEW t \in Seq(IndexHit),
           DOMAIN s \subseteq DOMAIN t, \A i \in DOMAIN s : t[i] = s[i], NEW d
    PROVE  Share(s, d) \in Nat /\ Share(t, d) \in Nat /\ Share(s, d) <= Share(t, d)
<1>1. OfTheFramework(s, d) \subseteq OfTheFramework(t, d)
  BY DEF OfTheFramework
<1>2. IsFiniteSet(OfTheFramework(t, d))
  <2>1. DOMAIN t = 1..Len(t) /\ Len(t) \in Nat
    BY LenProperties
  <2>2. IsFiniteSet(DOMAIN t)
    BY <2>1, FS_Interval
  <2>3. OfTheFramework(t, d) \subseteq DOMAIN t
    BY DEF OfTheFramework
  <2> QED BY <2>2, <2>3, FS_Subset
<1>3. IsFiniteSet(OfTheFramework(s, d))
      /\ Cardinality(OfTheFramework(s, d)) <= Cardinality(OfTheFramework(t, d))
  BY <1>1, <1>2, FS_Subset
<1> QED
  BY <1>2, <1>3, FS_CardinalityType DEF Share

\* A hit is placed in one of three ways.
LEMMA PlacedSomewhere ==
    ASSUME NEW hits, NEW x \in Cut, NEW h
    PROVE  \/ /\ Len(x.kept) = BandWidth(hits)
              /\ Placed(hits, x, h) = [x EXCEPT !.rank = Append(@, h)]
           \/ /\ Len(x.kept) # BandWidth(hits) /\ Share(x.kept, h) >= FRAMEWORK_CAP
              /\ Placed(hits, x, h) = [x EXCEPT !.cap = Append(@, h)]
           \/ /\ Len(x.kept) # BandWidth(hits)
              /\ Placed(hits, x, h) = [x EXCEPT !.kept = Append(@, h)]
<1>1. CASE Len(x.kept) = BandWidth(hits)
  BY <1>1 DEF Placed
<1>2. CASE Len(x.kept) # BandWidth(hits) /\ Share(x.kept, h) >= FRAMEWORK_CAP
  BY <1>2 DEF Placed
<1>3. CASE Len(x.kept) # BandWidth(hits) /\ ~(Share(x.kept, h) >= FRAMEWORK_CAP)
  BY <1>3 DEF Placed
<1> QED
  BY <1>1, <1>2, <1>3

\* Placing one more hit keeps all this.
LEMMA PlacedKeeps ==
    ASSUME NEW hits \in Seq(IndexHit), OneEach(hits), NEW n \in 1..Len(hits), NEW x,
           Filled(x, hits, n - 1)
    PROVE  Filled(Placed(hits, x, hits[n]), hits, n)
<1> DEFINE h == hits[n]
           y == Placed(hits, x, h)
<1>1. /\ x \in Cut
      /\ x.kept \in Seq(IndexHit) /\ x.rank \in Seq(IndexHit) /\ x.cap \in Seq(IndexHit)
      /\ OneEach(x.kept) /\ OneEach(x.cap)
      /\ ToSet(x.kept) \cup ToSet(x.rank) \cup ToSet(x.cap) = {hits[i] : i \in 1..(n - 1)}
      /\ ToSet(x.kept) \cap ToSet(x.cap) = {}
      /\ Len(x.kept) + Len(x.rank) + Len(x.cap) = n - 1
  BY DEF Filled, FilledSets, Cut
<1>2. /\ n \in Nat /\ Len(hits) \in Nat /\ DOMAIN hits = 1..Len(hits) /\ h \in IndexHit
      /\ Len(x.kept) \in Nat /\ Len(x.rank) \in Nat /\ Len(x.cap) \in Nat
  BY <1>1, LenProperties, ElementOfSeq
<1>3. BandWidth(hits) \in Nat
  BY BandReachesTheFloor
<1>4. {hits[i] : i \in 1..n} = {hits[i] : i \in 1..(n - 1)} \cup {h}
  <2>1. 1..n = (1..(n - 1)) \cup {n}
    BY <1>2
  <2> QED BY <2>1
<1>5. \A g \in {hits[i] : i \in 1..(n - 1)} : g.control # h.control
  <2> SUFFICES ASSUME NEW i \in 1..(n - 1) PROVE hits[i].control # h.control
    OBVIOUS
  <2>1. i \in DOMAIN hits /\ n \in DOMAIN hits /\ i # n
    BY <1>2
  <2> QED BY <2>1 DEF OneEach
<1>6. h \notin ToSet(x.kept) /\ h \notin ToSet(x.rank) /\ h \notin ToSet(x.cap)
  BY <1>1, <1>5
<1>7. \A g \in ToSet(x.kept) \cup ToSet(x.cap) : g.control # h.control
  BY <1>1, <1>5
<1>8. /\ FilledBand(x, hits) /\ RankLast(x, hits, n - 1) /\ CapFull(x)
  BY DEF Filled
<1>9. \A i \in 1..n : hits[i] = h => i = n
  <2>1. \A i \in 1..n : i \in DOMAIN hits
    BY <1>2
  <2>2. n \in DOMAIN hits
    BY <1>2
  <2> QED BY <2>1, <2>2 DEF OneEach
<1> HIDE DEF h, y
<1>10. /\ Len(x.kept) + Len(x.rank) + (Len(x.cap) + 1) = n
       /\ Len(x.kept) + (Len(x.rank) + 1) + Len(x.cap) = n
       /\ (Len(x.kept) + 1) + Len(x.rank) + Len(x.cap) = n
  <2> DEFINE a == Len(x.kept)
             b == Len(x.rank)
             c == Len(x.cap)
  <2>1. n \in Nat /\ a \in Nat /\ b \in Nat /\ c \in Nat /\ a + b + c = n - 1
    BY <1>1, <1>2
  <2> HIDE DEF a, b, c
  <2>2. a + b + (c + 1) = n /\ a + (b + 1) + c = n /\ (a + 1) + b + c = n
    BY <2>1
  <2> QED BY <2>2 DEF a, b, c
<1>11. CASE Len(x.kept) = BandWidth(hits) /\ y = [x EXCEPT !.rank = Append(@, h)]
  <2>1. y.kept = x.kept /\ y.cap = x.cap /\ y.rank = Append(x.rank, h) /\ y \in Cut
        /\ Len(y.rank) = Len(x.rank) + 1 /\ ToSet(y.rank) = ToSet(x.rank) \cup {h}
    <3>1. Append(x.rank, h) \in Seq(IndexHit) /\ Len(Append(x.rank, h)) = Len(x.rank) + 1
          /\ ToSet(Append(x.rank, h)) = ToSet(x.rank) \cup {h}
      BY <1>1, <1>2, Appended
    <3> QED BY <1>1, <1>11, <3>1 DEF Cut
  <2>2. FilledSets(y, hits, n)
    <3>1. ToSet(y.kept) \cup ToSet(y.rank) \cup ToSet(y.cap) = {hits[i] : i \in 1..n}
      BY <1>1, <1>4, <2>1
    <3>2. Len(y.kept) + Len(y.rank) + Len(y.cap) = n
      BY <1>10, <2>1
    <3> QED BY <1>1, <2>1, <3>1, <3>2 DEF FilledSets
  <2>3. FilledBand(y, hits)
    BY <1>3, <1>11, <2>1 DEF FilledBand
  <2>4. RankLast(y, hits, n)
    <3> SUFFICES ASSUME NEW i \in 1..n, NEW j \in 1..n,
                        hits[i] \in ToSet(y.rank), hits[j] \in ToSet(y.kept)
                 PROVE  j < i
      BY DEF RankLast
    <3>1. j # n
      BY <1>6, <2>1 DEF h
    <3>2. j \in 1..(n - 1)
      BY <3>1
    <3>3. CASE i = n
      BY <3>2, <3>3
    <3>4. CASE i # n
      <4>1. i \in 1..(n - 1) /\ hits[i] \in ToSet(x.rank)
        BY <1>9, <2>1, <3>4
      <4> QED BY <1>8, <2>1, <3>2, <4>1 DEF RankLast
    <3> QED BY <3>3, <3>4
  <2>5. CapFull(y)
    BY <1>8, <2>1 DEF CapFull
  <2> QED BY <2>2, <2>3, <2>4, <2>5 DEF Filled, y, h
<1>12. CASE Len(x.kept) # BandWidth(hits) /\ Share(x.kept, h) >= FRAMEWORK_CAP
            /\ y = [x EXCEPT !.cap = Append(@, h)]
  <2>1. y.kept = x.kept /\ y.rank = x.rank /\ y.cap = Append(x.cap, h) /\ y \in Cut /\ OneEach(y.cap)
        /\ Len(y.cap) = Len(x.cap) + 1 /\ ToSet(y.cap) = ToSet(x.cap) \cup {h}
    <3>1. Append(x.cap, h) \in Seq(IndexHit) /\ Len(Append(x.cap, h)) = Len(x.cap) + 1
          /\ ToSet(Append(x.cap, h)) = ToSet(x.cap) \cup {h} /\ OneEach(Append(x.cap, h))
      BY <1>1, <1>2, <1>7, Appended
    <3> QED BY <1>1, <1>12, <3>1 DEF Cut
  <2>2. FilledSets(y, hits, n)
    <3>1. ToSet(y.kept) \cup ToSet(y.rank) \cup ToSet(y.cap) = {hits[i] : i \in 1..n}
      BY <1>1, <1>4, <2>1
    <3>2. Len(y.kept) + Len(y.rank) + Len(y.cap) = n
      BY <1>10, <2>1
    <3>3. ToSet(y.kept) \cap ToSet(y.cap) = {}
      BY <1>1, <1>6, <2>1
    <3> QED BY <1>1, <2>1, <3>1, <3>2, <3>3 DEF FilledSets
  <2>3. FilledBand(y, hits)
    BY <1>8, <2>1 DEF FilledBand
  <2>4. RankLast(y, hits, n)
    <3> SUFFICES ASSUME NEW i \in 1..n, NEW j \in 1..n,
                        hits[i] \in ToSet(x.rank), hits[j] \in ToSet(x.kept)
                 PROVE  j < i
      BY <2>1 DEF RankLast
    <3>1. i # n /\ j # n
      BY <1>6 DEF h
    <3>2. i \in 1..(n - 1) /\ j \in 1..(n - 1)
      BY <3>1
    <3> QED BY <1>8, <3>2 DEF RankLast
  <2>5. CapFull(y)
    BY <1>8, <1>12, <2>1 DEF CapFull
  <2> QED BY <2>2, <2>3, <2>4, <2>5 DEF Filled, y, h
<1>13. CASE Len(x.kept) # BandWidth(hits) /\ y = [x EXCEPT !.kept = Append(@, h)]
  <2>1. y.cap = x.cap /\ y.rank = x.rank /\ y.kept = Append(x.kept, h) /\ y \in Cut /\ OneEach(y.kept)
        /\ Len(y.kept) = Len(x.kept) + 1 /\ ToSet(y.kept) = ToSet(x.kept) \cup {h}
        /\ DOMAIN x.kept \subseteq DOMAIN y.kept /\ \A i \in DOMAIN x.kept : y.kept[i] = x.kept[i]
    <3>1. Append(x.kept, h) \in Seq(IndexHit) /\ Len(Append(x.kept, h)) = Len(x.kept) + 1
          /\ ToSet(Append(x.kept, h)) = ToSet(x.kept) \cup {h} /\ OneEach(Append(x.kept, h))
          /\ DOMAIN x.kept \subseteq DOMAIN Append(x.kept, h)
          /\ \A i \in DOMAIN x.kept : Append(x.kept, h)[i] = x.kept[i]
      BY <1>1, <1>2, <1>7, Appended
    <3> QED BY <1>1, <1>13, <3>1 DEF Cut
  <2>2. FilledSets(y, hits, n)
    <3>1. ToSet(y.kept) \cup ToSet(y.rank) \cup ToSet(y.cap) = {hits[i] : i \in 1..n}
      BY <1>1, <1>4, <2>1
    <3>2. Len(y.kept) + Len(y.rank) + Len(y.cap) = n
      BY <1>10, <2>1
    <3>3. ToSet(y.kept) \cap ToSet(y.cap) = {}
      BY <1>1, <1>6, <2>1
    <3> QED BY <1>1, <2>1, <3>1, <3>2, <3>3 DEF FilledSets
  <2>3. x.rank = << >>
    BY <1>8, <1>13 DEF FilledBand
  <2>4. FilledBand(y, hits)
    BY <1>2, <1>3, <1>8, <1>13, <2>1, <2>3 DEF FilledBand
  <2>5. RankLast(y, hits, n)
    BY <2>1, <2>3 DEF RankLast, ToSet
  <2>6. CapFull(y)
    <3> SUFFICES ASSUME NEW d \in ToSet(x.cap) PROVE Share(y.kept, d) >= FRAMEWORK_CAP
      BY <2>1 DEF CapFull
    <3>1. Share(x.kept, d) >= FRAMEWORK_CAP
      BY <1>8 DEF CapFull
    <3>2. y.kept \in Seq(IndexHit)
      BY <2>1 DEF Cut
    <3>3. Share(x.kept, d) \in Nat /\ Share(y.kept, d) \in Nat /\ Share(x.kept, d) <= Share(y.kept, d)
      BY <1>1, <2>1, <3>2, ShareGrows
    <3> QED BY <3>1, <3>3, CutPolicyAssumption
  <2> QED BY <2>2, <2>4, <2>5, <2>6 DEF Filled, y, h
<1>14. \/ Len(x.kept) = BandWidth(hits) /\ y = [x EXCEPT !.rank = Append(@, h)]
       \/ /\ Len(x.kept) # BandWidth(hits) /\ Share(x.kept, h) >= FRAMEWORK_CAP
          /\ y = [x EXCEPT !.cap = Append(@, h)]
       \/ Len(x.kept) # BandWidth(hits) /\ y = [x EXCEPT !.kept = Append(@, h)]
  <2>1. y = Placed(hits, x, h)
    BY DEF y
  <2>2. x \in Cut
    BY <1>1
  <2>3. \/ /\ Len(x.kept) = BandWidth(hits)
           /\ Placed(hits, x, h) = [x EXCEPT !.rank = Append(@, h)]
        \/ /\ Len(x.kept) # BandWidth(hits) /\ Share(x.kept, h) >= FRAMEWORK_CAP
           /\ Placed(hits, x, h) = [x EXCEPT !.cap = Append(@, h)]
        \/ /\ Len(x.kept) # BandWidth(hits)
           /\ Placed(hits, x, h) = [x EXCEPT !.kept = Append(@, h)]
    <3> HIDE DEF y
    <3> QED BY <2>2, PlacedSomewhere
  <2> QED BY <2>1, <2>3
<1> QED
  BY <1>11, <1>12, <1>13, <1>14 DEF y, h

\* What is placed is a cut again.
LEMMA PlacedIsCut ==
    ASSUME NEW hits, NEW x \in Cut, NEW h \in IndexHit
    PROVE  Placed(hits, x, h) \in Cut
<1>1. x.kept \in Seq(IndexHit) /\ x.rank \in Seq(IndexHit) /\ x.cap \in Seq(IndexHit)
  BY DEF Cut
<1>2. /\ Append(x.kept, h) \in Seq(IndexHit)
      /\ Append(x.rank, h) \in Seq(IndexHit)
      /\ Append(x.cap, h) \in Seq(IndexHit)
  BY <1>1, AppendProperties
<1>3. /\ [x EXCEPT !.kept = Append(@, h)] \in Cut
      /\ [x EXCEPT !.rank = Append(@, h)] \in Cut
      /\ [x EXCEPT !.cap = Append(@, h)] \in Cut
  BY <1>2 DEF Cut
<1>4. CASE Len(x.kept) = BandWidth(hits)
  BY <1>3, <1>4 DEF Placed
<1>5. CASE Len(x.kept) # BandWidth(hits) /\ Share(x.kept, h) >= FRAMEWORK_CAP
  BY <1>3, <1>5 DEF Placed
<1>6. CASE Len(x.kept) # BandWidth(hits) /\ ~(Share(x.kept, h) >= FRAMEWORK_CAP)
  BY <1>3, <1>6 DEF Placed
<1> QED
  BY <1>4, <1>5, <1>6

\* The band is filled hit by hit.
FillsBy(f, hits) ==
    /\ f \in [0..Len(hits) -> Cut]
    /\ f[0] = NothingCut
    /\ \A n \in 1..Len(hits) : f[n] = Placed(hits, f[n - 1], hits[n])
    /\ FillBand(hits) = f[Len(hits)]

\* There is such an f, and the band is its last value.
LEMMA FilledStepwise ==
    ASSUME NEW hits \in Seq(IndexHit)
    PROVE  \E f : FillsBy(f, hits)
<1> DEFINE L == Len(hits)
           f == CHOOSE g : g = [n \in 0..L |->
                   IF n = 0 THEN NothingCut ELSE Placed(hits, g[n - 1], hits[n])]
<1>1. L \in Nat /\ \A n \in 1..L : hits[n] \in IndexHit
  BY LenProperties, ElementOfSeq
<1>2. FillBand(hits) = f[L]
  BY DEF FillBand, Placed, Share, OfTheFramework
<1>3. NothingCut \in Cut
  <2>1. << >> \in Seq(IndexHit)
    OBVIOUS
  <2> QED BY <2>1 DEF NothingCut, Cut
<1>4. \E g : /\ g \in [0..L -> Cut]
             /\ g = [n \in 0..L |->
                   IF n = 0 THEN NothingCut ELSE Placed(hits, g[n - 1], hits[n])]
  <2> DEFINE next == [p \in (1..L) \X Cut |-> Placed(hits, p[2], hits[p[1]])]
  <2>1. next \in [(1..L) \X Cut -> Cut]
    <3> HIDE DEF L
    <3>1. \A p \in (1..L) \X Cut : Placed(hits, p[2], hits[p[1]]) \in Cut
      BY <1>1, PlacedIsCut
    <3> QED BY <3>1
  <2>2. \A n \in 1..L, x \in Cut : next[<<n, x>>] = Placed(hits, x, hits[n])
    OBVIOUS
  <2> HIDE DEF next, L, f
  <2>3. PICK g : Walks(L, Cut, NothingCut, next, g)
    BY <1>1, <1>3, <2>1, StepByStep DEF Stepping
  <2>4. g \in [0..L -> Cut] /\ g[0] = NothingCut /\ \A n \in 1..L : g[n] = next[<<n, g[n - 1]>>]
    BY <2>3 DEF Walks
  <2>5. ASSUME NEW n \in 1..L
        PROVE  g[n] = Placed(hits, g[n - 1], hits[n])
    <3>1. n - 1 \in 0..L
      BY <1>1
    <3> QED BY <2>2, <2>4, <3>1
  <2>6. g = [n \in 0..L |-> IF n = 0 THEN NothingCut ELSE Placed(hits, g[n - 1], hits[n])]
    BY <1>1, <2>4, <2>5
  <2> QED
    BY <2>4, <2>6
<1>5. f = [n \in 0..L |-> IF n = 0 THEN NothingCut ELSE Placed(hits, f[n - 1], hits[n])]
  BY <1>4
<1> HIDE DEF f, L
<1>6. f[0] = NothingCut /\ \A n \in 1..L : f[n] = Placed(hits, f[n - 1], hits[n])
  BY <1>1, <1>5
<1>7. \A n \in 0..L : f[n] \in Cut
  <2> DEFINE T == {n \in 0..L : f[n] \in Cut}
  <2>1. 0 \in T
    BY <1>1, <1>3, <1>6
  <2>2. \A n \in 1..L : n - 1 \in T => n \in T
    <3> SUFFICES ASSUME NEW n \in 1..L, f[n - 1] \in Cut
                 PROVE  f[n] \in Cut
      BY <1>1
    <3> QED BY <1>1, <1>6, PlacedIsCut
  <2> HIDE DEF T
  <2>3. \A n \in 0..L : n \in T
    BY <1>1, <2>1, <2>2, Upward
  <2> QED BY <2>3 DEF T
<1>8. f \in [0..L -> Cut]
  BY <1>5, <1>7
<1> QED
  BY <1>2, <1>6, <1>8 DEF L, FillsBy

\* So in the end it is filled.
LEMMA BandIsFilled ==
    ASSUME NEW hits \in Seq(IndexHit), OneEach(hits)
    PROVE  Filled(FillBand(hits), hits, Len(hits))
<1> DEFINE L == Len(hits)
<1>1. L \in Nat
  BY LenProperties
<1>2. PICK f : FillsBy(f, hits)
  BY FilledStepwise
<1> DEFINE T == {n \in 0..L : Filled(f[n], hits, n)}
<1>3. 0 \in T
  <2>1. Filled(NothingCut, hits, 0)
    <3>1. << >> \in Seq(IndexHit) /\ Len(<< >>) = 0 /\ ToSet(<< >>) = {} /\ OneEach(<< >>)
      BY DEF ToSet, OneEach
    <3>2. {hits[i] : i \in 1..0} = {}
      OBVIOUS
    <3>3. NothingCut.kept = << >> /\ NothingCut.rank = << >> /\ NothingCut.cap = << >>
          /\ NothingCut \in Cut
      BY <3>1 DEF NothingCut, Cut
    <3>4. FilledSets(NothingCut, hits, 0)
      BY <3>1, <3>2, <3>3 DEF FilledSets
    <3>5. FilledBand(NothingCut, hits)
      <4>1. BandWidth(hits) \in Nat
        BY BandReachesTheFloor
      <4>2. Len(NothingCut.kept) = 0 /\ NothingCut.rank = << >>
        BY <3>1, <3>3
      <4> QED BY <4>1, <4>2 DEF FilledBand
    <3>6. RankLast(NothingCut, hits, 0) /\ CapFull(NothingCut)
      BY <3>1, <3>3 DEF RankLast, CapFull
    <3> QED BY <3>4, <3>5, <3>6 DEF Filled
  <2> QED BY <1>1, <1>2, <2>1 DEF FillsBy
<1>4. \A n \in 1..L : n - 1 \in T => n \in T
  <2> SUFFICES ASSUME NEW n \in 1..L, Filled(f[n - 1], hits, n - 1)
               PROVE  Filled(f[n], hits, n)
    BY <1>1
  <2>1. Filled(Placed(hits, f[n - 1], hits[n]), hits, n)
    BY PlacedKeeps
  <2> QED BY <1>2, <2>1 DEF FillsBy
<1> HIDE DEF T, L
<1>5. \A n \in 0..L : n \in T
  BY <1>1, <1>3, <1>4, Upward
<1>6. L \in T
  BY <1>1, <1>5
<1> QED
  BY <1>2, <1>6 DEF T, L, FillsBy

\* The larger of two numbers.
LEMMA GreatestOfTwo ==
    ASSUME NEW a \in Int, NEW b \in Int
    PROVE  Max({a, b}) = IF a >= b THEN a ELSE b
BY DEF Max

OfItsFramework(S, d) ==
    {h \in S : Attributes[h.control].framework = Attributes[d.control].framework}

\* A share is a share of the hits.
LEMMA ShareOfHits ==
    ASSUME NEW s \in Seq(IndexHit), OneEach(s), NEW T, IsFiniteSet(T), ToSet(s) \subseteq T, NEW d
    PROVE  Share(s, d) <= Cardinality(OfItsFramework(T, d))
<1> DEFINE I == OfTheFramework(s, d)
           H == OfItsFramework(T, d)
           f == [i \in I |-> s[i]]
<1>1. IsFiniteSet(H)
  <2>1. H \subseteq T
    BY DEF OfItsFramework
  <2> QED BY <2>1, FS_Subset
<1>2. \A i \in I : i \in DOMAIN s /\ s[i] \in H
  BY DEF OfTheFramework, OfItsFramework, ToSet
<1>3. \A i, j \in I : s[i] = s[j] => i = j
  BY <1>2 DEF OneEach
<1> HIDE DEF I, H
<1>4. f \in Injection(I, H)
  BY <1>2, <1>3 DEF Injection, IsInjective
<1> HIDE DEF f
<1>5. Cardinality(I) <= Cardinality(H)
  BY <1>1, <1>4, FS_Injection
<1> QED
  BY <1>5 DEF Share, I, H

\* What the cut leaves: every hit is kept or counted below it, as many are kept as the
\* floor asks, and none is kept over a closer one whose framework has not its share.
LEMMA CutKeeps ==
    ASSUME NEW hits \in Seq(IndexHit), OneEach(hits)
    PROVE  LET c == ApplyCut(hits)
           IN  /\ c.rank \in Seq(IndexHit) /\ c.cap \in Seq(IndexHit)
               /\ ToSet(c.kept) \cup ToSet(c.rank) \cup ToSet(c.cap) = ToSet(hits)
               /\ Cardinality(ToSet(c.kept)) \in Nat
               /\ Cardinality(ToSet(c.kept)) >= Min({TOP_K, Len(hits)})
               /\ \A d \in ToSet(c.rank) \cup ToSet(c.cap), h \in ToSet(c.kept) :
                     Earlier(hits, d, h) =>
                        Cardinality(OfItsFramework(ToSet(c.kept), d)) >= FRAMEWORK_CAP
<1> DEFINE x == FillBand(hits)
           F == Min({TOP_K, Len(hits)})
           missing == Max({0, F - Len(x.kept)})
           back == ToSet(Take(x.cap, missing))
           kept == Only(hits, ToSet(x.kept) \cup back)
           cap == Only(x.cap, ToSet(x.cap) \ back)
           c == ApplyCut(hits)
<1>1. Filled(x, hits, Len(hits))
  BY BandIsFilled
<1> HIDE DEF x
<1>2. /\ x.kept \in Seq(IndexHit) /\ x.rank \in Seq(IndexHit) /\ x.cap \in Seq(IndexHit)
      /\ OneEach(x.kept) /\ OneEach(x.cap)
      /\ ToSet(x.kept) \cup ToSet(x.rank) \cup ToSet(x.cap) = {hits[i] : i \in 1..Len(hits)}
      /\ ToSet(x.kept) \cap ToSet(x.cap) = {}
      /\ Len(x.kept) + Len(x.rank) + Len(x.cap) = Len(hits)
      /\ x \in Cut
  BY <1>1 DEF Filled, FilledSets, Cut
<1>3. /\ Len(hits) \in Nat /\ DOMAIN hits = 1..Len(hits)
      /\ Len(x.kept) \in Nat /\ Len(x.rank) \in Nat /\ Len(x.cap) \in Nat
  BY <1>2, LenProperties
<1>4. {hits[i] : i \in 1..Len(hits)} = ToSet(hits)
  BY <1>3 DEF ToSet
<1>5. /\ BandWidth(hits) \in Nat /\ F \in Nat /\ F <= BandWidth(hits) /\ F <= Len(hits)
  <2>1. /\ BandWidth(hits) \in Nat /\ F \in Nat /\ F <= BandWidth(hits)
        /\ F = IF TOP_K <= Len(hits) THEN TOP_K ELSE Len(hits)
    BY BandReachesTheFloor
  <2>2. TOP_K \in Nat
    BY CutPolicyAssumption
  <2> DEFINE L == Len(hits)
  <2>3. L \in Nat /\ F = IF TOP_K <= L THEN TOP_K ELSE L
    BY <1>3, <2>1
  <2> HIDE DEF F, L
  <2>4. F <= L
    BY <2>2, <2>3
  <2> QED BY <2>1, <2>4 DEF L
<1>6. FilledBand(x, hits) /\ RankLast(x, hits, Len(hits)) /\ CapFull(x)
  BY <1>1 DEF Filled
<1> HIDE DEF F
<1>7. missing = (IF Len(x.kept) >= F THEN 0 ELSE F - Len(x.kept)) /\ missing \in Nat
  <2>1. F - Len(x.kept) \in Int
    BY <1>3, <1>5
  <2>2. missing = IF 0 >= F - Len(x.kept) THEN 0 ELSE F - Len(x.kept)
    BY <2>1, GreatestOfTwo
  <2> QED BY <1>3, <1>5, <2>2
<1> HIDE DEF missing
<1>8. /\ Take(x.cap, missing) \in Seq(IndexHit) /\ OneEach(Take(x.cap, missing))
      /\ back \subseteq ToSet(x.cap)
  BY <1>2, <1>7, TakeInPlace
<1>9. Len(Take(x.cap, missing)) = IF missing <= Len(x.cap) THEN missing ELSE Len(x.cap)
  BY <1>2, <1>7, TakeKeeps
<1>10. IsFiniteSet(back) /\ Cardinality(back) = Len(Take(x.cap, missing))
  BY <1>8, OneEachCount
<1>11. IsFiniteSet(ToSet(x.kept)) /\ Cardinality(ToSet(x.kept)) = Len(x.kept)
  BY <1>2, OneEachCount
<1> HIDE DEF back
<1>12. ToSet(kept) = ToSet(x.kept) \cup back
  <2>1. ToSet(kept) = ToSet(hits) \cap (ToSet(x.kept) \cup back)
    BY OnlySet
  <2> QED BY <1>2, <1>4, <1>8, <2>1
<1>13. cap \in Seq(IndexHit) /\ ToSet(cap) = ToSet(x.cap) \ back
  <2>1. ToSet(cap) = ToSet(x.cap) \cap (ToSet(x.cap) \ back)
    BY <1>2, OnlySet
  <2>2. cap \in Seq(IndexHit)
    BY <1>2, OnlyOneEach
  <2> QED BY <2>1, <2>2
<1>14. c.kept = kept /\ c.rank = x.rank /\ c.cap = cap
  <2>1. c = [x EXCEPT !.kept = kept, !.cap = cap]
    BY DEF ApplyCut, CapYieldsToTheFloor, x, F, missing, back
  <2>2. DOMAIN x = {"kept", "rank", "cap"} /\ x = [kept |-> x.kept, rank |-> x.rank, cap |-> x.cap]
    BY <1>2 DEF Cut
  <2> HIDE DEF c, kept, cap
  <2> QED BY <2>1, <2>2
<1> HIDE DEF c, kept, cap
<1>15. ToSet(c.kept) \cup ToSet(c.rank) \cup ToSet(c.cap) = ToSet(hits)
  BY <1>2, <1>4, <1>8, <1>12, <1>13, <1>14
<1>16. IsFiniteSet(ToSet(c.kept)) /\ ToSet(c.kept) = ToSet(x.kept) \cup back
  BY <1>10, <1>11, <1>12, <1>14, FS_Union
<1>17. Len(x.kept) < F => x.rank = << >> /\ missing <= Len(x.cap)
  <2> SUFFICES ASSUME Len(x.kept) < F PROVE x.rank = << >> /\ missing <= Len(x.cap)
    OBVIOUS
  <2>1. x.rank = << >>
    BY <1>3, <1>5, <1>6 DEF FilledBand
  <2>2. Len(x.rank) = 0
    BY <2>1
  <2> DEFINE a == Len(x.kept)
             b == Len(x.rank)
             e == Len(x.cap)
             L == Len(hits)
  <2>3. /\ a \in Nat /\ b = 0 /\ e \in Nat /\ L \in Nat /\ F \in Nat /\ F <= L /\ a < F
        /\ a + b + e = L /\ missing = IF a >= F THEN 0 ELSE F - a
    BY <1>2, <1>3, <1>5, <1>7, <2>2
  <2> HIDE DEF a, b, e, L
  <2>4. missing <= e
    BY <2>3
  <2> QED BY <2>1, <2>4 DEF e
<1>18. Cardinality(ToSet(c.kept)) \in Nat /\ Cardinality(ToSet(c.kept)) >= F
  <2>1. Cardinality(ToSet(c.kept)) \in Nat
    BY <1>16, FS_CardinalityType
  <2>2. CASE Len(x.kept) >= F
    <3>1. Cardinality(ToSet(x.kept)) <= Cardinality(ToSet(c.kept))
      <4>1. ToSet(x.kept) \in SUBSET ToSet(c.kept)
        BY <1>16
      <4> QED BY <1>16, <4>1, FS_Subset
    <3> QED BY <1>3, <1>5, <1>11, <2>1, <2>2, <3>1
  <2>3. CASE Len(x.kept) < F
    <3>1. ToSet(x.kept) \cap back = {}
      BY <1>2, <1>8
    <3>2. Cardinality(ToSet(x.kept) \cup back)
            = Cardinality(ToSet(x.kept)) + Cardinality(back) - Cardinality(ToSet(x.kept) \cap back)
      BY <1>10, <1>11, FS_Union
    <3>3. Cardinality(ToSet(x.kept) \cap back) = 0
      BY <3>1, FS_EmptySet
    <3>4. Cardinality(back) = missing
      BY <1>9, <1>10, <1>17, <2>3
    <3>5. Cardinality(ToSet(c.kept)) = Len(x.kept) + missing - 0
      BY <1>11, <1>16, <3>2, <3>3, <3>4
    <3> DEFINE a == Len(x.kept)
               m == Cardinality(ToSet(c.kept))
    <3>6. a \in Nat /\ F \in Nat /\ a < F /\ m = a + missing - 0
          /\ missing = IF a >= F THEN 0 ELSE F - a
      BY <1>3, <1>5, <1>7, <2>3, <3>5
    <3> HIDE DEF a, m
    <3>7. m >= F
      BY <3>6
    <3> QED BY <2>1, <3>7 DEF m
  <2> QED BY <1>3, <1>5, <2>1, <2>2, <2>3
<1>19. ASSUME NEW d \in ToSet(c.rank) \cup ToSet(c.cap), NEW h \in ToSet(c.kept), Earlier(hits, d, h)
       PROVE  Cardinality(OfItsFramework(ToSet(c.kept), d)) >= FRAMEWORK_CAP
  <2>1. CASE d \in ToSet(x.rank)
    <3>1. x.rank # << >>
      BY <2>1 DEF ToSet
    <3>2. missing = 0
      BY <1>3, <1>5, <1>6, <1>7, <3>1 DEF FilledBand
    <3>3. back = {}
      <4>1. Len(Take(x.cap, missing)) = 0
        BY <1>3, <1>9, <3>2
      <4>2. IsFiniteSet(back) /\ Cardinality(back) = 0
        BY <1>10, <4>1
      <4> QED BY <4>2, FS_EmptySet
    <3>4. h \in ToSet(x.kept)
      BY <1>16, <3>3
    <3>5. PICK i \in DOMAIN hits, j \in DOMAIN hits : i < j /\ hits[i] = d /\ hits[j] = h
      BY <1>19 DEF Earlier
    <3>6. j < i /\ i \in Int /\ j \in Int
      BY <1>3, <1>6, <2>1, <3>4, <3>5 DEF RankLast
    <3> QED BY <3>5, <3>6
  <2>2. CASE d \in ToSet(x.cap)
    <3>1. Share(x.kept, d) >= FRAMEWORK_CAP
      BY <1>6, <2>2 DEF CapFull
    <3>2. Share(x.kept, d) <= Cardinality(OfItsFramework(ToSet(c.kept), d))
      BY <1>2, <1>16, ShareOfHits
    <3>3. Share(x.kept, d) \in Nat
      BY <1>2, ShareGrows
    <3>4. Cardinality(OfItsFramework(ToSet(c.kept), d)) \in Nat
      <4>1. OfItsFramework(ToSet(c.kept), d) \subseteq ToSet(c.kept)
        BY DEF OfItsFramework
      <4> QED BY <1>16, <4>1, FS_Subset, FS_CardinalityType
    <3> QED BY <3>1, <3>2, <3>3, <3>4, CutPolicyAssumption
  <2>3. d \in ToSet(x.rank) \/ d \in ToSet(x.cap)
    BY <1>13, <1>14
  <2> QED BY <2>1, <2>2, <2>3
<1> QED
  BY <1>2, <1>13, <1>14, <1>15, <1>18, <1>19 DEF c, F

(***************************************************************************)
(* What becomes of every hit the index is asked for                        *)
(***************************************************************************)
\* A search under a lens finds what a search without finds, if it passes.
LEMMA SearchFinds ==
    ASSUME NEW ranking \in Seq(IndexHit), OneEach(ranking), NEW limit \in Nat, NEW passing,
           NEW p \in DOMAIN ranking, p <= limit, ranking[p].control \in passing
    PROVE  ranking[p] \in ToSet(Search(ranking, limit, passing))
<1> DEFINE X == {h \in ToSet(ranking) : h.control \in passing}
           s == Only(ranking, X)
<1>1. s \in Seq(IndexHit) /\ OneEach(s)
  BY OnlyOneEach
<1>2. ranking[p] \in X
  BY DEF ToSet
<1> HIDE DEF X
<1>3. PICK n \in DOMAIN s : n <= p /\ s[n] = ranking[p]
  BY <1>2, OnlyInPlace
<1> HIDE DEF s
<1>4. n <= limit
  <2>1. DOMAIN s = 1..Len(s) /\ DOMAIN ranking = 1..Len(ranking)
        /\ Len(s) \in Nat /\ Len(ranking) \in Nat
    BY <1>1, LenProperties
  <2>2. n \in Int /\ p \in Int
    BY <2>1
  <2> QED BY <1>3, <2>2
<1>5. s[n] \in ToSet(Take(s, limit))
  BY <1>1, <1>4, TakeInPlace
<1>6. Search(ranking, limit, passing) = Take(s, limit)
  BY DEF Search, HitsOf, s, X
<1> QED
  BY <1>3, <1>5, <1>6

\* What a search finds is found in the order of the index.
LEMMA SearchInPlace ==
    ASSUME NEW ranking \in Seq(IndexHit), OneEach(ranking), NEW limit \in Nat, NEW passing
    PROVE  LET hits == Search(ranking, limit, passing)
           IN  \A g, h \in ToSet(hits) : Earlier(ranking, g, h) => Earlier(hits, g, h)
<1> DEFINE X == {h \in ToSet(ranking) : h.control \in passing}
           s == Only(ranking, X)
           t == Take(s, limit)
<1>1. s \in Seq(IndexHit) /\ OneEach(s)
      /\ \A g, h \in ToSet(s) : Earlier(ranking, g, h) => Earlier(s, g, h)
  BY OnlyOneEach, OnlyInPlace
<1>2. Search(ranking, limit, passing) = t
  BY DEF Search, HitsOf
<1> HIDE DEF s
<1>3. ToSet(t) \subseteq ToSet(s)
      /\ \A g, h \in ToSet(t) : Earlier(s, g, h) => Earlier(t, g, h)
  BY <1>1, TakeInPlace
<1> HIDE DEF t
<1> QED
  BY <1>1, <1>2, <1>3

\* A control the lens does not let through is set aside on some axis.
LEMMA MatchedOrSetAside ==
    ASSUME NEW lens, NEW mappings, NEW c, ~Matches(lens, mappings, c)
    PROVE  IsActive(lens) /\ ExcludedAxes(lens, mappings, c) # {}
<1> DEFINE mine == MappingTypesOf(mappings, c)
           sectors == Attributes[c].applies_to_sectors
<1>1. \/ lens.jurisdictions # {} /\ Attributes[c].jurisdiction \notin lens.jurisdictions
      \/ lens.frameworks # {} /\ Attributes[c].framework \notin lens.frameworks
      \/ lens.mapping_types # {} /\ mine \cap lens.mapping_types = {}
      \/ lens.sectors # {} /\ sectors # {} /\ sectors \cap lens.sectors = {}
  BY DEF Matches
<1>2. lens # NoLens
  <2>1. /\ NoLens.jurisdictions = {} /\ NoLens.frameworks = {}
        /\ NoLens.mapping_types = {} /\ NoLens.sectors = {}
    BY DEF NoLens
  <2> HIDE DEF mine, sectors
  <2> QED BY <1>1, <2>1
<1> HIDE DEF mine, sectors
<1>3. \/ "jurisdiction" \in ExcludedAxes(lens, mappings, c)
      \/ "zone" \in ExcludedAxes(lens, mappings, c)
      \/ "mapping_type" \in ExcludedAxes(lens, mappings, c)
      \/ "sector" \in ExcludedAxes(lens, mappings, c)
  BY <1>1 DEF ExcludedAxes, mine, sectors
<1> QED
  BY <1>2, <1>3 DEF IsActive

\* Everything asked for is shown, counted below the cut or set aside; the cut keeps as
\* many as its floor asks for and prefers the closer ones, but for full frameworks.
Accounted(ranking, f) ==
    LET asked == Take(ranking, RETRIEVAL_DEPTH + Len(f.catalog_control_ids))
        kept == ToSet(f.cut.kept)
        dropped == ToSet(f.cut.rank) \cup ToSet(f.cut.cap)
    IN  /\ f.cut.rank \in Seq(IndexHit) /\ f.cut.cap \in Seq(IndexHit)
        /\ kept \cup dropped \subseteq ToSet(ranking)
        /\ ToSet(asked) \subseteq ToSet(f.retrieved) \cup dropped \cup ToSet(f.set_aside)
        /\ Cardinality(kept) >= Min({TOP_K, Cardinality(kept \cup dropped)})
        /\ \A d \in dropped, h \in kept : Earlier(ranking, d, h) =>
              Cardinality(OfItsFramework(kept, d)) >= FRAMEWORK_CAP

\* Every hit asked for is shown, dropped by the cut, or set aside.
LEMMA RetrievedIsAccounted ==
    ASSUME NEW ranking \in Seq(IndexHit), OneEach(ranking), NEW mappings, NEW lens,
           NEW catalog \in Seq(Control), NEW gatedOut
    PROVE  Accounted(ranking, RetrieveCapability(ranking, mappings, lens, catalog, gatedOut))
<1> DEFINE limit == RETRIEVAL_DEPTH + Len(catalog)
           offered == ToSet(catalog)
           passing == {c \in Control : Matches(lens, mappings, c)}
           hits == Search(ranking, limit, passing)
           below == HitsOf(hits, Control \ offered)
           cut == ApplyCut(below)
           chosen == {h \in ToSet(hits) : h.control \in offered \/ h \in ToSet(cut.kept)}
           shown == Only(hits, chosen)
           out == {c \in Control : ExcludedAxes(lens, mappings, c) # {}}
           aside == IF IsActive(lens) THEN HitsOf(Search(ranking, limit, Control), out) ELSE << >>
           left == IF shown = << >> THEN NothingCut ELSE cut
           f == RetrieveCapability(ranking, mappings, lens, catalog, gatedOut)
<1>1. limit \in Nat
  BY LenProperties, CutPolicyAssumption
<1>2. /\ f.catalog_control_ids = catalog /\ f.retrieved = SinkGated(shown, gatedOut \ offered)
      /\ f.set_aside = aside /\ f.cut = left
  <2> HIDE DEF limit, offered, passing, below, cut, chosen, shown, aside
  <2> QED BY DEF RetrieveCapability, limit, offered, passing, hits, below, cut, chosen, shown, out, aside
<1> HIDE DEF limit, f, passing
<1>3. /\ hits \in Seq(IndexHit) /\ OneEach(hits)
      /\ \A g, h \in ToSet(hits) : Earlier(ranking, g, h) => Earlier(hits, g, h)
  BY <1>1, SearchAre, SearchInPlace
<1>4. ToSet(hits) \subseteq ToSet(ranking)
  <2> DEFINE s == HitsOf(ranking, passing)
  <2>1. s \in Seq(IndexHit) /\ OneEach(s) /\ ToSet(s) \subseteq ToSet(ranking)
    BY HitsAre
  <2>2. hits = Take(s, limit)
    BY DEF Search
  <2> HIDE DEF s, hits
  <2>3. ToSet(Take(s, limit)) \subseteq ToSet(s)
    BY <1>1, <2>1, TakeInPlace
  <2> QED BY <2>1, <2>2, <2>3
<1> HIDE DEF hits
<1>5. /\ below \in Seq(IndexHit) /\ OneEach(below)
      /\ ToSet(below) = {h \in ToSet(hits) : h.control \in Control \ offered}
      /\ \A g, h \in ToSet(below) : Earlier(hits, g, h) => Earlier(below, g, h)
  BY <1>3, HitsAre, OnlyInPlace DEF HitsOf
<1> HIDE DEF below, offered
<1>6. /\ cut.rank \in Seq(IndexHit) /\ cut.cap \in Seq(IndexHit)
      /\ ToSet(cut.kept) \cup ToSet(cut.rank) \cup ToSet(cut.cap) = ToSet(below)
      /\ Cardinality(ToSet(cut.kept)) \in Nat
      /\ Cardinality(ToSet(cut.kept)) >= Min({TOP_K, Len(below)})
      /\ \A d \in ToSet(cut.rank) \cup ToSet(cut.cap), h \in ToSet(cut.kept) :
            Earlier(below, d, h) =>
               Cardinality(OfItsFramework(ToSet(cut.kept), d)) >= FRAMEWORK_CAP
  BY <1>5, CutKeeps
<1>7. Cardinality(ToSet(below)) = Len(below) /\ Len(below) \in Nat
  BY <1>5, OneEachCount, LenProperties
<1> HIDE DEF cut
<1>8. shown \in Seq(IndexHit) /\ OneEach(shown) /\ ToSet(shown) = chosen
  <2>1. ToSet(shown) = ToSet(hits) \cap chosen
    BY <1>3, OnlySet
  <2>2. shown \in Seq(IndexHit) /\ OneEach(shown)
    BY <1>3, OnlyOneEach
  <2> QED BY <2>1, <2>2
<1> HIDE DEF shown
<1>9. ToSet(f.retrieved) = chosen
  BY <1>2, <1>8, SinkAre
<1>10. /\ left.rank \in Seq(IndexHit) /\ left.cap \in Seq(IndexHit)
       /\ ToSet(left.kept) = ToSet(cut.kept) /\ ToSet(left.rank) = ToSet(cut.rank)
       /\ ToSet(left.cap) = ToSet(cut.cap)
  <2>1. CASE shown = << >>
    <3>1. chosen = {}
      BY <1>8, <2>1 DEF ToSet
    <3>2. ToSet(cut.kept) = {}
      BY <1>5, <1>6, <3>1
    <3>3. Cardinality(ToSet(cut.kept)) = 0
      BY <3>2, FS_EmptySet
    <3>4. Len(below) = 0
      <4>1. Min({TOP_K, Len(below)}) = IF TOP_K <= Len(below) THEN TOP_K ELSE Len(below)
        BY <1>5, BandReachesTheFloor
      <4>2. TOP_K \in Nat \ {0}
        BY CutPolicyAssumption
      <4> DEFINE L == Len(below)
                 F == Min({TOP_K, Len(below)})
      <4>3. L \in Nat /\ F = (IF TOP_K <= L THEN TOP_K ELSE L) /\ 0 >= F
        BY <1>6, <1>7, <3>3, <4>1
      <4> HIDE DEF L, F
      <4>4. L = 0
        BY <4>2, <4>3
      <4> QED BY <4>4 DEF L
    <3>5. ToSet(below) = {}
      <4>1. DOMAIN below = 1..Len(below)
        BY <1>5, LenProperties
      <4> QED BY <3>4, <4>1 DEF ToSet
    <3>6. /\ ToSet(cut.kept) = {} /\ ToSet(cut.rank) = {} /\ ToSet(cut.cap) = {}
      BY <1>6, <3>5
    <3>7. << >> \in Seq(IndexHit) /\ ToSet(<< >>) = {}
      BY DEF ToSet
    <3>8. left.kept = << >> /\ left.rank = << >> /\ left.cap = << >>
      BY <2>1 DEF NothingCut
    <3> QED BY <3>6, <3>7, <3>8
  <2>2. CASE shown # << >>
    BY <1>6, <2>2
  <2> QED BY <2>1, <2>2
<1> HIDE DEF left
<1> DEFINE kept == ToSet(f.cut.kept)
           dropped == ToSet(f.cut.rank) \cup ToSet(f.cut.cap)
<1>11. kept = ToSet(cut.kept) /\ dropped = ToSet(cut.rank) \cup ToSet(cut.cap)
       /\ f.cut.rank \in Seq(IndexHit) /\ f.cut.cap \in Seq(IndexHit)
  BY <1>2, <1>10
<1> HIDE DEF kept, dropped
<1>12. kept \cup dropped = ToSet(below)
  BY <1>6, <1>11
<1>13. kept \cup dropped \subseteq ToSet(ranking)
  BY <1>4, <1>5, <1>12
<1>14. Cardinality(kept) >= Min({TOP_K, Cardinality(kept \cup dropped)})
  BY <1>6, <1>7, <1>11, <1>12
<1>15. ASSUME NEW d \in dropped, NEW h \in kept, Earlier(ranking, d, h)
       PROVE  Cardinality(OfItsFramework(kept, d)) >= FRAMEWORK_CAP
  <2>1. d \in ToSet(below) /\ h \in ToSet(below) /\ d \in ToSet(hits) /\ h \in ToSet(hits)
    BY <1>5, <1>12
  <2>2. Earlier(below, d, h)
    BY <1>3, <1>5, <1>15, <2>1
  <2> QED BY <1>6, <1>11, <2>2
<1>16. ToSet(Take(ranking, limit)) \subseteq ToSet(f.retrieved) \cup dropped \cup ToSet(f.set_aside)
  <2> SUFFICES ASSUME NEW h \in ToSet(Take(ranking, limit))
               PROVE  h \in ToSet(f.retrieved) \cup dropped \cup ToSet(f.set_aside)
    OBVIOUS
  <2>1. PICK p \in DOMAIN ranking : p <= limit /\ ranking[p] = h
    <3> DEFINE t == Take(ranking, limit)
    <3>1. /\ t \in Seq(IndexHit)
          /\ Len(t) = IF limit <= Len(ranking) THEN limit ELSE Len(ranking)
          /\ \A i \in 1..Len(t) : t[i] = ranking[i]
      BY <1>1, TakeKeeps
    <3> HIDE DEF t
    <3>2. DOMAIN t = 1..Len(t) /\ DOMAIN ranking = 1..Len(ranking) /\ Len(ranking) \in Nat
      BY <3>1, LenProperties
    <3>3. PICK i \in DOMAIN t : t[i] = h
      BY DEF t, ToSet
    <3>4. i \in DOMAIN ranking /\ i <= limit
      BY <1>1, <3>1, <3>2
    <3> QED BY <3>1, <3>2, <3>3, <3>4
  <2>2. h.control \in Control
    BY <2>1, HitsAreTyped
  <2>3. CASE h.control \in passing
    <3>1. h \in ToSet(hits)
      BY <1>1, <2>1, <2>3, SearchFinds DEF hits
    <3>2. CASE h.control \in offered
      BY <1>9, <3>1, <3>2
    <3>3. CASE h.control \notin offered
      <4>1. h \in ToSet(below)
        BY <1>5, <2>2, <3>1, <3>3
      <4>2. h \in kept => h \in chosen
        BY <1>11, <3>1
      <4> QED BY <1>9, <1>12, <4>1, <4>2
    <3> QED BY <3>2, <3>3
  <2>4. CASE h.control \notin passing
    <3>1. IsActive(lens) /\ h.control \in out
      BY <2>2, <2>4, MatchedOrSetAside DEF passing
    <3> DEFINE all == Search(ranking, limit, Control)
    <3>2. h \in ToSet(all)
      BY <1>1, <2>1, <2>2, SearchFinds
    <3>3. all \in Seq(IndexHit) /\ OneEach(all)
      BY <1>1, SearchAre
    <3>4. aside = HitsOf(all, out)
      BY <3>1
    <3> HIDE DEF all, out, aside
    <3>5. h \in ToSet(aside)
      BY <3>1, <3>2, <3>3, <3>4, HitsAre
    <3> QED BY <1>2, <3>5
  <2> QED BY <2>3, <2>4
<1>17. Take(ranking, RETRIEVAL_DEPTH + Len(f.catalog_control_ids)) = Take(ranking, limit)
  BY <1>2 DEF limit
<1>18. Accounted(ranking, f)
  BY <1>11, <1>13, <1>14, <1>15, <1>16, <1>17 DEF Accounted, kept, dropped
<1> QED
  BY <1>18 DEF f

\* So it is for every capability of every zone of a request.
LEMMA PassedIsAccounted ==
    ASSUME NEW ask \in AskedCandidates, NEW i \in DOMAIN Core(ask), NEW k \in Capability
    PROVE  /\ ask.ranking[k] \in Seq(IndexHit) /\ OneEach(ask.ranking[k])
           /\ Accounted(ask.ranking[k], Passed(ask)[i][k])
<1> DEFINE core == Core(ask)[i]
           lens == ApplicabilityLens(core.zone, ask.lens)
           catalog == Presented(core.resolved[k], core.zone)
<1>1. Passed(ask)[i] = RetrieveZone(ask, core)
  BY DEF Passed
<1>2. Passed(ask)[i][k] = RetrieveCapability(ask.ranking[k], ask.mappings, lens, catalog,
                                             ZoneGatedControls(core.gated))
  BY <1>1 DEF RetrieveZone
<1>3. catalog \in Seq(Control)
  BY CatalogOfCapability
<1>4. ask.ranking[k] \in Seq(IndexHit) /\ OneEach(ask.ranking[k])
  <2>1. ask.ranking \in [Capability -> {s \in Seq(IndexHit) :
                            \A m, j \in DOMAIN s : s[m].control = s[j].control => m = j}]
    BY DEF AskedCandidates
  <2> QED BY <2>1 DEF OneEach
<1> HIDE DEF lens, catalog, core
<1> QED
  BY <1>2, <1>3, <1>4, RetrievedIsAccounted

\* What it says of retrievals.
LEMMA VanishesInTheState ==
    ASSUME DataInv
    PROVE  NothingVanishes
<1> SUFFICES ASSUME NEW r \in Request, NEW i \in DOMAIN run[r], stage[r] = "widened",
                    NEW k \in Capability
             PROVE  LET found == retrieved[r][i][k]
                        limit == RETRIEVAL_DEPTH + Len(found.catalog_control_ids)
                        asked == Take(asks[r].ranking[k], limit)
                        kept == ToSet(found.cut.kept)
                        dropped == ToSet(found.cut.rank \o found.cut.cap)
                        rank(h) == CHOOSE j \in DOMAIN asks[r].ranking[k] : asks[r].ranking[k][j] = h
                        ofFramework(f) == {h \in kept : Attributes[h.control].framework = f}
                    IN  /\ ToSet(asked) \subseteq
                              ToSet(found.retrieved) \cup dropped \cup ToSet(found.set_aside)
                        /\ Cardinality(kept) >= Min({TOP_K, Cardinality(kept \cup dropped)})
                        /\ \A d \in dropped, h \in kept : rank(d) < rank(h) =>
                              Cardinality(ofFramework(Attributes[d.control].framework))
                                 >= FRAMEWORK_CAP
  BY DEF NothingVanishes
<1> DEFINE found == retrieved[r][i][k]
           ranking == asks[r].ranking[k]
           asked == Take(ranking, RETRIEVAL_DEPTH + Len(found.catalog_control_ids))
           kept == ToSet(found.cut.kept)
           dropped == ToSet(found.cut.rank \o found.cut.cap)
           rank(h) == CHOOSE j \in DOMAIN ranking : ranking[j] = h
           ofFramework(f) == {h \in kept : Attributes[h.control].framework = f}
<1>1. RequestInv(r)
  BY DEF DataInv
<1>2. Is(r, "candidates") /\ asks[r] \in AskedCandidates
  <2>1. stage[r] \in Computed \ {"verifying", "asking"}
    BY DEF Computed, Writing
  <2>2. Is(r, "candidates") /\ asks[r] \in Asked
    BY <1>1, <2>1 DEF RequestInv, AskedOf
  <2> QED BY <2>2 DEF Asked, AskedDelta, AskedParse, Is
<1>3. run[r] = Core(asks[r]) /\ retrieved[r] = Passed(asks[r])
  BY <1>1, <1>2 DEF RequestInv, RunOf, RetrievedOf, Computed
<1>4. ranking \in Seq(IndexHit) /\ OneEach(ranking) /\ Accounted(ranking, found)
  <2>1. i \in DOMAIN Core(asks[r])
    BY <1>3
  <2>2. asks[r].ranking[k] \in Seq(IndexHit) /\ OneEach(asks[r].ranking[k])
        /\ Accounted(asks[r].ranking[k], Passed(asks[r])[i][k])
    BY <1>2, <2>1, PassedIsAccounted
  <2> QED BY <1>3, <2>2
<1> HIDE DEF found, ranking
<1>5. /\ found.cut.rank \in Seq(IndexHit) /\ found.cut.cap \in Seq(IndexHit)
      /\ kept \cup (ToSet(found.cut.rank) \cup ToSet(found.cut.cap)) \subseteq ToSet(ranking)
      /\ ToSet(asked) \subseteq ToSet(found.retrieved)
            \cup (ToSet(found.cut.rank) \cup ToSet(found.cut.cap)) \cup ToSet(found.set_aside)
      /\ Cardinality(kept) >=
            Min({TOP_K, Cardinality(kept \cup (ToSet(found.cut.rank) \cup ToSet(found.cut.cap)))})
      /\ \A d \in ToSet(found.cut.rank) \cup ToSet(found.cut.cap), h \in kept :
            Earlier(ranking, d, h) => Cardinality(OfItsFramework(kept, d)) >= FRAMEWORK_CAP
  BY <1>4 DEF Accounted
<1>6. dropped = ToSet(found.cut.rank) \cup ToSet(found.cut.cap)
  BY <1>5, OneAfterTheOther
<1> HIDE DEF kept, dropped, asked
<1>7. ASSUME NEW d \in dropped, NEW h \in kept, rank(d) < rank(h)
      PROVE  Cardinality(ofFramework(Attributes[d.control].framework)) >= FRAMEWORK_CAP
  <2>1. d \in ToSet(ranking) /\ h \in ToSet(ranking)
    BY <1>5, <1>6
  <2>2. /\ rank(d) \in DOMAIN ranking /\ ranking[rank(d)] = d
        /\ rank(h) \in DOMAIN ranking /\ ranking[rank(h)] = h
    BY <2>1 DEF ToSet
  <2> HIDE DEF rank
  <2>3. Earlier(ranking, d, h)
    BY <1>7, <2>2 DEF Earlier
  <2>4. ofFramework(Attributes[d.control].framework) = OfItsFramework(kept, d)
    BY DEF OfItsFramework
  <2> QED BY <1>5, <1>6, <2>3, <2>4
<1>8. Cardinality(kept) >= Min({TOP_K, Cardinality(kept \cup dropped)})
      /\ ToSet(asked) \subseteq ToSet(found.retrieved) \cup dropped \cup ToSet(found.set_aside)
  BY <1>5, <1>6
<1> QED
  BY <1>7, <1>8 DEF kept, dropped, asked, found, ranking

\* Whatever a lens sets aside and the cut leaves out, every control the index was asked
\* for is accounted for; the cut meets its floor, and keeps no control over a closer one
\* but for a framework that has its share (retrieval/service.py, retrieval/cut.py).
THEOREM NothingIsLostByTheRetrieval == Spec => []NothingVanishes
BY DataInitially, DataStep, VanishesInTheState, PTL DEF Spec

(***************************************************************************)
(* The order of the capabilities                                           *)
(***************************************************************************)
\* Induction along the prerequisites.
LEMMA ByPrerequisites ==
    ASSUME NEW rules \in PrioritizationRules, Acyclic(rules), NEW T,
           \A k \in Capability : rules.requires[k] \subseteq T => k \in T
    PROVE  Capability \subseteq T
<1> SUFFICES ASSUME Capability \ T # {} PROVE FALSE
  OBVIOUS
<1>1. PICK k \in Capability \ T : rules.requires[k] \cap (Capability \ T) = {}
  <2>1. Capability \ T \in (SUBSET Capability) \ {{}}
    OBVIOUS
  <2> QED BY <2>1 DEF Acyclic
<1>2. rules.requires[k] \subseteq Capability
  BY DEF PrioritizationRules
<1> QED
  BY <1>1, <1>2

Prerequisites(rules, k) == Ascending(rules.requires[k])

\* They are capabilities, and all of them are listed.
LEMMA PrerequisitesListed ==
    ASSUME NEW rules \in PrioritizationRules, NEW k \in Capability
    PROVE  /\ Prerequisites(rules, k) \in Seq(Capability)
           /\ ToSet(Prerequisites(rules, k)) = rules.requires[k]
           /\ rules.requires[k] \subseteq Capability
<1> DEFINE S == rules.requires[k]
           s == Ascending(S)
<1>1. S \subseteq Capability
  BY DEF PrioritizationRules
<1>2. IsFiniteSet(S) /\ S \subseteq Int
  <2>1. S \in SUBSET Capability
    BY <1>1
  <2> HIDE DEF S
  <2>2. IsFiniteSet(S)
    BY <2>1, FiniteCatalogAssumption, FS_Subset
  <2> QED BY <2>1, <2>2, CapabilityAssumption
<1> HIDE DEF S
<1>3. /\ Cardinality(S) \in Nat
      /\ s \in [1..Cardinality(S) -> S]
      /\ \A c \in S : \E i \in 1..Cardinality(S) : s[i] = c
  BY <1>2, AscendingLists
<1> HIDE DEF s
<1>4. s \in [1..Cardinality(S) -> Capability]
  BY <1>1, <1>3
<1>5. s \in Seq(Capability)
  BY <1>3, <1>4, SeqDef
<1>6. ToSet(s) = S
  BY <1>3 DEF ToSet
<1> QED
  BY <1>1, <1>5, <1>6 DEF Prerequisites, s, S

\* One visit after another.
CapabilityOrder == Seq(Capability)
TurnsBy(d, v, s, order) ==
    /\ d \in [0..Len(s) -> CapabilityOrder]
    /\ d[0] = order
    /\ \A n \in 1..Len(s) : d[n] = v[s[n]][d[n - 1]]
    /\ InTurn(v, s, order) = d[Len(s)]

\* There is such a d.
LEMMA TurnsStepwise ==
    ASSUME NEW v, NEW s \in Seq(Capability), NEW order \in CapabilityOrder,
           \A p \in ToSet(s) : v[p] \in [CapabilityOrder -> CapabilityOrder]
    PROVE  \E d : TurnsBy(d, v, s, order)
<1> DEFINE L == Len(s)
           d == CHOOSE g : g = [n \in 0..L |-> IF n = 0 THEN order ELSE v[s[n]][g[n - 1]]]
<1>1. L \in Nat /\ \A n \in 1..L : s[n] \in ToSet(s)
  <2>1. L \in Nat /\ DOMAIN s = 1..L
    BY LenProperties
  <2> QED BY <2>1 DEF ToSet
<1>2. InTurn(v, s, order) = d[L]
  BY DEF InTurn
<1>3. \A n \in 1..L, x \in CapabilityOrder : v[s[n]][x] \in CapabilityOrder
  BY <1>1
<1>4. \E g : /\ g \in [0..L -> CapabilityOrder]
             /\ g = [n \in 0..L |-> IF n = 0 THEN order ELSE v[s[n]][g[n - 1]]]
  <2> DEFINE next == [p \in (1..L) \X CapabilityOrder |-> v[s[p[1]]][p[2]]]
  <2>1. next \in [(1..L) \X CapabilityOrder -> CapabilityOrder]
    <3> HIDE DEF L
    <3>1. \A p \in (1..L) \X CapabilityOrder : v[s[p[1]]][p[2]] \in CapabilityOrder
      BY <1>3
    <3> QED BY <3>1
  <2>2. \A n \in 1..L, x \in CapabilityOrder : next[<<n, x>>] = v[s[n]][x]
    OBVIOUS
  <2> HIDE DEF next, L, d
  <2>3. PICK g : Walks(L, CapabilityOrder, order, next, g)
    BY <1>1, <2>1, StepByStep DEF Stepping
  <2>4. g \in [0..L -> CapabilityOrder] /\ g[0] = order /\ \A n \in 1..L : g[n] = next[<<n, g[n - 1]>>]
    BY <2>3 DEF Walks
  <2>5. ASSUME NEW n \in 1..L PROVE g[n] = v[s[n]][g[n - 1]]
    <3>1. n - 1 \in 0..L
      BY <1>1
    <3> QED BY <2>2, <2>4, <3>1
  <2>6. g = [n \in 0..L |-> IF n = 0 THEN order ELSE v[s[n]][g[n - 1]]]
    BY <1>1, <2>4, <2>5
  <2> QED
    BY <2>4, <2>6
<1>5. d = [n \in 0..L |-> IF n = 0 THEN order ELSE v[s[n]][d[n - 1]]]
  BY <1>4
<1> HIDE DEF d, L
<1>6. d[0] = order /\ \A n \in 1..L : d[n] = v[s[n]][d[n - 1]]
  BY <1>1, <1>5
<1>7. \A n \in 0..L : d[n] \in CapabilityOrder
  <2> DEFINE T == {n \in 0..L : d[n] \in CapabilityOrder}
  <2>1. 0 \in T
    BY <1>1, <1>6
  <2>2. \A n \in 1..L : n - 1 \in T => n \in T
    <3> SUFFICES ASSUME NEW n \in 1..L, d[n - 1] \in CapabilityOrder
                 PROVE  d[n] \in CapabilityOrder
      BY <1>1
    <3> QED BY <1>3, <1>6
  <2> HIDE DEF T
  <2>3. \A n \in 0..L : n \in T
    BY <1>1, <2>1, <2>2, Upward
  <2> QED BY <2>3 DEF T
<1>8. d \in [0..L -> CapabilityOrder]
  BY <1>5, <1>7
<1> QED
  BY <1>2, <1>6, <1>8 DEF L, TurnsBy

\* It depends on the visits made alone.
LEMMA TurnsAlike ==
    ASSUME NEW v, NEW w, NEW s \in Seq(Capability), NEW order \in CapabilityOrder,
           \A p \in ToSet(s) : v[p] \in [CapabilityOrder -> CapabilityOrder] /\ w[p] = v[p]
    PROVE  InTurn(w, s, order) = InTurn(v, s, order)
<1> DEFINE L == Len(s)
<1>1. L \in Nat /\ \A n \in 1..L : s[n] \in ToSet(s)
  <2>1. L \in Nat /\ DOMAIN s = 1..L
    BY LenProperties
  <2> QED BY <2>1 DEF ToSet
<1>2. PICK d : TurnsBy(d, v, s, order)
  BY TurnsStepwise
<1>3. PICK e : TurnsBy(e, w, s, order)
  <2>1. \A p \in ToSet(s) : w[p] \in [CapabilityOrder -> CapabilityOrder]
    OBVIOUS
  <2> QED BY <2>1, TurnsStepwise
<1> DEFINE T == {n \in 0..L : d[n] = e[n]}
<1>4. 0 \in T
  BY <1>1, <1>2, <1>3 DEF TurnsBy
<1>5. \A n \in 1..L : n - 1 \in T => n \in T
  <2> SUFFICES ASSUME NEW n \in 1..L, d[n - 1] = e[n - 1] PROVE d[n] = e[n]
    BY <1>1
  <2>1. d[n] = v[s[n]][d[n - 1]] /\ e[n] = w[s[n]][e[n - 1]]
    BY <1>2, <1>3 DEF TurnsBy
  <2>2. w[s[n]] = v[s[n]]
    BY <1>1
  <2> QED BY <2>1, <2>2
<1> HIDE DEF T, L
<1>6. \A n \in 0..L : n \in T
  BY <1>1, <1>4, <1>5, Upward
<1>7. d[L] = e[L]
  BY <1>1, <1>6 DEF T
<1> QED
  BY <1>2, <1>3, <1>7 DEF TurnsBy, L

\* A visit of k: the rest of the order is as in TopologicalOrder.
Visited(v, rules, k, order) ==
    IF k \in ToSet(order) THEN order
    ELSE Append(InTurn(v, Prerequisites(rules, k), order), k)

\* It goes from orders to orders as the visits it makes do.
LEMMA VisitedTyped ==
    ASSUME NEW rules \in PrioritizationRules, NEW k \in Capability, NEW v, NEW order \in CapabilityOrder,
           \A p \in rules.requires[k] : v[p] \in [CapabilityOrder -> CapabilityOrder]
    PROVE  Visited(v, rules, k, order) \in CapabilityOrder
<1> DEFINE s == Prerequisites(rules, k)
<1>1. s \in Seq(Capability) /\ ToSet(s) = rules.requires[k]
  BY PrerequisitesListed
<1> HIDE DEF s
<1>2. PICK d : TurnsBy(d, v, s, order)
  BY <1>1, TurnsStepwise
<1>3. InTurn(v, s, order) \in Seq(Capability)
  BY <1>1, <1>2, LenProperties DEF TurnsBy, CapabilityOrder
<1>4. Append(InTurn(v, s, order), k) \in Seq(Capability)
  BY <1>3, AppendProperties
<1> QED
  BY <1>4 DEF Visited, CapabilityOrder, s

\* The visits of the capabilities of a set that has all they require.
Visits(v, rules, S) ==
    /\ S \subseteq Capability
    /\ v \in [S -> [CapabilityOrder -> CapabilityOrder]]
    /\ \A k \in S : /\ rules.requires[k] \subseteq S
                    /\ \A order \in CapabilityOrder : v[k][order] = Visited(v, rules, k, order)

\* Another capability can be added as soon as all it requires is there.
LEMMA VisitsGrow ==
    ASSUME NEW rules \in PrioritizationRules, NEW v, NEW S, Visits(v, rules, S),
           NEW k \in Capability \ S, rules.requires[k] \subseteq S
    PROVE  \E w : Visits(w, rules, S \cup {k})
<1> DEFINE visited == [order \in CapabilityOrder |-> Visited(v, rules, k, order)]
           w == [j \in S \cup {k} |-> IF j = k THEN visited ELSE v[j]]
<1>1. /\ S \subseteq Capability
      /\ v \in [S -> [CapabilityOrder -> CapabilityOrder]]
      /\ \A j \in S : /\ rules.requires[j] \subseteq S
                      /\ \A order \in CapabilityOrder : v[j][order] = Visited(v, rules, j, order)
  BY DEF Visits
<1>2. visited \in [CapabilityOrder -> CapabilityOrder]
  <2>1. \A order \in CapabilityOrder : Visited(v, rules, k, order) \in CapabilityOrder
    BY <1>1, VisitedTyped
  <2> QED BY <2>1
<1>3. \A order \in CapabilityOrder : visited[order] = Visited(v, rules, k, order)
  OBVIOUS
<1> HIDE DEF visited
<1>4. w \in [S \cup {k} -> [CapabilityOrder -> CapabilityOrder]]
  BY <1>1, <1>2
<1>5. w[k] = visited /\ \A j \in S : w[j] = v[j]
  OBVIOUS
<1> HIDE DEF w
<1>6. ASSUME NEW j \in S \cup {k}, NEW order \in CapabilityOrder
      PROVE  Visited(w, rules, j, order) = Visited(v, rules, j, order)
  <2>1. rules.requires[j] \subseteq S /\ j \in Capability
    BY <1>1
  <2> DEFINE s == Prerequisites(rules, j)
  <2>2. s \in Seq(Capability) /\ ToSet(s) = rules.requires[j]
    BY <2>1, PrerequisitesListed
  <2> HIDE DEF s
  <2>3. \A p \in ToSet(s) : v[p] \in [CapabilityOrder -> CapabilityOrder] /\ w[p] = v[p]
    BY <1>1, <1>5, <2>1, <2>2
  <2>4. InTurn(w, s, order) = InTurn(v, s, order)
    BY <2>2, <2>3, TurnsAlike
  <2> QED BY <2>4 DEF Visited, s
<1>7. ASSUME NEW j \in S \cup {k}
      PROVE  /\ rules.requires[j] \subseteq S \cup {k}
             /\ \A order \in CapabilityOrder : w[j][order] = Visited(w, rules, j, order)
  <2>1. CASE j = k
    BY <1>3, <1>5, <1>6, <2>1
  <2>2. CASE j # k
    BY <1>1, <1>5, <1>6, <2>2
  <2> QED BY <2>1, <2>2
<1>8. S \cup {k} \subseteq Capability
  BY <1>1
<1> QED
  BY <1>4, <1>7, <1>8 DEF Visits

\* So there are visits of all of them.
LEMMA AllVisits ==
    ASSUME NEW rules \in PrioritizationRules, Acyclic(rules)
    PROVE  \E v : Visits(v, rules, Capability)
<1> DEFINE N == Cardinality(Capability)
           Reached(n) == \E S \in SUBSET Capability : Cardinality(S) = n /\ \E v : Visits(v, rules, S)
           T == {n \in 0..N : Reached(n)}
<1>1. N \in Nat /\ IsFiniteSet(Capability)
  BY FiniteCatalogAssumption, FS_CardinalityType
<1>2. \A S \in SUBSET Capability :
         IsFiniteSet(S) /\ Cardinality(S) \in 0..N /\ (Cardinality(S) = N => S = Capability)
  <2> SUFFICES ASSUME NEW S \in SUBSET Capability
               PROVE  IsFiniteSet(S) /\ Cardinality(S) \in 0..N /\ (Cardinality(S) = N => S = Capability)
    OBVIOUS
  <2>1. IsFiniteSet(S) /\ Cardinality(S) \in Nat
    BY <1>1, FS_Subset, FS_CardinalityType
  <2>2. Cardinality(S) <= N /\ (Cardinality(S) = N => S = Capability)
    BY <1>1, FS_Subset
  <2> QED BY <1>1, <2>1, <2>2
<1>3. T # {}
  <2> DEFINE none == [j \in {} |-> [order \in CapabilityOrder |-> order]]
  <2>1. Visits(none, rules, {})
    BY DEF Visits
  <2>2. Reached(0)
    <3>1. Cardinality({}) = 0
      BY FS_EmptySet
    <3> QED BY <2>1, <3>1
  <2> HIDE DEF Reached
  <2> QED BY <1>1, <2>2
<1>4. T \subseteq 0..N
  OBVIOUS
<1> DEFINE m == Max(T)
<1>5. m \in T /\ \A n \in T : m >= n
  <2> HIDE DEF T
  <2> QED BY <1>1, <1>3, <1>4, GreatestOne
<1> HIDE DEF m
<1>6. PICK S \in SUBSET Capability : Cardinality(S) = m /\ \E v : Visits(v, rules, S)
  BY <1>5
<1>7. PICK v : Visits(v, rules, S)
  BY <1>6
<1>8. ASSUME S # Capability PROVE FALSE
  <2>1. Capability \ S \in (SUBSET Capability) \ {{}}
    BY <1>8
  <2>2. PICK k \in Capability \ S : rules.requires[k] \cap (Capability \ S) = {}
    BY <2>1 DEF Acyclic
  <2>3. rules.requires[k] \subseteq S
    BY <2>2 DEF PrioritizationRules
  <2>4. \E w : Visits(w, rules, S \cup {k})
    BY <1>7, <2>3, VisitsGrow
  <2>5. S \cup {k} \in SUBSET Capability
    OBVIOUS
  <2>6. Cardinality(S \cup {k}) = m + 1
    BY <1>2, <1>6, FS_AddElement
  <2>7. Reached(m + 1)
    BY <2>4, <2>5, <2>6
  <2>8. m + 1 \in T
    <3>1. m + 1 \in 0..N
      BY <1>2, <2>5, <2>6
    <3> HIDE DEF Reached
    <3> QED BY <2>7, <3>1
  <2>9. m \in Nat
    BY <1>4, <1>5
  <2> HIDE DEF T
  <2> QED BY <1>5, <2>8, <2>9
<1> QED
  BY <1>7, <1>8

\* What the depth-first search visits, and how.
LEMMA TopologicalVisits ==
    ASSUME NEW rules \in PrioritizationRules, Acyclic(rules)
    PROVE  \E v : /\ Visits(v, rules, Capability)
                  /\ TopologicalOrder(rules) = InTurn(v, Ascending(Capability), << >>)
<1> DEFINE Defined(v) == v = [k \in Capability |-> [order \in Seq(Capability) |->
                IF k \in ToSet(order) THEN order
                ELSE Append(InTurn(v, Ascending(rules.requires[k]), order), k)]]
           v == CHOOSE v : Defined(v)
<1>1. TopologicalOrder(rules) = InTurn(v, Ascending(Capability), << >>)
  BY DEF TopologicalOrder
<1>2. PICK u : Visits(u, rules, Capability)
  BY AllVisits
<1>3. u = [k \in Capability |-> [order \in CapabilityOrder |-> Visited(u, rules, k, order)]]
  <2>1. u \in [Capability -> [CapabilityOrder -> CapabilityOrder]]
    BY <1>2 DEF Visits
  <2>2. \A k \in Capability : u[k] = [order \in CapabilityOrder |-> Visited(u, rules, k, order)]
    <3> SUFFICES ASSUME NEW k \in Capability
                 PROVE  u[k] = [order \in CapabilityOrder |-> Visited(u, rules, k, order)]
      OBVIOUS
    <3>1. u[k] \in [CapabilityOrder -> CapabilityOrder]
      BY <2>1
    <3>2. \A order \in CapabilityOrder : u[k][order] = Visited(u, rules, k, order)
      BY <1>2 DEF Visits
    <3> QED BY <3>1, <3>2
  <2> QED BY <2>1, <2>2
<1>4. Defined(u)
  BY <1>3 DEF Visited, Prerequisites, CapabilityOrder
<1>5. Defined(v)
  <2> HIDE DEF Defined
  <2> QED BY <1>4
<1> HIDE DEF v
<1>6. v = [k \in Capability |-> [order \in CapabilityOrder |-> Visited(v, rules, k, order)]]
  BY <1>5 DEF Visited, Prerequisites, CapabilityOrder
<1>7. \A k \in Capability, order \in CapabilityOrder : v[k][order] = Visited(v, rules, k, order)
  BY <1>6
<1>8. \A k \in Capability : v[k] \in [CapabilityOrder -> CapabilityOrder]
  <2> DEFINE T == {k \in Capability : v[k] \in [CapabilityOrder -> CapabilityOrder]}
  <2>1. ASSUME NEW k \in Capability, rules.requires[k] \subseteq T PROVE k \in T
    <3>1. \A order \in CapabilityOrder : Visited(v, rules, k, order) \in CapabilityOrder
      BY <2>1, VisitedTyped
    <3>2. v[k] = [order \in CapabilityOrder |-> Visited(v, rules, k, order)]
      BY <1>6
    <3> QED BY <3>1, <3>2
  <2> HIDE DEF T
  <2>2. Capability \subseteq T
    BY <2>1, ByPrerequisites
  <2> QED BY <2>2 DEF T
<1>9. v \in [Capability -> [CapabilityOrder -> CapabilityOrder]]
  BY <1>6, <1>8
<1>10. \A k \in Capability : rules.requires[k] \subseteq Capability
  BY DEF PrioritizationRules
<1> QED
  BY <1>1, <1>7, <1>9, <1>10 DEF Visits

\* An order in which everything stands after what it requires.
Upfront(o, i) == {o[j] : j \in 1..(i - 1)}
Enabling(rules, o) ==
    /\ o \in CapabilityOrder
    /\ \A i \in DOMAIN o : rules.requires[o[i]] \subseteq Upfront(o, i)

\* A capability goes to the end of such an order once what it requires is there.
LEMMA EnabledAtTheEnd ==
    ASSUME NEW rules \in PrioritizationRules, NEW k \in Capability, NEW o, Enabling(rules, o),
           rules.requires[k] \subseteq ToSet(o)
    PROVE  /\ Enabling(rules, Append(o, k))
           /\ ToSet(Append(o, k)) = ToSet(o) \cup {k}
<1> DEFINE q == Append(o, k)
           L == Len(o)
<1>1. o \in Seq(Capability) /\ L \in Nat /\ DOMAIN o = 1..L
  BY LenProperties DEF Enabling, CapabilityOrder
<1>2. /\ q \in Seq(Capability) /\ Len(q) = L + 1 /\ DOMAIN q = 1..(L + 1)
      /\ \A i \in 1..L : q[i] = o[i]
      /\ q[L + 1] = k
  BY <1>1, AppendProperties, LenProperties
<1>3. \A i \in 1..L : rules.requires[o[i]] \subseteq Upfront(o, i)
  BY <1>1 DEF Enabling
<1> HIDE DEF q, L
<1>4. ToSet(o) = {o[i] : i \in 1..L}
  BY <1>1 DEF ToSet
<1>5. ToSet(q) = {q[i] : i \in 1..(L + 1)}
  BY <1>2 DEF ToSet
<1>6. ASSUME NEW i \in 1..(L + 1) PROVE rules.requires[q[i]] \subseteq Upfront(q, i)
  <2>1. CASE i = L + 1
    <3>1. rules.requires[q[i]] \subseteq {o[j] : j \in 1..L}
      BY <1>2, <1>4, <2>1
    <3>2. {o[j] : j \in 1..L} \subseteq {q[j] : j \in 1..L}
      BY <1>2
    <3>3. i - 1 = L
      BY <1>1, <2>1
    <3> QED BY <3>1, <3>2, <3>3 DEF Upfront
  <2>2. CASE i \in 1..L
    <3>1. \A j \in 1..(i - 1) : q[j] = o[j]
      BY <1>1, <1>2, <2>2
    <3>2. Upfront(q, i) = Upfront(o, i)
      BY <3>1 DEF Upfront
    <3> QED BY <1>2, <1>3, <2>2, <3>2
  <2> QED BY <1>1, <2>1, <2>2
<1>7. ToSet(q) = ToSet(o) \cup {k}
  <2>1. 1..(L + 1) = 1..L \cup {L + 1}
    BY <1>1
  <2> QED BY <1>2, <1>4, <1>5, <2>1
<1> QED
  BY <1>2, <1>6, <1>7 DEF Enabling, CapabilityOrder, q

\* Visits one after the other make one order longer.
LEMMA TurnsReach ==
    ASSUME NEW rules \in PrioritizationRules, NEW v, NEW s \in Seq(Capability), NEW order,
           Enabling(rules, order),
           \A p \in ToSet(s) :
              /\ v[p] \in [CapabilityOrder -> CapabilityOrder]
              /\ \A x : Enabling(rules, x) => /\ Enabling(rules, v[p][x])
                                              /\ ToSet(x) \cup {p} \subseteq ToSet(v[p][x])
    PROVE  /\ Enabling(rules, InTurn(v, s, order))
           /\ ToSet(order) \cup ToSet(s) \subseteq ToSet(InTurn(v, s, order))
<1> DEFINE L == Len(s)
<1>1. L \in Nat /\ (\A n \in 1..L : s[n] \in ToSet(s)) /\ DOMAIN s = 1..L
  <2>1. L \in Nat /\ DOMAIN s = 1..L
    BY LenProperties
  <2> QED BY <2>1 DEF ToSet
<1>2. order \in CapabilityOrder
  BY DEF Enabling
<1>3. PICK d : TurnsBy(d, v, s, order)
  BY <1>2, TurnsStepwise
<1>4. d[0] = order /\ (\A n \in 1..L : d[n] = v[s[n]][d[n - 1]]) /\ InTurn(v, s, order) = d[L]
  BY <1>3 DEF TurnsBy
<1> DEFINE T == {n \in 0..L : /\ Enabling(rules, d[n])
                              /\ ToSet(order) \subseteq ToSet(d[n])
                              /\ \A m \in 1..n : s[m] \in ToSet(d[n])}
<1> HIDE DEF L
<1>5. 0 \in T
  BY <1>1, <1>4
<1>6. ASSUME NEW n \in 1..L, n - 1 \in T PROVE n \in T
  <2>1. /\ Enabling(rules, d[n - 1])
        /\ ToSet(order) \subseteq ToSet(d[n - 1])
        /\ \A m \in 1..(n - 1) : s[m] \in ToSet(d[n - 1])
    BY <1>6
  <2>2. s[n] \in ToSet(s) /\ d[n] = v[s[n]][d[n - 1]]
    BY <1>1, <1>4
  <2>3. Enabling(rules, d[n]) /\ ToSet(d[n - 1]) \cup {s[n]} \subseteq ToSet(d[n])
    BY <2>1, <2>2
  <2>4. \A m \in 1..n : m = n \/ m \in 1..(n - 1)
    BY <1>1
  <2>5. \A m \in 1..n : s[m] \in ToSet(d[n])
    BY <2>1, <2>3, <2>4
  <2>6. n \in 0..L
    BY <1>1
  <2> QED BY <2>1, <2>3, <2>5, <2>6
<1> HIDE DEF T
<1>7. \A n \in 0..L : n \in T
  BY <1>1, <1>5, <1>6, Upward
<1>8. L \in T
  BY <1>1, <1>7
<1>9. /\ Enabling(rules, d[L])
      /\ ToSet(order) \subseteq ToSet(d[L])
      /\ \A m \in 1..L : s[m] \in ToSet(d[L])
  BY <1>8 DEF T
<1>10. ToSet(s) \subseteq ToSet(d[L])
  BY <1>1, <1>9 DEF ToSet
<1> QED
  BY <1>4, <1>9, <1>10

\* So does every visit, which puts the capability there.
LEMMA VisitReaches ==
    ASSUME NEW rules \in PrioritizationRules, Acyclic(rules), NEW v, Visits(v, rules, Capability)
    PROVE  \A k \in Capability : \A x : Enabling(rules, x) =>
              Enabling(rules, v[k][x]) /\ ToSet(x) \cup {k} \subseteq ToSet(v[k][x])
<1> DEFINE T == {k \in Capability : \A x \in CapabilityOrder : Enabling(rules, x) =>
                    Enabling(rules, v[k][x]) /\ ToSet(x) \cup {k} \subseteq ToSet(v[k][x])}
<1>1. ASSUME NEW k \in Capability, rules.requires[k] \subseteq T PROVE k \in T
  <2> SUFFICES ASSUME NEW x \in CapabilityOrder, Enabling(rules, x)
               PROVE  Enabling(rules, v[k][x]) /\ ToSet(x) \cup {k} \subseteq ToSet(v[k][x])
    OBVIOUS
  <2>1. v[k][x] = Visited(v, rules, k, x)
    BY DEF Visits
  <2>2. CASE k \in ToSet(x)
    BY <2>1, <2>2 DEF Visited
  <2>3. CASE k \notin ToSet(x)
    <3> DEFINE s == Prerequisites(rules, k)
               y == InTurn(v, s, x)
    <3>1. s \in Seq(Capability) /\ ToSet(s) = rules.requires[k]
      BY PrerequisitesListed
    <3>2. v[k][x] = Append(y, k)
      BY <2>1, <2>3 DEF Visited
    <3> HIDE DEF s, y
    <3>3. ASSUME NEW p \in ToSet(s)
          PROVE  /\ v[p] \in [CapabilityOrder -> CapabilityOrder]
                 /\ \A z : Enabling(rules, z) => Enabling(rules, v[p][z])
                                                 /\ ToSet(z) \cup {p} \subseteq ToSet(v[p][z])
      <4>1. p \in T
        BY <1>1, <3>1
      <4>2. v[p] \in [CapabilityOrder -> CapabilityOrder]
        BY <4>1 DEF Visits
      <4>3. \A z : Enabling(rules, z) => z \in CapabilityOrder
        BY DEF Enabling
      <4> QED BY <4>1, <4>2, <4>3
    <3>4. Enabling(rules, y) /\ ToSet(x) \cup ToSet(s) \subseteq ToSet(y)
      <4> HIDE DEF T
      <4> QED BY <3>1, <3>3, TurnsReach DEF y
    <3>5. Enabling(rules, Append(y, k)) /\ ToSet(Append(y, k)) = ToSet(y) \cup {k}
      BY <3>1, <3>4, EnabledAtTheEnd
    <3> QED BY <3>2, <3>4, <3>5
  <2> QED BY <2>2, <2>3
<1> HIDE DEF T
<1>2. Capability \subseteq T
  BY <1>1, ByPrerequisites
<1>3. \A x : Enabling(rules, x) => x \in CapabilityOrder
  BY DEF Enabling
<1> QED
  BY <1>2, <1>3 DEF T

\* The capabilities, all of them, each after what it requires.
LEMMA PrerequisitesFirst ==
    ASSUME NEW rules \in PrioritizationRules, Acyclic(rules)
    PROVE  /\ Enabling(rules, TopologicalOrder(rules))
           /\ ToSet(TopologicalOrder(rules)) = Capability
<1> DEFINE s == Ascending(Capability)
           o == TopologicalOrder(rules)
<1>1. s \in Seq(Capability) /\ ToSet(s) = Capability
  <2>1. /\ Cardinality(Capability) \in Nat
        /\ s \in [1..Cardinality(Capability) -> Capability]
        /\ \A c \in Capability : \E i \in 1..Cardinality(Capability) : s[i] = c
    <3>1. Capability \subseteq Int
      BY CapabilityAssumption
    <3> QED BY <3>1, FiniteCatalogAssumption, AscendingLists
  <2> HIDE DEF s
  <2>2. s \in Seq(Capability)
    BY <2>1, SeqDef
  <2> QED BY <2>1, <2>2 DEF ToSet
<1>2. PICK v : Visits(v, rules, Capability) /\ o = InTurn(v, s, << >>)
  BY TopologicalVisits
<1> HIDE DEF s, o
<1>3. Enabling(rules, << >>)
  BY EmptySeq DEF Enabling, CapabilityOrder
<1>4. \A p \in ToSet(s) :
         /\ v[p] \in [CapabilityOrder -> CapabilityOrder]
         /\ \A x : Enabling(rules, x) => Enabling(rules, v[p][x])
                                         /\ ToSet(x) \cup {p} \subseteq ToSet(v[p][x])
  <2>1. \A p \in Capability : v[p] \in [CapabilityOrder -> CapabilityOrder]
    BY <1>2 DEF Visits
  <2>2. \A p \in Capability : \A x : Enabling(rules, x) =>
           Enabling(rules, v[p][x]) /\ ToSet(x) \cup {p} \subseteq ToSet(v[p][x])
    BY <1>2, VisitReaches
  <2> QED BY <1>1, <2>1, <2>2
<1>5. Enabling(rules, o) /\ ToSet(s) \subseteq ToSet(o)
  BY <1>1, <1>2, <1>3, <1>4, TurnsReach
<1>6. ToSet(o) \subseteq Capability
  <2>1. o \in Seq(Capability)
    BY <1>5 DEF Enabling, CapabilityOrder
  <2> QED BY <2>1, LenProperties DEF ToSet
<1> QED
  BY <1>1, <1>5, <1>6 DEF o

\* The greatest of some phases is one of them.
LEMMA LatestPhase ==
    ASSUME NEW S \in SUBSET Phase, S # {}
    PROVE  Max(S) \in S /\ Max(S) \in Phase /\ \A p \in S : Max(S) >= p
<1>1. S \subseteq 0..3 /\ 3 \in Nat
  BY DEF Phase
<1>2. Max(S) \in S /\ \A p \in S : Max(S) >= p
  BY <1>1, GreatestOne
<1> QED
  BY <1>2

\* A phase that is there and that none is after is the latest.
LEMMA LatestIs ==
    ASSUME NEW S \in SUBSET Phase, NEW m \in S, \A p \in S : m >= p
    PROVE  Max(S) = m
<1>1. Max(S) \in S /\ \A p \in S : Max(S) >= p
  BY LatestPhase
<1> DEFINE x == Max(S)
<1>2. x >= m /\ m >= x /\ m \in Phase /\ x \in Phase
  <2> HIDE DEF x
  <2>1. x \in S
    BY <1>1 DEF x
  <2>2. x >= m
    BY <1>1 DEF x
  <2> QED BY <2>1, <2>2
<1>3. x = m
  <2> HIDE DEF x
  <2> QED BY <1>2 DEF Phase
<1> QED
  BY <1>3

\* What is read of the capabilities before any is scheduled.
Assessed(assessed) ==
    \A k \in Capability : /\ assessed[k].tier \in {"tier_0", "tier_1"}
                          /\ assessed[k].band_phase \in Phase

\* Phases that agree with the prerequisites of k.
InPhase(rules, assessed, phases, k) ==
    phases[k] = IF assessed[k].tier = "tier_0" THEN assessed[k].band_phase
                ELSE Max({assessed[k].band_phase} \cup {phases[p] : p \in rules.requires[k]})

\* One capability scheduled.
Rescheduled(rules, assessed, phases, k) ==
    IF assessed[k].tier = "tier_0" THEN phases
    ELSE [phases EXCEPT ![k] = Max({@} \cup {phases[p] : p \in rules.requires[k]})]

\* Phases stay phases.
LEMMA RescheduledTyped ==
    ASSUME NEW rules \in PrioritizationRules, NEW assessed, NEW phases \in [Capability -> Phase],
           NEW k \in Capability
    PROVE  Rescheduled(rules, assessed, phases, k) \in [Capability -> Phase]
<1> DEFINE S == {phases[k]} \cup {phases[p] : p \in rules.requires[k]}
<1>1. S \in SUBSET Phase /\ S # {}
  BY DEF PrioritizationRules
<1>2. Max(S) \in Phase
  <2> HIDE DEF S
  <2> QED BY <1>1, LatestPhase
<1>3. Rescheduled(rules, assessed, phases, k)
         = IF assessed[k].tier = "tier_0" THEN phases ELSE [phases EXCEPT ![k] = Max(S)]
  BY DEF Rescheduled
<1> HIDE DEF S
<1> QED
  BY <1>2, <1>3

\* The capabilities scheduled one after another.
SchedulesBy(u, rules, assessed, o) ==
    /\ u \in [0..Len(o) -> [Capability -> Phase]]
    /\ u[0] = [k \in Capability |-> assessed[k].band_phase]
    /\ \A n \in 1..Len(o) : u[n] = Rescheduled(rules, assessed, u[n - 1], o[n])

\* There is such a u, and its last value is what is scheduled.
LEMMA ScheduledStepwise ==
    ASSUME NEW rules \in PrioritizationRules, NEW assessed, Assessed(assessed),
           TopologicalOrder(rules) \in CapabilityOrder
    PROVE  \E u : /\ SchedulesBy(u, rules, assessed, TopologicalOrder(rules))
                  /\ ScheduledPhases(rules, assessed) = u[Len(TopologicalOrder(rules))]
<1> DEFINE o == TopologicalOrder(rules)
           L == Len(o)
           D == [Capability -> Phase]
           base == [k \in Capability |-> assessed[k].band_phase]
           u == CHOOSE f : f = [n \in 0..L |->
                    IF n = 0 THEN base ELSE Rescheduled(rules, assessed, f[n - 1], o[n])]
<1>1. ScheduledPhases(rules, assessed) = u[L]
  BY DEF ScheduledPhases, Rescheduled
<1>2. o \in Seq(Capability)
  BY DEF CapabilityOrder
<1> HIDE DEF o
<1>3. L \in Nat /\ \A n \in 1..L : o[n] \in Capability
  BY <1>2, LenProperties
<1>4. base \in D
  BY DEF Assessed
<1> HIDE DEF L, base
<1>5. \A n \in 1..L, x \in D : Rescheduled(rules, assessed, x, o[n]) \in D
  BY <1>3, RescheduledTyped
<1>6. \E f : /\ f \in [0..L -> D]
             /\ f = [n \in 0..L |->
                       IF n = 0 THEN base ELSE Rescheduled(rules, assessed, f[n - 1], o[n])]
  <2> DEFINE next == [p \in (1..L) \X D |-> Rescheduled(rules, assessed, p[2], o[p[1]])]
  <2> HIDE DEF D
  <2>1. next \in [(1..L) \X D -> D]
    <3>1. \A p \in (1..L) \X D : Rescheduled(rules, assessed, p[2], o[p[1]]) \in D
      BY <1>5
    <3> QED BY <3>1
  <2>2. \A n \in 1..L, x \in D : next[<<n, x>>] = Rescheduled(rules, assessed, x, o[n])
    OBVIOUS
  <2> HIDE DEF next, u
  <2>3. PICK f : Walks(L, D, base, next, f)
    BY <1>3, <1>4, <2>1, StepByStep DEF Stepping
  <2>4. f \in [0..L -> D] /\ f[0] = base /\ \A n \in 1..L : f[n] = next[<<n, f[n - 1]>>]
    BY <2>3 DEF Walks
  <2>5. ASSUME NEW n \in 1..L PROVE f[n] = Rescheduled(rules, assessed, f[n - 1], o[n])
    <3>1. n - 1 \in 0..L
      BY <1>3
    <3> QED BY <2>2, <2>4, <3>1
  <2>6. f = [n \in 0..L |->
               IF n = 0 THEN base ELSE Rescheduled(rules, assessed, f[n - 1], o[n])]
    BY <1>3, <2>4, <2>5
  <2> QED
    BY <2>4, <2>6
<1>7. u = [n \in 0..L |-> IF n = 0 THEN base ELSE Rescheduled(rules, assessed, u[n - 1], o[n])]
  BY <1>6
<1> HIDE DEF u
<1>8. u[0] = base /\ \A n \in 1..L : u[n] = Rescheduled(rules, assessed, u[n - 1], o[n])
  BY <1>3, <1>7
<1>9. \A n \in 0..L : u[n] \in D
  <2> HIDE DEF D
  <2> DEFINE T == {n \in 0..L : u[n] \in D}
  <2>1. 0 \in T
    BY <1>3, <1>4, <1>8
  <2>2. \A n \in 1..L : n - 1 \in T => n \in T
    <3> SUFFICES ASSUME NEW n \in 1..L, u[n - 1] \in D PROVE u[n] \in D
      BY <1>3
    <3> QED BY <1>5, <1>8
  <2> HIDE DEF T
  <2>3. \A n \in 0..L : n \in T
    BY <1>3, <2>1, <2>2, Upward
  <2> QED BY <2>3 DEF T
<1>10. u \in [0..L -> D]
  BY <1>7, <1>9
<1> QED
  BY <1>1, <1>8, <1>10 DEF L, o, base, SchedulesBy

\* Phases of which those done agree with their prerequisites, and the rest are as asked
\* for.
Scheduling(rules, assessed, phases, done) ==
    /\ phases \in [Capability -> Phase]
    /\ done \in SUBSET Capability
    /\ \A j \in done : rules.requires[j] \subseteq done /\ InPhase(rules, assessed, phases, j)
    /\ \A j \in Capability \ done : phases[j] = assessed[j].band_phase

\* A capability scheduled after all it requires is in its phase; a second time changes
\* nothing, and nothing scheduled before depends on it.
LEMMA RescheduledInPhase ==
    ASSUME NEW rules \in PrioritizationRules, NEW assessed, Assessed(assessed), NEW phases,
           NEW done, NEW k \in Capability, Scheduling(rules, assessed, phases, done),
           rules.requires[k] \subseteq done
    PROVE  Scheduling(rules, assessed, Rescheduled(rules, assessed, phases, k), done \cup {k})
<1> DEFINE then == Rescheduled(rules, assessed, phases, k)
           After(j) == {phases[p] : p \in rules.requires[j]}
           m == Max({phases[k]} \cup After(k))
<1> USE DEF Scheduling
<1>0. \A j \in Capability : rules.requires[j] \subseteq Capability
  BY DEF PrioritizationRules
<1>a. then \in [Capability -> Phase]
  BY RescheduledTyped
<1>b. /\ done \cup {k} \in SUBSET Capability
      /\ \A j \in done \cup {k} : rules.requires[j] \subseteq done \cup {k}
  OBVIOUS
<1> DEFINE Goal == /\ \A j \in done \cup {k} : InPhase(rules, assessed, then, j)
                   /\ \A j \in Capability \ (done \cup {k}) : then[j] = assessed[j].band_phase
<1> SUFFICES Goal
  <2> HIDE DEF then
  <2> QED BY <1>a, <1>b DEF then
<1>1. CASE assessed[k].tier = "tier_0"
  <2>1. then = phases
    BY <1>1 DEF Rescheduled
  <2>2. InPhase(rules, assessed, phases, k)
    <3>1. CASE k \in done
      BY <3>1
    <3>2. CASE k \notin done
      BY <1>1, <3>2 DEF InPhase
    <3> QED BY <3>1, <3>2
  <2>3. Goal
    <3> HIDE DEF then
    <3> QED BY <2>1, <2>2
  <2> QED BY <2>3
<1>2. CASE assessed[k].tier # "tier_0"
  <2>1. then = [phases EXCEPT ![k] = m]
    BY <1>2 DEF Rescheduled
  <2>2. CASE k \in done
    <3>1. phases[k] = Max({assessed[k].band_phase} \cup After(k))
      BY <1>2, <2>2 DEF InPhase
    <3>2. /\ {assessed[k].band_phase} \cup After(k) \in SUBSET Phase
          /\ phases[k] \in Phase
      BY <1>0 DEF Assessed
    <3> DEFINE S == {assessed[k].band_phase} \cup After(k)
               R == {phases[k]} \cup After(k)
    <3>3. S # {} /\ S \in SUBSET Phase
      BY <3>2
    <3>4. \A p \in S : phases[k] >= p
      <4> HIDE DEF S, After
      <4>1. phases[k] = Max(S)
        BY <3>1 DEF S
      <4> QED BY <3>3, <4>1, LatestPhase
    <3>5. R \in SUBSET Phase /\ phases[k] \in R
      BY <3>2
    <3>6. \A p \in R : p = phases[k] \/ p \in S
      OBVIOUS
    <3> DEFINE z == phases[k]
    <3>7. z >= z
      BY <3>2 DEF Phase
    <3>8. \A p \in R : z >= p
      <4> HIDE DEF R, S
      <4> QED BY <3>4, <3>6, <3>7
    <3>9. m = phases[k]
      <4>1. m = Max(R)
        OBVIOUS
      <4> HIDE DEF R, m, After
      <4> QED BY <3>5, <3>8, <4>1, LatestIs
    <3>10. then = phases
      <4> HIDE DEF m
      <4> QED BY <2>1, <3>9
    <3>11. done \cup {k} = done
      BY <2>2
    <3>12. Goal
      <4> HIDE DEF then
      <4> QED BY <3>10, <3>11
    <3> QED BY <3>12
  <2>3. CASE k \notin done
    <3>1. phases[k] = assessed[k].band_phase
      BY <2>3
    <3>2. \A j \in Capability \ {k} : then[j] = phases[j]
      <4> HIDE DEF m
      <4> QED BY <2>1
    <3>3. then[k] = m
      <4> HIDE DEF m
      <4> QED BY <2>1
    <3>4. \A j \in done \cup {k} : k \notin rules.requires[j]
      BY <2>3
    <3> HIDE DEF then, m
    <3>5. \A j \in done \cup {k} : {then[p] : p \in rules.requires[j]} = After(j)
      <4>1. \A j \in done \cup {k} : \A p \in rules.requires[j] : then[p] = phases[p]
        BY <1>0, <3>2, <3>4
      <4> QED BY <4>1
    <3>6. ASSUME NEW j \in done PROVE InPhase(rules, assessed, then, j)
      <4>1. then[j] = phases[j]
        BY <2>3, <3>2
      <4>2. InPhase(rules, assessed, phases, j)
        OBVIOUS
      <4>3. {then[p] : p \in rules.requires[j]} = {phases[p] : p \in rules.requires[j]}
        BY <3>5
      <4> QED BY <4>1, <4>2, <4>3 DEF InPhase
    <3>7. InPhase(rules, assessed, then, k)
      <4>1. {then[p] : p \in rules.requires[k]} = After(k)
        BY <3>5
      <4>2. then[k] = Max({assessed[k].band_phase} \cup After(k))
        BY <3>1, <3>3 DEF m
      <4> HIDE DEF After
      <4> QED BY <1>2, <4>1, <4>2 DEF InPhase
    <3>8. \A j \in Capability \ (done \cup {k}) : then[j] = assessed[j].band_phase
      BY <3>2
    <3> QED BY <3>6, <3>7, <3>8
  <2> HIDE DEF Goal
  <2> QED BY <2>2, <2>3
<1> HIDE DEF Goal
<1> QED
  BY <1>1, <1>2

\* So the phases agree with the prerequisites of every capability.
LEMMA ScheduledInPhase ==
    ASSUME NEW rules \in PrioritizationRules, Acyclic(rules), NEW assessed, Assessed(assessed)
    PROVE  /\ ScheduledPhases(rules, assessed) \in [Capability -> Phase]
           /\ \A k \in Capability : InPhase(rules, assessed, ScheduledPhases(rules, assessed), k)
<1> DEFINE o == TopologicalOrder(rules)
           L == Len(o)
           Done(n) == {o[j] : j \in 1..n}
<1>1. Enabling(rules, o) /\ ToSet(o) = Capability
  BY PrerequisitesFirst
<1>2. o \in Seq(Capability) /\ L \in Nat /\ DOMAIN o = 1..L
  BY <1>1, LenProperties DEF Enabling, CapabilityOrder
<1>3. PICK u : SchedulesBy(u, rules, assessed, o) /\ ScheduledPhases(rules, assessed) = u[L]
  BY <1>1, ScheduledStepwise DEF Enabling
<1>4. /\ u \in [0..L -> [Capability -> Phase]]
      /\ u[0] = [k \in Capability |-> assessed[k].band_phase]
      /\ \A n \in 1..L : u[n] = Rescheduled(rules, assessed, u[n - 1], o[n])
  BY <1>3 DEF SchedulesBy
<1>5. \A n \in 1..L : o[n] \in Capability /\ rules.requires[o[n]] \subseteq Done(n - 1)
  BY <1>1, <1>2 DEF Enabling, Upfront
<1>6. Done(L) = Capability
  BY <1>1, <1>2 DEF ToSet
<1> HIDE DEF o, L
<1> DEFINE T == {n \in 0..L : Scheduling(rules, assessed, u[n], Done(n))}
<1>9. 0 \in T
  <2>1. Done(0) = {} /\ 0 \in 0..L
    BY <1>2
  <2> HIDE DEF Done
  <2>2. u[0] \in [Capability -> Phase]
    BY <1>4, <2>1
  <2> QED BY <1>4, <2>1, <2>2 DEF Scheduling
<1>10. ASSUME NEW n \in 1..L, n - 1 \in T PROVE n \in T
  <2>1. Done(n) = Done(n - 1) \cup {o[n]}
    <3>1. 1..n = 1..(n - 1) \cup {n}
      BY <1>2
    <3> QED BY <3>1
  <2>2. n \in 0..L
    BY <1>2
  <2> HIDE DEF Done
  <2>3. Scheduling(rules, assessed, u[n - 1], Done(n - 1))
    BY <1>10
  <2>4. o[n] \in Capability /\ rules.requires[o[n]] \subseteq Done(n - 1)
    BY <1>5
  <2>5. Scheduling(rules, assessed, Rescheduled(rules, assessed, u[n - 1], o[n]),
                   Done(n - 1) \cup {o[n]})
    <3> HIDE DEF T
    <3> QED BY <2>3, <2>4, RescheduledInPhase
  <2>6. u[n] = Rescheduled(rules, assessed, u[n - 1], o[n])
    BY <1>4
  <2> QED BY <2>1, <2>2, <2>5, <2>6
<1> HIDE DEF T, Done
<1>11. \A n \in 0..L : n \in T
  BY <1>2, <1>9, <1>10, Upward
<1>12. L \in T /\ L \in 0..L
  BY <1>2, <1>11
<1>13. Scheduling(rules, assessed, u[L], Capability)
  BY <1>6, <1>12 DEF T
<1> QED
  BY <1>3, <1>13 DEF Scheduling

\* What capabilities wait for, and what that is after a number of steps.
Behind(rules, items, S) ==
    S \cup UNION {rules.requires[d] : d \in {e \in S : items[e].tier = "tier_1"}}
WaitsBy(b, rules, items, k) ==
    /\ b \in [0..Cardinality(Capability) -> SUBSET Capability]
    /\ b[0] = {k}
    /\ \A n \in 1..Cardinality(Capability) : b[n] = Behind(rules, items, b[n - 1])

\* There is such a b, and its last value is what is waited for.
LEMMA WaitsStepwise ==
    ASSUME NEW rules \in PrioritizationRules, NEW items, NEW k \in Capability
    PROVE  \E b : /\ WaitsBy(b, rules, items, k)
                  /\ WaitsFor(rules, items, k) = b[Cardinality(Capability)]
<1> DEFINE N == Cardinality(Capability)
           D == SUBSET Capability
           b == CHOOSE f : f = [n \in 0..N |-> IF n = 0 THEN {k} ELSE Behind(rules, items, f[n - 1])]
<1>1. WaitsFor(rules, items, k) = b[N]
  BY DEF WaitsFor, Behind
<1>2. N \in Nat
  BY FiniteCatalogAssumption, FS_CardinalityType
<1>3. \A S \in D : Behind(rules, items, S) \in D
  BY DEF Behind, PrioritizationRules
<1>4. {k} \in D
  OBVIOUS
<1> HIDE DEF N, D
<1>5. \E f : /\ f \in [0..N -> D]
             /\ f = [n \in 0..N |-> IF n = 0 THEN {k} ELSE Behind(rules, items, f[n - 1])]
  <2> DEFINE next == [p \in (1..N) \X D |-> Behind(rules, items, p[2])]
  <2>1. next \in [(1..N) \X D -> D]
    <3>1. \A p \in (1..N) \X D : Behind(rules, items, p[2]) \in D
      BY <1>3
    <3> QED BY <3>1
  <2>2. \A n \in 1..N, x \in D : next[<<n, x>>] = Behind(rules, items, x)
    OBVIOUS
  <2> HIDE DEF next, b
  <2>3. PICK f : Walks(N, D, {k}, next, f)
    BY <1>2, <1>4, <2>1, StepByStep DEF Stepping
  <2>4. f \in [0..N -> D] /\ f[0] = {k} /\ \A n \in 1..N : f[n] = next[<<n, f[n - 1]>>]
    BY <2>3 DEF Walks
  <2>5. ASSUME NEW n \in 1..N PROVE f[n] = Behind(rules, items, f[n - 1])
    <3>1. n - 1 \in 0..N
      BY <1>2
    <3> QED BY <2>2, <2>4, <3>1
  <2>6. f = [n \in 0..N |-> IF n = 0 THEN {k} ELSE Behind(rules, items, f[n - 1])]
    BY <1>2, <2>4, <2>5
  <2> QED
    BY <2>4, <2>6
<1>6. b = [n \in 0..N |-> IF n = 0 THEN {k} ELSE Behind(rules, items, b[n - 1])]
  BY <1>5
<1> HIDE DEF b
<1>7. b[0] = {k} /\ \A n \in 1..N : b[n] = Behind(rules, items, b[n - 1])
  <2>1. 0 \in 0..N /\ \A n \in 1..N : n \in 0..N /\ n # 0
    BY <1>2
  <2>2. b[0] = {k}
    BY <1>6, <2>1
  <2>3. ASSUME NEW n \in 1..N PROVE b[n] = Behind(rules, items, b[n - 1])
    BY <1>6, <2>1
  <2> QED BY <2>2, <2>3
<1>8. \A n \in 0..N : b[n] \in D
  <2> DEFINE T == {n \in 0..N : b[n] \in D}
  <2>1. 0 \in T
    BY <1>2, <1>4, <1>7
  <2>2. \A n \in 1..N : n - 1 \in T => n \in T
    <3> SUFFICES ASSUME NEW n \in 1..N, b[n - 1] \in D PROVE b[n] \in D
      BY <1>2
    <3> QED BY <1>3, <1>7
  <2> HIDE DEF T
  <2>3. \A n \in 0..N : n \in T
    BY <1>2, <2>1, <2>2, Upward
  <2> QED BY <2>3 DEF T
<1>9. b \in [0..N -> D]
  BY <1>6, <1>8
<1> QED
  BY <1>1, <1>7, <1>9 DEF N, D, WaitsBy

\* In as many steps as there are capabilities everything waited for is there.
LEMMA WaitsForAll ==
    ASSUME NEW rules \in PrioritizationRules, NEW items, NEW k \in Capability
    PROVE  LET W == WaitsFor(rules, items, k)
           IN  /\ k \in W /\ W \in SUBSET Capability
               /\ \A d \in W : items[d].tier = "tier_1" => rules.requires[d] \subseteq W
<1> DEFINE N == Cardinality(Capability)
<1>1. PICK b : WaitsBy(b, rules, items, k) /\ WaitsFor(rules, items, k) = b[N]
  BY WaitsStepwise
<1>2. /\ b \in [0..N -> SUBSET Capability]
      /\ b[0] = {k}
      /\ \A n \in 1..N : b[n] = Behind(rules, items, b[n - 1])
  BY <1>1 DEF WaitsBy
<1>3. N \in Nat
  BY FiniteCatalogAssumption, FS_CardinalityType
<1>4. ASSUME NEW S \in SUBSET Capability
      PROVE  IsFiniteSet(S) /\ Cardinality(S) \in Nat /\ Cardinality(S) <= N
  <2>1. IsFiniteSet(S) /\ Cardinality(S) <= N
    BY FiniteCatalogAssumption, FS_Subset
  <2> QED BY <2>1, FS_CardinalityType
<1> DEFINE Closed(S) == Behind(rules, items, S) \subseteq S
           T == {n \in 0..N : k \in b[n] /\ (Closed(b[n]) \/ Cardinality(b[n]) >= n + 1)}
<1>5. 0 \in T
  <2>1. k \in b[0]
    BY <1>2
  <2>2. Cardinality(b[0]) = 1
    BY <1>2, FS_Singleton
  <2> HIDE DEF Closed, N
  <2> QED BY <1>3, <2>1, <2>2
<1>6. ASSUME NEW n \in 1..N, n - 1 \in T PROVE n \in T
  <2> DEFINE S == b[n - 1]
             U == b[n]
  <2>1. n \in 0..N /\ n - 1 \in 0..N /\ n \in Nat
    BY <1>3
  <2>2. S \in SUBSET Capability /\ U \in SUBSET Capability
    BY <1>2, <2>1
  <2>3. U = Behind(rules, items, S)
    BY <1>2
  <2>4. k \in S /\ (Closed(S) \/ Cardinality(S) >= n)
    <3> HIDE DEF Closed, N
    <3> QED BY <1>6
  <2> HIDE DEF S, U
  <2>5. S \subseteq U
    BY <2>3 DEF Behind
  <2>6. CASE Closed(S)
    <3>1. U = S
      BY <2>3, <2>5, <2>6
    <3>2. Closed(U)
      BY <2>6, <3>1
    <3> HIDE DEF Closed
    <3> QED BY <2>1, <2>4, <2>5, <3>2 DEF U
  <2>7. CASE ~Closed(S)
    <3>1. U # S
      BY <2>3, <2>7
    <3>2. IsFiniteSet(U) /\ Cardinality(S) < Cardinality(U)
      <4>1. IsFiniteSet(U) /\ IsFiniteSet(S)
        BY <1>4, <2>2
      <4>2. Cardinality(S) <= Cardinality(U) /\ (Cardinality(S) = Cardinality(U) => S = U)
        BY <2>5, <4>1, FS_Subset
      <4>3. Cardinality(S) \in Nat /\ Cardinality(U) \in Nat
        BY <4>1, FS_CardinalityType
      <4> QED BY <3>1, <4>1, <4>2, <4>3
    <3>3. Cardinality(U) >= n + 1
      <4> DEFINE s == Cardinality(S)
                 u == Cardinality(U)
      <4>1. s \in Nat /\ u \in Nat /\ s < u /\ s >= n
        BY <1>4, <2>2, <2>4, <2>7, <3>2
      <4>2. u >= n + 1
        <5> HIDE DEF s, u
        <5> QED BY <2>1, <4>1
      <4> QED BY <4>2
    <3> HIDE DEF Closed, N
    <3> QED BY <2>1, <2>4, <2>5, <3>3 DEF U
  <2> QED BY <2>6, <2>7
<1>7. N \in T
  <2> HIDE DEF T, N
  <2>1. \A n \in 0..N : n \in T
    BY <1>3, <1>5, <1>6, Upward
  <2> QED BY <1>3, <2>1
<1>8. b[N] \in SUBSET Capability /\ N \in 0..N
  BY <1>2, <1>3
<1>9. Closed(b[N])
  <2> DEFINE c == Cardinality(b[N])
  <2>1. c \in Nat /\ c <= N
    BY <1>4, <1>8
  <2>2. Closed(b[N]) \/ c >= N + 1
    BY <1>7
  <2> HIDE DEF c, Closed, N
  <2> QED BY <1>3, <2>1, <2>2
<1>10. k \in b[N]
  BY <1>7
<1>11. ASSUME NEW d \in b[N], items[d].tier = "tier_1" PROVE rules.requires[d] \subseteq b[N]
  BY <1>9, <1>11 DEF Behind
<1> QED
  BY <1>1, <1>8, <1>10, <1>11

\* Nothing is waited for that is scheduled later.
LEMMA WaitsForEarlier ==
    ASSUME NEW rules \in PrioritizationRules, NEW items, NEW k \in Capability,
           NEW phases \in [Capability -> Phase],
           \A d \in Capability : items[d].tier = "tier_1" =>
              \A p \in rules.requires[d] : phases[d] >= phases[p]
    PROVE  \A d \in WaitsFor(rules, items, k) : phases[k] >= phases[d]
<1> DEFINE N == Cardinality(Capability)
<1>1. PICK b : WaitsBy(b, rules, items, k) /\ WaitsFor(rules, items, k) = b[N]
  BY WaitsStepwise
<1>2. /\ b \in [0..N -> SUBSET Capability]
      /\ b[0] = {k}
      /\ \A n \in 1..N : b[n] = Behind(rules, items, b[n - 1])
  BY <1>1 DEF WaitsBy
<1>3. N \in Nat
  BY FiniteCatalogAssumption, FS_CardinalityType
<1>4. \A d \in Capability : phases[d] \in Nat
  BY DEF Phase
<1> DEFINE T == {n \in 0..N : \A d \in b[n] : phases[k] >= phases[d]}
<1> HIDE DEF N
<1>5. 0 \in T
  BY <1>2, <1>3, <1>4
<1>6. ASSUME NEW n \in 1..N, n - 1 \in T PROVE n \in T
  <2>1. n \in 0..N /\ n - 1 \in 0..N
    BY <1>3
  <2>2. b[n - 1] \in SUBSET Capability
    BY <1>2, <2>1
  <2> SUFFICES ASSUME NEW d \in b[n] PROVE phases[k] >= phases[d]
    BY <2>1
  <2>3. CASE d \in b[n - 1]
    BY <1>6, <2>3
  <2>4. CASE d \notin b[n - 1]
    <3>1. PICK e \in b[n - 1] : items[e].tier = "tier_1" /\ d \in rules.requires[e]
      BY <1>2, <2>4 DEF Behind
    <3>2. e \in Capability /\ d \in Capability
      BY <2>2, <3>1 DEF PrioritizationRules
    <3>3. phases[k] >= phases[e] /\ phases[e] >= phases[d]
      BY <1>6, <3>1, <3>2
    <3> QED BY <1>4, <3>2, <3>3
  <2> QED BY <2>3, <2>4
<1> HIDE DEF T
<1>7. \A n \in 0..N : n \in T
  BY <1>3, <1>5, <1>6, Upward
<1>8. N \in T
  BY <1>3, <1>7
<1> QED
  BY <1>1, <1>8 DEF T

\* The latest phase asked for by anything a capability waits for is its own.
LEMMA WaitedForIsItsPhase ==
    ASSUME NEW rules \in PrioritizationRules, Acyclic(rules), NEW assessed, Assessed(assessed),
           NEW items, \A d \in Capability : items[d].tier = assessed[d].tier,
           NEW phases \in [Capability -> Phase],
           \A d \in Capability : InPhase(rules, assessed, phases, d),
           NEW k \in Capability
    PROVE  phases[k] = Max({assessed[d].band_phase : d \in WaitsFor(rules, items, k)})
<1> DEFINE W == WaitsFor(rules, items, k)
           band(d) == assessed[d].band_phase
           S == {band(d) : d \in W}
<1>0. \A d \in Capability : /\ assessed[d].tier \in {"tier_0", "tier_1"}
                            /\ band(d) \in Phase /\ phases[d] \in Phase
                            /\ rules.requires[d] \subseteq Capability
  BY DEF Assessed, PrioritizationRules
<1>1. /\ k \in W /\ W \in SUBSET Capability
      /\ \A d \in W : items[d].tier = "tier_1" => rules.requires[d] \subseteq W
  BY WaitsForAll
<1>2. ASSUME NEW d \in Capability
      PROVE  /\ phases[d] >= band(d)
             /\ assessed[d].tier = "tier_1" => \A p \in rules.requires[d] : phases[d] >= phases[p]
             /\ \/ phases[d] = band(d)
                \/ /\ assessed[d].tier = "tier_1"
                   /\ \E p \in rules.requires[d] : phases[d] = phases[p]
  <2> DEFINE R == {band(d)} \cup {phases[p] : p \in rules.requires[d]}
  <2>1. CASE assessed[d].tier = "tier_0"
    <3>1. phases[d] = band(d)
      BY <2>1 DEF InPhase
    <3> HIDE DEF band
    <3> QED BY <1>0, <2>1, <3>1 DEF Phase
  <2>2. CASE assessed[d].tier = "tier_1"
    <3>1. phases[d] = Max(R)
      BY <2>2 DEF InPhase
    <3>2. R \in SUBSET Phase /\ R # {}
      BY <1>0
    <3>3. phases[d] \in R /\ \A p \in R : phases[d] >= p
      <4> HIDE DEF R
      <4> QED BY <3>1, <3>2, LatestPhase
    <3>4. phases[d] = band(d) \/ \E p \in rules.requires[d] : phases[d] = phases[p]
      BY <3>3
    <3>5. \A p \in rules.requires[d] : phases[d] >= phases[p]
      BY <3>3
    <3>6. phases[d] >= band(d)
      BY <3>3
    <3> HIDE DEF band, R
    <3> QED BY <2>2, <3>4, <3>5, <3>6
  <2> QED BY <1>0, <2>1, <2>2
<1> HIDE DEF band, W
<1>3. \A d \in W : phases[k] >= phases[d]
  BY <1>2, WaitsForEarlier DEF W
<1>4. \A d \in W : phases[k] >= band(d)
  <2> SUFFICES ASSUME NEW d \in W PROVE phases[k] >= band(d)
    OBVIOUS
  <2> DEFINE x == phases[k]
             y == phases[d]
             z == band(d)
  <2>1. x \in Phase /\ y \in Phase /\ z \in Phase /\ x >= y /\ y >= z
    BY <1>0, <1>1, <1>2, <1>3
  <2>2. x >= z
    <3> HIDE DEF x, y, z
    <3> QED BY <2>1 DEF Phase
  <2> QED BY <2>2
<1>5. \E d \in W : phases[k] = band(d)
  <2> DEFINE T == {j \in Capability : j \in W => \E d \in W : phases[j] = band(d)}
  <2>1. ASSUME NEW j \in Capability, rules.requires[j] \subseteq T PROVE j \in T
    <3> SUFFICES ASSUME j \in W PROVE \E d \in W : phases[j] = band(d)
      OBVIOUS
    <3>1. CASE phases[j] = band(j)
      BY <3>1
    <3>2. CASE assessed[j].tier = "tier_1" /\ \E p \in rules.requires[j] : phases[j] = phases[p]
      <4>1. PICK p \in rules.requires[j] : phases[j] = phases[p]
        BY <3>2
      <4>2. p \in W /\ p \in T
        BY <1>1, <2>1, <3>2
      <4> QED BY <4>1, <4>2
    <3> QED BY <1>2, <3>1, <3>2
  <2> HIDE DEF T
  <2>2. Capability \subseteq T
    BY <2>1, ByPrerequisites
  <2> QED BY <1>1, <2>2 DEF T
<1>6. S \in SUBSET Phase
  BY <1>0, <1>1
<1>7. phases[k] \in S /\ \A p \in S : phases[k] >= p
  BY <1>4, <1>5
<1>8. Max(S) = phases[k]
  <2> HIDE DEF S
  <2> QED BY <1>6, <1>7, LatestIs
<1> QED
  BY <1>8 DEF W, band

\* What is read of a capability: a mandate is for phase 0, the rest for one of the others.
LEMMA AssessedByTheRules ==
    ASSUME NEW rules \in PrioritizationRules, NEW k \in Capability, NEW o, NEW zone, NEW scale
    PROVE  LET a == Assess(rules, k, o, zone, scale)
           IN  /\ a.tier \in {"tier_0", "tier_1"}
               /\ a.band_phase \in Phase
               /\ a.tier = "tier_0" => a.band_phase = 0
<1> DEFINE a == Assess(rules, k, o, zone, scale)
           benefit == Benefit(rules, k, o, zone, scale)
           cost == rules.cost[k]
           priority == PRIORITY_MATRIX[benefit + 1][cost + 1]
<1>1. cost \in 0..2
  BY DEF PrioritizationRules, OrdinalLevel
<1>2. benefit \in 0..2
  <2> DEFINE n == Cardinality(Unlocks(rules, k))
             B == {CoverageBand(Coverage(o)), LeverageBand(n)}
             b == Max(B)
  <2>1. n \in Nat
    <3>1. Unlocks(rules, k) \in SUBSET Capability
      BY DEF Unlocks
    <3> QED BY <3>1, FiniteCatalogAssumption, FS_Subset, FS_CardinalityType
  <2>2. LeverageBand(n) \in 0..2
    <3> HIDE DEF n
    <3> QED BY <2>1 DEF LeverageBand
  <2>3. CoverageBand(Coverage(o)) \in 0..2
    BY DEF CoverageBand
  <2>4. B \subseteq 0..2 /\ B # {}
    <3> HIDE DEF n
    <3> QED BY <2>2, <2>3
  <2>5. b \in 0..2
    <3> HIDE DEF B
    <3>1. 2 \in Nat
      OBVIOUS
    <3> QED BY <2>4, <3>1, GreatestOne
  <2>6. benefit = b \/ (benefit = b + 1 /\ b < 2)
    BY DEF Benefit
  <2> HIDE DEF b, benefit
  <2> QED BY <2>5, <2>6
<1> HIDE DEF benefit, cost
<1>3. priority \in 0..2
  <2>1. benefit \in {0, 1, 2} /\ cost \in {0, 1, 2}
    BY <1>1, <1>2
  <2>2. CASE benefit = 0
    BY <2>1, <2>2 DEF PRIORITY_MATRIX
  <2>3. CASE benefit = 1
    BY <2>1, <2>3 DEF PRIORITY_MATRIX
  <2>4. CASE benefit = 2
    BY <2>1, <2>4 DEF PRIORITY_MATRIX
  <2> QED BY <2>1, <2>2, <2>3, <2>4
<1>4. /\ a.tier = IF Mandates(o, zone) # {} THEN "tier_0" ELSE "tier_1"
      /\ a.band_phase = IF a.tier = "tier_0" THEN 0 ELSE PhaseByPriority(priority)
  BY DEF Assess, benefit, cost
<1> HIDE DEF a, priority
<1>5. PhaseByPriority(priority) \in Phase /\ 0 \in Phase
  BY <1>3 DEF PhaseByPriority, Phase
<1> QED
  BY <1>4, <1>5 DEF a

\* What the core says of the phases of a zone.
LatestWaitedFor(rules, items, k) ==
    items[k].phase = IF items[k].tier = "tier_0" THEN 0
                     ELSE Max({items[d].assessed.band_phase : d \in WaitsFor(rules, items, k)})

\* It holds of every item of the core.
LEMMA ItemsOfZone ==
    ASSUME NEW ask \in AskedCandidates, NEW i \in DOMAIN Core(ask), NEW k \in Capability
    PROVE  LatestWaitedFor(ask.prioritization, Core(ask)[i].items, k)
<1> DEFINE rules == ask.prioritization
           zone == ZoneContext(ask.zones[i], ask.profile)
           built == [j \in Capability |-> BuildOptions(ask.mappings, j)]
           resolved == [j \in Capability |->
                           ResolveCapability(built[j], ask.contradictions, j, zone)]
           gated == [j \in Capability |-> Gated(resolved[j], ask.gating, zone)]
           assessed == [j \in Capability |-> Assess(rules, j, gated[j], zone, ask.profile.scale)]
           phases == ScheduledPhases(rules, assessed)
           items == Core(ask)[i].items
<1>1. rules \in PrioritizationRules /\ Acyclic(rules)
  BY DEF AskedCandidates
<1>2. \A d \in Capability : /\ items[d].assessed = assessed[d]
                            /\ items[d].phase = phases[d]
                            /\ items[d].tier = assessed[d].tier
  <2>1. Core(ask)[i] = ZoneCore(ask, zone)
    BY DEF Core
  <2> DEFINE item(j) == [assessed |-> assessed[j], phase |-> phases[j],
                         tier |-> assessed[j].tier, priority |-> assessed[j].priority,
                         implementation_group |-> assessed[j].implementation_group]
  <2>2. ZoneCore(ask, zone).items = [j \in Capability |-> item(j)]
    <3> HIDE DEF zone
    <3> QED BY Zenon DEF ZoneCore
  <2>3. items = [j \in Capability |-> item(j)]
    BY <2>1, <2>2
  <2> HIDE DEF items, assessed, phases
  <2> QED BY <2>3
<1>3. \A d \in Capability : /\ assessed[d].tier \in {"tier_0", "tier_1"}
                            /\ assessed[d].band_phase \in Phase
                            /\ assessed[d].tier = "tier_0" => assessed[d].band_phase = 0
  <2> HIDE DEF rules, zone, built, resolved, gated
  <2> QED BY <1>1, AssessedByTheRules
<1> HIDE DEF rules, assessed, items, gated, resolved, built, zone
<1>4. Assessed(assessed)
  BY <1>3 DEF Assessed
<1>5. /\ phases \in [Capability -> Phase]
      /\ \A d \in Capability : InPhase(rules, assessed, phases, d)
  BY <1>1, <1>4, ScheduledInPhase
<1> HIDE DEF phases
<1>6. phases[k] = Max({assessed[d].band_phase : d \in WaitsFor(rules, items, k)})
  BY <1>1, <1>2, <1>4, <1>5, WaitedForIsItsPhase
<1>7. WaitsFor(rules, items, k) \in SUBSET Capability
  BY <1>1, WaitsForAll
<1>8. {assessed[d].band_phase : d \in WaitsFor(rules, items, k)}
         = {items[d].assessed.band_phase : d \in WaitsFor(rules, items, k)}
  BY <1>2, <1>7
<1>9. assessed[k].tier = "tier_0" => phases[k] = 0
  BY <1>3, <1>5 DEF InPhase
<1>10. items[k].phase = IF items[k].tier = "tier_0" THEN 0
                        ELSE Max({items[d].assessed.band_phase : d \in WaitsFor(rules, items, k)})
  BY <1>2, <1>6, <1>8, <1>9
<1> QED
  BY <1>10 DEF items, rules, LatestWaitedFor

\* What the invariant says of phases.
LEMMA PhasesInTheState ==
    ASSUME DataInv
    PROVE  PhaseIsLatestWaitedFor
<1> SUFFICES ASSUME NEW r \in Request, NEW i \in DOMAIN run[r], stage[r] = "computed",
                    NEW k \in Capability
             PROVE  LatestWaitedFor(asks[r].prioritization, run[r][i].items, k)
  BY DEF PhaseIsLatestWaitedFor, LatestWaitedFor
<1>1. RequestInv(r)
  BY DEF DataInv
<1>2. Is(r, "candidates") /\ asks[r] \in AskedCandidates
  BY <1>1 DEF RequestInv, AskedOf, Asked, AskedDelta, AskedParse, Is, Computed, Writing
<1>3. run[r] = Core(asks[r])
  BY <1>1, <1>2 DEF RequestInv, RunOf, Computed
<1> QED
  BY <1>2, <1>3, ItemsOfZone

\* A discretionary capability is scheduled in the latest phase that anything it waits for
\* asks for and no later, a mandatory one at once, under any dependencies without a cycle
\* and in whatever order the ids fall (engine/prioritization.py: _scheduled_phases and
\* _topological_order).
THEOREM ScheduledAsWaitedFor == Spec => []PhaseIsLatestWaitedFor
BY DataInitially, DataStep, PhasesInTheState, PTL DEF Spec

(***************************************************************************)
(* Selections of what is put together                                      *)
(***************************************************************************)
\* A sequence of whatever it is a sequence of.
Listed(s) == s \in Seq(ToSet(s))

\* A list has a length, and its elements are those it is a list of.
LEMMA ListedIs ==
    ASSUME NEW s
    PROVE  /\ Listed(s) => Len(s) \in Nat /\ DOMAIN s = 1..Len(s)
           /\ \A A : s \in Seq(A) => Listed(s) /\ ToSet(s) \subseteq A
           /\ \A n \in Nat : s = [i \in 1..n |-> s[i]] => Listed(s) /\ Len(s) = n
<1>1. Listed(s) => Len(s) \in Nat /\ DOMAIN s = 1..Len(s)
  BY LenProperties DEF Listed
<1>2. ASSUME NEW n \in Nat, s = [i \in 1..n |-> s[i]] PROVE Listed(s) /\ Len(s) = n
  <2>1. DOMAIN s = 1..n
    BY <1>2
  <2>2. \A i \in 1..n : s[i] \in ToSet(s)
    BY <2>1 DEF ToSet
  <2>3. s \in [1..n -> ToSet(s)]
    BY <1>2, <2>2
  <2>4. s \in Seq(ToSet(s))
    BY <2>3, SeqDef
  <2> QED BY <2>1, <2>4, LenProperties DEF Listed
<1>3. ASSUME NEW A, s \in Seq(A) PROVE Listed(s) /\ ToSet(s) \subseteq A
  <2>1. Len(s) \in Nat /\ s \in [1..Len(s) -> A] /\ DOMAIN s = 1..Len(s)
    BY <1>3, LenProperties
  <2>2. s = [i \in 1..Len(s) |-> s[i]]
    BY <2>1
  <2>3. ToSet(s) \subseteq A
    BY <2>1 DEF ToSet
  <2> QED BY <1>2, <2>1, <2>2, <2>3
<1> QED
  BY <1>1, <1>2, <1>3

\* Sequences of nothing and of one thing, and one after another.
LEMMA ListedParts ==
    /\ Listed(<< >>) /\ ToSet(<< >>) = {} /\ Len(<< >>) = 0
    /\ \A x : Listed(<<x>>) /\ ToSet(<<x>>) = {x} /\ Len(<<x>>) = 1
    /\ \A s, t : Listed(s) /\ Listed(t) =>
          /\ Listed(s \o t) /\ ToSet(s \o t) = ToSet(s) \cup ToSet(t)
          /\ Len(s \o t) = Len(s) + Len(t)
          /\ \A i \in 1..Len(s) : (s \o t)[i] = s[i]
          /\ \A i \in 1..Len(t) : (s \o t)[Len(s) + i] = t[i]
<1>1. Listed(<< >>) /\ ToSet(<< >>) = {} /\ Len(<< >>) = 0
  <2>1. ToSet(<< >>) = {}
    BY DEF ToSet
  <2> QED BY <2>1, EmptySeq DEF Listed
<1>2. ASSUME NEW x PROVE Listed(<<x>>) /\ ToSet(<<x>>) = {x} /\ Len(<<x>>) = 1
  <2>1. <<x>> \in Seq({x}) /\ Len(<<x>>) = 1
    OBVIOUS
  <2>2. ToSet(<<x>>) = {x}
    BY DEF ToSet
  <2> QED BY <2>1, <2>2 DEF Listed
<1>3. ASSUME NEW s, NEW t, Listed(s), Listed(t)
      PROVE  /\ Listed(s \o t) /\ ToSet(s \o t) = ToSet(s) \cup ToSet(t)
             /\ Len(s \o t) = Len(s) + Len(t)
             /\ \A i \in 1..Len(s) : (s \o t)[i] = s[i]
             /\ \A i \in 1..Len(t) : (s \o t)[Len(s) + i] = t[i]
  <2> DEFINE A == ToSet(s) \cup ToSet(t)
             q == s \o t
             m == Len(s)
             n == Len(t)
  <2>1. /\ m \in Nat /\ n \in Nat /\ DOMAIN s = 1..m /\ DOMAIN t = 1..n
        /\ s \in [1..m -> ToSet(s)] /\ t \in [1..n -> ToSet(t)]
    BY <1>3, LenProperties DEF Listed
  <2>2. s \in Seq(A) /\ t \in Seq(A)
    <3>1. s \in [1..m -> A] /\ t \in [1..n -> A]
      BY <2>1
    <3> HIDE DEF A
    <3> QED BY <2>1, <3>1, SeqDef
  <2>3. /\ q \in Seq(A) /\ Len(q) = m + n
        /\ \A i \in 1..(m + n) : q[i] = IF i <= m THEN s[i] ELSE t[i - m]
    <3> HIDE DEF A
    <3> QED BY <2>2, ConcatProperties
  <2>4. DOMAIN q = 1..(m + n)
    BY <2>3, LenProperties
  <2> HIDE DEF m, n, q, A
  <2>5. \A i \in 1..m : q[i] = s[i] /\ i \in 1..(m + n)
    BY <2>1, <2>3
  <2>6. \A i \in 1..n : q[m + i] = t[i] /\ m + i \in 1..(m + n)
    <3> SUFFICES ASSUME NEW i \in 1..n PROVE q[m + i] = t[i] /\ m + i \in 1..(m + n)
      OBVIOUS
    <3>1. m + i \in 1..(m + n) /\ ~(m + i <= m) /\ (m + i) - m = i
      BY <2>1
    <3> QED BY <2>3, <3>1
  <2>7. ToSet(q) = A
    <3>1. ToSet(q) = {q[i] : i \in 1..(m + n)} /\ ToSet(s) = {s[i] : i \in 1..m}
          /\ ToSet(t) = {t[i] : i \in 1..n}
      BY <2>1, <2>4 DEF ToSet
    <3>2. \A i \in 1..(m + n) : q[i] \in A
      BY <2>3, <2>4, ElementOfSeq
    <3>3. A \subseteq ToSet(q)
      BY <2>5, <2>6, <3>1 DEF A
    <3> QED BY <3>1, <3>2, <3>3
  <2>8. q \in Seq(ToSet(q))
    BY <2>3, <2>7
  <2> QED
    BY <2>3, <2>5, <2>6, <2>7, <2>8 DEF Listed, q, A, m, n
<1> QED
  BY <1>1, <1>2, <1>3

\* A strictly increasing list is the only one of its numbers.
Increasing(a, n) == n \in Nat /\ a \in [1..n -> Nat] /\ \A i, j \in 1..n : i < j => a[i] < a[j]

\* The same numbers in ascending order are the same list.
LEMMA IncreasingOnce ==
    ASSUME NEW a, NEW m, NEW b, NEW n, Increasing(a, m), Increasing(b, n),
           \A i \in 1..m : \E j \in 1..n : a[i] = b[j],
           \A j \in 1..n : \E i \in 1..m : b[j] = a[i]
    PROVE  m = n /\ a = b
<1>1. /\ m \in Nat /\ n \in Nat /\ a \in [1..m -> Nat] /\ b \in [1..n -> Nat]
      /\ \A i, j \in 1..m : i < j => a[i] < a[j]
      /\ \A i, j \in 1..n : i < j => b[i] < b[j]
  BY DEF Increasing
<1> DEFINE U == {i \in 1..m : i \notin 1..n \/ a[i] # b[i]}
<1>2. U = {}
  <2> SUFFICES ASSUME U # {} PROVE FALSE
    OBVIOUS
  <2>1. U \subseteq Nat
    OBVIOUS
  <2>2. PICK i \in U : \A k \in U : ~(k < i)
    <3> HIDE DEF U
    <3> QED BY <2>1, LeastOne
  <2>3. i \in 1..m /\ (i \notin 1..n \/ a[i] # b[i])
    OBVIOUS
  <2>4. \A k \in 1..m : k < i => k \in 1..n /\ a[k] = b[k]
    BY <2>2
  <2>5. PICK j \in 1..n : a[i] = b[j]
    BY <2>3
  <2>6. i < j \/ i = j \/ j < i
    BY <2>3
  <2>7. ~(j < i)
    <3> SUFFICES ASSUME j < i PROVE FALSE
      OBVIOUS
    <3>1. j \in 1..m
      BY <1>1, <2>3
    <3>2. a[j] = b[j] /\ a[j] < a[i]
      BY <1>1, <2>3, <2>4, <3>1
    <3>3. a[i] \in Nat
      BY <1>1, <2>3
    <3> QED BY <2>5, <3>2, <3>3
  <2>8. i # j
    BY <2>3, <2>5
  <2>9. i < j
    BY <2>6, <2>7, <2>8
  <2>10. i \in 1..n
    BY <1>1, <2>3, <2>9
  <2>11. PICK k \in 1..m : b[i] = a[k]
    BY <2>10
  <2>12. b[i] < b[j] /\ b[i] \in Nat /\ a[i] \in Nat /\ a[k] \in Nat
    BY <1>1, <2>3, <2>9, <2>10
  <2>13. a[k] < a[i]
    BY <2>5, <2>11, <2>12
  <2>14. k < i
    <3>1. k < i \/ k = i \/ i < k
      BY <2>3
    <3>2. ~(k = i)
      BY <2>12, <2>13
    <3>3. ~(i < k)
      <4> SUFFICES ASSUME i < k PROVE FALSE
        OBVIOUS
      <4>1. a[i] < a[k]
        BY <1>1, <2>3
      <4> QED BY <2>12, <2>13, <4>1
    <3> QED BY <3>1, <3>2, <3>3
  <2>15. a[k] = b[k] /\ k \in 1..n
    BY <2>4, <2>14
  <2>16. b[k] < b[i]
    BY <1>1, <2>10, <2>14, <2>15
  <2>17. b[i] = b[k]
    BY <2>11, <2>15
  <2> QED BY <2>12, <2>16, <2>17
<1>3. \A i \in 1..m : i \in 1..n /\ a[i] = b[i]
  BY <1>2
<1>4. \A j \in 1..n : j \in 1..m
  <2> SUFFICES ASSUME NEW j \in 1..n PROVE j \in 1..m
    OBVIOUS
  <2>1. PICK i \in 1..m : b[j] = a[i]
    OBVIOUS
  <2>2. i \in 1..n /\ b[j] = b[i]
    BY <1>3, <2>1
  <2>3. ~(i < j) /\ ~(j < i)
    <3>1. i < j => b[i] < b[j]
      BY <1>1, <2>2
    <3>2. j < i => b[j] < b[i]
      BY <1>1, <2>2
    <3>3. b[i] \in Nat
      BY <1>1, <2>2
    <3> QED BY <2>2, <3>1, <3>2, <3>3
  <2> QED BY <2>3
<1>5. m = n
  <2>1. m > 0 => m \in 1..n
    BY <1>1, <1>3
  <2>2. n > 0 => n \in 1..m
    <3>1. n > 0 => n \in 1..n
      BY <1>1
    <3> QED BY <1>4, <3>1
  <2> QED BY <1>1, <2>1, <2>2
<1> QED
  BY <1>1, <1>3, <1>5

\* What is kept, by the places it is kept from.
Keeps(s, X, at, n) ==
    /\ Increasing(at, n)
    /\ \A i \in 1..n : at[i] \in 1..Len(s) /\ s[at[i]] \in X
    /\ \A i \in 1..Len(s) : s[i] \in X => \E j \in 1..n : at[j] = i

\* What is kept of a list: its elements that are in the set, each from a place of its
\* own and in the order of the places.
LEMMA OnlyBy ==
    ASSUME NEW s, Listed(s), NEW X
    PROVE  /\ Listed(Only(s, X)) /\ ToSet(Only(s, X)) = ToSet(s) \cap X
           /\ \E at : /\ Keeps(s, X, at, Len(Only(s, X)))
                      /\ \A n \in 1..Len(Only(s, X)) : Only(s, X)[n] = s[at[n]]
<1> DEFINE A == ToSet(s)
           t == Only(s, X)
           at == Ascending(Positions(s, X))
<1>1. s \in Seq(A)
  BY DEF Listed
<1>2. /\ t \in Seq(A) /\ Len(t) \in Nat
      /\ at \in [1..Len(t) -> 1..Len(s)]
      /\ \A n \in 1..Len(t) : t[n] = s[at[n]] /\ t[n] \in X
      /\ \A m, n \in 1..Len(t) : m < n => at[m] < at[n]
      /\ \A i \in 1..Len(s) : s[i] \in X => \E n \in 1..Len(t) : at[n] = i
  <2> HIDE DEF A
  <2> QED BY <1>1, OnlyKeeps
<1>3. ToSet(t) = ToSet(s) \cap X
  BY <1>1, OnlySet
<1> HIDE DEF A, t, at
<1>4. Listed(t)
  BY <1>2, ListedIs
<1>5. Len(s) \in Nat /\ at \in [1..Len(t) -> Nat]
  BY <1>2, ListedIs
<1>6. Keeps(s, X, at, Len(t))
  BY <1>2, <1>5 DEF Keeps, Increasing
<1> QED
  BY <1>2, <1>3, <1>4, <1>6 DEF t

\* Any such places give the selection.
LEMMA OnlyIs ==
    ASSUME NEW s, Listed(s), NEW X, NEW at, NEW t, Listed(t), Keeps(s, X, at, Len(t)),
           \A n \in 1..Len(t) : t[n] = s[at[n]]
    PROVE  Only(s, X) = t
<1> DEFINE q == Only(s, X)
<1>1. Listed(q)
  BY OnlyBy
<1>2. PICK a : Keeps(s, X, a, Len(q)) /\ \A n \in 1..Len(q) : q[n] = s[a[n]]
  BY OnlyBy
<1> HIDE DEF q
<1>3. Len(q) = Len(t) /\ a = at
  <2>1. \A i \in 1..Len(q) : \E j \in 1..Len(t) : a[i] = at[j]
    BY <1>2 DEF Keeps
  <2>2. \A j \in 1..Len(t) : \E i \in 1..Len(q) : at[j] = a[i]
    BY <1>2 DEF Keeps
  <2> QED BY <1>2, <2>1, <2>2, IncreasingOnce DEF Keeps
<1>4. /\ Len(t) \in Nat
      /\ q = [n \in 1..Len(t) |-> q[n]] /\ t = [n \in 1..Len(t) |-> t[n]]
  <2>1. Len(t) \in Nat /\ q \in [1..Len(t) -> ToSet(q)] /\ t \in [1..Len(t) -> ToSet(t)]
    BY <1>1, <1>3, LenProperties DEF Listed
  <2> QED BY <2>1
<1>5. \A n \in 1..Len(t) : q[n] = t[n]
  BY <1>2, <1>3
<1> QED
  BY <1>4, <1>5 DEF q

\* A selection looks at nothing else.
LEMMA OnlyAlike ==
    ASSUME NEW s, Listed(s), NEW X, NEW Y, \A e \in ToSet(s) : e \in X <=> e \in Y
    PROVE  Only(s, X) = Only(s, Y)
<1>1. Positions(s, X) = Positions(s, Y)
  BY DEF Positions, ToSet
<1>2. Only(s, X) = [n \in DOMAIN Ascending(Positions(s, X)) |-> s[Ascending(Positions(s, X))[n]]]
  BY DEF Only, Positions
<1>3. Only(s, Y) = [n \in DOMAIN Ascending(Positions(s, Y)) |-> s[Ascending(Positions(s, Y))[n]]]
  BY DEF Only, Positions
<1> QED
  BY <1>1, <1>2, <1>3

\* Nothing is kept.
LEMMA OnlyNone ==
    ASSUME NEW s, Listed(s), NEW X, ToSet(s) \cap X = {}
    PROVE  Only(s, X) = << >>
<1>1. Listed(Only(s, X)) /\ ToSet(Only(s, X)) = {}
  BY OnlyBy
<1>2. Only(s, X) \in Seq({})
  BY <1>1 DEF Listed
<1> QED
  BY <1>2, EmptySeq

\* All of it.
LEMMA OnlyAll ==
    ASSUME NEW s, Listed(s), NEW X, ToSet(s) \subseteq X
    PROVE  Only(s, X) = s
<1> DEFINE n == Len(s)
           at == [i \in 1..n |-> i]
<1>1. n \in Nat /\ DOMAIN s = 1..n /\ \A i \in 1..n : s[i] \in X
  <2>1. n \in Nat /\ DOMAIN s = 1..n
    BY ListedIs
  <2> QED BY <2>1 DEF ToSet
<1>2. Keeps(s, X, at, n) /\ \A i \in 1..n : s[i] = s[at[i]]
  <2> HIDE DEF n
  <2>1. Increasing(at, n)
    BY <1>1 DEF Increasing
  <2>2. n = Len(s)
    BY DEF n
  <2> QED BY <1>1, <2>1, <2>2 DEF Keeps
<1> HIDE DEF at
<1> QED
  BY <1>2, OnlyIs DEF n

\* What is kept of one sequence after another.
LEMMA OnlyOfBoth ==
    ASSUME NEW s, Listed(s), NEW t, Listed(t), NEW X
    PROVE  Only(s \o t, X) = Only(s, X) \o Only(t, X)
<1> DEFINE p == Only(s, X)
           q == Only(t, X)
           l == Len(s)
           m == Len(p)
           n == Len(q)
<1>1. Listed(p) /\ Listed(q)
  BY OnlyBy
<1>2. PICK a : Keeps(s, X, a, m) /\ \A i \in 1..m : p[i] = s[a[i]]
  BY OnlyBy
<1>3. PICK b : Keeps(t, X, b, n) /\ \A i \in 1..n : q[i] = t[b[i]]
  BY OnlyBy
<1> HIDE DEF p, q
<1>4. /\ Listed(p \o q) /\ Len(p \o q) = m + n
      /\ \A i \in 1..m : (p \o q)[i] = p[i]
      /\ \A i \in 1..n : (p \o q)[m + i] = q[i]
  BY <1>1, ListedParts
<1>5. /\ Listed(s \o t) /\ Len(s \o t) = l + Len(t)
      /\ \A i \in 1..l : (s \o t)[i] = s[i]
      /\ \A i \in 1..Len(t) : (s \o t)[l + i] = t[i]
  BY ListedParts
<1>6. l \in Nat /\ m \in Nat /\ n \in Nat /\ Len(t) \in Nat
  BY <1>1, ListedIs
<1>7. /\ a \in [1..m -> Nat] /\ (\A i, j \in 1..m : i < j => a[i] < a[j])
      /\ b \in [1..n -> Nat] /\ (\A i, j \in 1..n : i < j => b[i] < b[j])
      /\ \A i \in 1..m : a[i] \in 1..l /\ s[a[i]] \in X
      /\ \A i \in 1..n : b[i] \in 1..Len(t) /\ t[b[i]] \in X
      /\ \A i \in 1..l : s[i] \in X => \E j \in 1..m : a[j] = i
      /\ \A i \in 1..Len(t) : t[i] \in X => \E j \in 1..n : b[j] = i
  BY <1>2, <1>3 DEF Keeps, Increasing
<1> DEFINE at == [i \in 1..(m + n) |-> IF i <= m THEN a[i] ELSE l + b[i - m]]
           u == s \o t
           v == p \o q
           k == Len(t)
<1>8. u = s \o t /\ v = p \o q /\ k = Len(t)
  OBVIOUS
<1> HIDE DEF l, m, n, u, v, k
<1>9. /\ \A i \in 1..m : i \in 1..(m + n) /\ at[i] = a[i]
      /\ \A i \in 1..n : m + i \in 1..(m + n) /\ at[m + i] = l + b[i]
  <2>1. ASSUME NEW i \in 1..m PROVE i \in 1..(m + n) /\ at[i] = a[i]
    BY <1>6
  <2>2. ASSUME NEW i \in 1..n PROVE m + i \in 1..(m + n) /\ at[m + i] = l + b[i]
    <3>1. m + i \in 1..(m + n) /\ ~(m + i <= m) /\ (m + i) - m = i
      BY <1>6
    <3> QED BY <3>1
  <2> QED BY <2>1, <2>2
<1>10. \A i \in 1..(m + n) : i \in 1..m \/ \E j \in 1..n : i = m + j
  <2> SUFFICES ASSUME NEW i \in 1..(m + n), i \notin 1..m PROVE \E j \in 1..n : i = m + j
    OBVIOUS
  <2>1. i - m \in 1..n /\ i = m + (i - m)
    BY <1>6
  <2> QED BY <2>1
<1> HIDE DEF at
<1>11. \A i \in 1..m : a[i] \in Nat /\ a[i] <= l
  BY <1>6, <1>7
<1>12. \A i \in 1..n : b[i] \in Nat /\ b[i] >= 1 /\ b[i] <= k
  BY <1>6, <1>7, <1>8
<1>13. at \in [1..(m + n) -> Nat]
  <2>1. ASSUME NEW i \in 1..(m + n) PROVE at[i] \in Nat
    <3>1. CASE i \in 1..m
      BY <1>9, <1>11, <3>1
    <3>2. CASE i \notin 1..m
      <4>1. PICK j \in 1..n : i = m + j
        BY <1>10, <3>2
      <4>2. at[i] = l + b[j] /\ b[j] \in Nat
        BY <1>9, <1>12, <4>1
      <4> QED BY <1>6, <4>2
    <3> QED BY <3>1, <3>2
  <2>2. at = [i \in 1..(m + n) |-> at[i]]
    BY DEF at
  <2> QED BY <2>1, <2>2
<1>14. \A i, j \in 1..(m + n) : i < j => at[i] < at[j]
  <2> SUFFICES ASSUME NEW i \in 1..(m + n), NEW j \in 1..(m + n), i < j PROVE at[i] < at[j]
    OBVIOUS
  <2>1. CASE i \in 1..m /\ j \in 1..m
    BY <1>7, <1>9, <2>1
  <2>2. CASE i \in 1..m /\ j \notin 1..m
    <3>1. PICK h \in 1..n : j = m + h
      BY <1>10, <2>2
    <3>2. at[i] = a[i] /\ at[j] = l + b[h] /\ a[i] <= l /\ b[h] >= 1 /\ a[i] \in Nat /\ b[h] \in Nat
      BY <1>9, <1>11, <1>12, <2>2, <3>1
    <3> QED BY <1>6, <3>2
  <2>3. CASE i \notin 1..m
    <3>1. PICK g \in 1..n : i = m + g
      BY <1>10, <2>3
    <3>2. j \notin 1..m
      BY <1>6, <3>1
    <3>3. PICK h \in 1..n : j = m + h
      BY <1>10, <3>2
    <3>4. g < h
      BY <1>6, <3>1, <3>3
    <3>5. b[g] < b[h] /\ at[i] = l + b[g] /\ at[j] = l + b[h] /\ b[g] \in Nat /\ b[h] \in Nat
      BY <1>7, <1>9, <1>12, <3>1, <3>3, <3>4
    <3> QED BY <1>6, <3>5
  <2> QED BY <2>1, <2>2, <2>3
<1>15. Increasing(at, m + n)
  BY <1>6, <1>13, <1>14 DEF Increasing
<1>16. \A i \in 1..l : i \in 1..(l + k) /\ u[i] = s[i]
  BY <1>5, <1>6, <1>8
<1>17. \A i \in 1..k : l + i \in 1..(l + k) /\ u[l + i] = t[i]
  BY <1>5, <1>6, <1>8
<1>18. \A i \in 1..(m + n) : at[i] \in 1..(l + k) /\ u[at[i]] \in X /\ v[i] = u[at[i]]
  <2> SUFFICES ASSUME NEW i \in 1..(m + n)
               PROVE  at[i] \in 1..(l + k) /\ u[at[i]] \in X /\ v[i] = u[at[i]]
    OBVIOUS
  <2>1. CASE i \in 1..m
    <3>1. a[i] \in 1..l /\ s[a[i]] \in X /\ at[i] = a[i] /\ v[i] = p[i] /\ p[i] = s[a[i]]
      BY <1>2, <1>4, <1>7, <1>8, <1>9, <2>1
    <3> QED BY <1>16, <3>1
  <2>2. CASE i \notin 1..m
    <3>1. PICK h \in 1..n : i = m + h
      BY <1>10, <2>2
    <3>2. b[h] \in 1..k /\ t[b[h]] \in X /\ at[i] = l + b[h] /\ v[i] = q[h] /\ q[h] = t[b[h]]
      BY <1>3, <1>4, <1>7, <1>8, <1>9, <3>1
    <3> QED BY <1>17, <3>2
  <2> QED BY <2>1, <2>2
<1>19. \A i \in 1..(l + k) : u[i] \in X => \E j \in 1..(m + n) : at[j] = i
  <2> SUFFICES ASSUME NEW i \in 1..(l + k), u[i] \in X PROVE \E j \in 1..(m + n) : at[j] = i
    OBVIOUS
  <2>1. CASE i \in 1..l
    <3>1. PICK j \in 1..m : a[j] = i
      BY <1>7, <1>16, <2>1
    <3> QED BY <1>9, <3>1
  <2>2. CASE i \notin 1..l
    <3>1. i - l \in 1..k /\ i = l + (i - l)
      BY <1>6, <1>8, <2>2
    <3>2. t[i - l] \in X
      BY <1>17, <3>1
    <3>3. PICK j \in 1..n : b[j] = i - l
      BY <1>7, <1>8, <3>1, <3>2
    <3>4. at[m + j] = i /\ m + j \in 1..(m + n)
      BY <1>9, <3>1, <3>3
    <3> QED BY <3>4
  <2> QED BY <2>1, <2>2
<1>20. Keeps(u, X, at, m + n)
  <2>1. Len(u) = l + k
    BY <1>5, <1>8
  <2> QED BY <1>15, <1>18, <1>19, <2>1 DEF Keeps
<1>21. Only(u, X) = v
  <2>1. Listed(u) /\ Listed(v) /\ Len(v) = m + n
    BY <1>4, <1>5, <1>8
  <2>2. \A i \in 1..Len(v) : v[i] = u[at[i]]
    BY <1>18, <2>1
  <2> QED BY <1>20, <2>1, <2>2, OnlyIs
<1> QED
  BY <1>8, <1>21 DEF p, q

\* Sequences one after another, up to each of them.
FlatBy(g, fs) ==
    /\ g[0] = << >>
    /\ \A n \in 1..Len(fs) : g[n] = g[n - 1] \o fs[n]
    /\ \A n \in 0..Len(fs) : Listed(g[n])
    /\ FlattenSeq(fs) = g[Len(fs)]
AllListed(fs) == Listed(fs) /\ \A n \in 1..Len(fs) : Listed(fs[n])

\* Flattening puts one list after another.
LEMMA FlatStepwise ==
    ASSUME NEW fs, AllListed(fs)
    PROVE  \E g : FlatBy(g, fs)
<1> DEFINE L == Len(fs)
           A == UNION {ToSet(fs[n]) : n \in 1..L}
           D == Seq(A)
<1>1. L \in Nat /\ DOMAIN fs = 1..L /\ \A n \in 1..L : Listed(fs[n])
  BY ListedIs DEF AllListed
<1>2. \A n \in 1..L : fs[n] \in D
  <2> SUFFICES ASSUME NEW n \in 1..L PROVE fs[n] \in D
    OBVIOUS
  <2>1. fs[n] \in Seq(ToSet(fs[n])) /\ ToSet(fs[n]) \subseteq A
    BY <1>1 DEF Listed
  <2> DEFINE s == fs[n]
             m == Len(s)
  <2>2. m \in Nat /\ s \in [1..m -> ToSet(s)]
    BY <2>1, LenProperties
  <2>3. s \in [1..m -> A]
    BY <2>1, <2>2
  <2> HIDE DEF A
  <2> QED BY <2>2, <2>3, SeqDef
<1> HIDE DEF A
<1>3. << >> \in D /\ \A x \in D, y \in D : x \o y \in D
  BY EmptySeq, ConcatProperties
<1>4. \A x \in D : << >> \o x = x
  BY ConcatEmptySeq
<1>5. \A x \in D : Listed(x)
  BY ListedIs
<1> HIDE DEF D, L
<1> DEFINE next == [p \in (1..L) \X D |-> p[2] \o fs[p[1]]]
<1>6. next \in [(1..L) \X D -> D]
  <2>1. \A p \in (1..L) \X D : p[2] \o fs[p[1]] \in D
    BY <1>2, <1>3
  <2> QED BY <2>1
<1>7. \A n \in 1..L, x \in D : next[<<n, x>>] = x \o fs[n]
  OBVIOUS
<1> HIDE DEF next
<1>8. PICK g : Walks(L, D, << >>, next, g)
  BY <1>1, <1>3, <1>6, StepByStep DEF Stepping
<1>9. g \in [0..L -> D] /\ g[0] = << >> /\ \A n \in 1..L : g[n] = g[n - 1] \o fs[n]
  <2>1. g \in [0..L -> D] /\ g[0] = << >> /\ \A n \in 1..L : g[n] = next[<<n, g[n - 1]>>]
    BY <1>8 DEF Walks
  <2>2. \A n \in 1..L : n - 1 \in 0..L
    BY <1>1
  <2>3. \A n \in 1..L : g[n - 1] \in D
    BY <2>1, <2>2
  <2> QED BY <1>7, <2>1, <2>3
<1>10. 1 \in 1..L => g[1] = fs[1]
  <2>1. SUFFICES ASSUME 1 \in 1..L
                 PROVE  g[1] = fs[1]
    OBVIOUS
  <2>2. g[1] = g[1 - 1] \o fs[1]
    BY <1>9, <2>1
  <2>3. 1 - 1 = 0
    OBVIOUS
  <2>4. g[1] = << >> \o fs[1]
    BY <1>9, <2>2, <2>3
  <2> QED BY <1>2, <1>4, <2>1, <2>4
<1>11. FlattenSeq(fs) = g[L]
  <2>1. CASE L = 0
    <3>1. fs = << >>
      BY <2>1, EmptySeq DEF L, AllListed, Listed
    <3>2. FlattenSeq(fs) = fs
      BY <2>1 DEF FlattenSeq, L
    <3> QED BY <1>9, <2>1, <3>1, <3>2
  <2>2. CASE L # 0
    <3> DEFINE Unfolds(f) == f = [i \in 1..L |-> IF i = 1 THEN fs[i] ELSE f[i - 1] \o fs[i]]
               f == CHOOSE h : Unfolds(h)
               h == [i \in 1..L |-> g[i]]
    <3>1. FlattenSeq(fs) = f[L]
      BY <2>2 DEF FlattenSeq, L
    <3>2. Unfolds(h)
      <4>1. ASSUME NEW i \in 1..L PROVE g[i] = IF i = 1 THEN fs[i] ELSE h[i - 1] \o fs[i]
        <5>1. CASE i = 1
          BY <1>10, <5>1
        <5>2. CASE i # 1
          <6>1. i - 1 \in 1..L
            BY <1>1, <5>2
          <6> QED BY <1>9, <5>2, <6>1
        <5> QED BY <5>1, <5>2
      <4> QED BY <4>1
    <3>3. Unfolds(f)
      <4> HIDE DEF Is, h
      <4> QED BY <3>2
    <3> HIDE DEF f
    <3>4. DOMAIN f = 1..L /\ \A i \in 1..L : f[i] = IF i = 1 THEN fs[i] ELSE f[i - 1] \o fs[i]
      BY <3>3
    <3> DEFINE T == {n \in 0..L : n = 0 \/ f[n] = g[n]}
    <3>5. 0 \in T
      BY <1>1
    <3>6. ASSUME NEW n \in 1..L, n - 1 \in T PROVE n \in T
      <4>1. n \in 0..L /\ (n - 1 = 0 \/ f[n - 1] = g[n - 1])
        BY <1>1, <3>6
      <4>2. CASE n = 1
        BY <1>10, <3>4, <4>1, <4>2
      <4>3. CASE n # 1
        <5>1. f[n - 1] = g[n - 1]
          BY <4>1, <4>3
        <5>2. f[n] = f[n - 1] \o fs[n] /\ g[n] = g[n - 1] \o fs[n]
          BY <1>9, <3>4, <4>3
        <5> QED BY <4>1, <5>1, <5>2
      <4> QED BY <4>2, <4>3
    <3> HIDE DEF T
    <3>7. \A n \in 0..L : n \in T
      BY <1>1, <3>5, <3>6, Upward
    <3>8. f[L] = g[L]
      BY <1>1, <2>2, <3>7 DEF T
    <3> QED BY <3>1, <3>8
  <2> QED BY <2>1, <2>2
<1>12. \A n \in 0..L : Listed(g[n])
  BY <1>5, <1>9
<1>13. FlatBy(g, fs)
  BY <1>9, <1>11, <1>12 DEF FlatBy, L
<1> QED
  BY <1>13

\* A selection that finds nothing but in one of them.
LEMMA OnlyOfOne ==
    ASSUME NEW fs, AllListed(fs), NEW X, NEW i \in 1..Len(fs),
           \A n \in 1..Len(fs) : n # i => ToSet(fs[n]) \cap X = {}
    PROVE  Listed(FlattenSeq(fs)) /\ Only(FlattenSeq(fs), X) = Only(fs[i], X)
<1> DEFINE L == Len(fs)
           q == Only(fs[i], X)
<1>1. L \in Nat /\ \A n \in 1..L : Listed(fs[n])
  BY ListedIs DEF AllListed
<1>2. PICK g : FlatBy(g, fs)
  BY FlatStepwise
<1>3. /\ g[0] = << >> /\ FlattenSeq(fs) = g[L]
      /\ \A n \in 1..L : g[n] = g[n - 1] \o fs[n]
      /\ \A n \in 0..L : Listed(g[n])
  BY <1>2 DEF FlatBy
<1>4. Listed(q)
  BY <1>1, OnlyBy
<1>5. /\ << >> \o q = q /\ q \o << >> = q /\ << >> \o << >> = << >>
  <2>1. q \in Seq(ToSet(q))
    BY <1>4 DEF Listed
  <2> HIDE DEF q
  <2>2. << >> \o q = q /\ q \o << >> = q
    BY <2>1, ConcatEmptySeq
  <2>3. << >> \o << >> = << >>
    BY ConcatEmptySeq, EmptySeq
  <2> QED BY <2>2, <2>3
<1>6. \A n \in 1..L : n # i => Only(fs[n], X) = << >>
  BY <1>1, OnlyNone
<1>7. Only(<< >>, X) = << >>
  BY ListedParts, OnlyNone
<1>8. \A n \in 1..L : Only(g[n], X) = Only(g[n - 1], X) \o Only(fs[n], X)
  <2> SUFFICES ASSUME NEW n \in 1..L
               PROVE  Only(g[n], X) = Only(g[n - 1], X) \o Only(fs[n], X)
    OBVIOUS
  <2>1. n - 1 \in 0..L
    BY <1>1
  <2>2. Listed(g[n - 1]) /\ Listed(fs[n])
    BY <1>1, <1>3, <2>1
  <2>3. Only(g[n - 1] \o fs[n], X) = Only(g[n - 1], X) \o Only(fs[n], X)
    BY <2>2, OnlyOfBoth
  <2> QED BY <1>3, <2>3
<1> DEFINE T == {n \in 0..L : Only(g[n], X) = IF n < i THEN << >> ELSE q}
<1>9. i \in 1..L
  OBVIOUS
<1>q. Only(fs[i], X) = q
  OBVIOUS
<1> HIDE DEF L, q
<1>10. 0 \in T
  BY <1>1, <1>3, <1>7, <1>9
<1>11. ASSUME NEW n \in 1..L, n - 1 \in T PROVE n \in T
  <2>1. n \in 0..L
    BY <1>1
  <2>2. Only(g[n - 1], X) = IF n - 1 < i THEN << >> ELSE q
    BY <1>11
  <2>3. CASE n < i
    <3>1. n - 1 < i /\ n # i
      BY <1>1, <1>9, <2>3
    <3>2. Only(g[n], X) = << >>
      BY <1>5, <1>6, <1>8, <2>2, <3>1
    <3> QED BY <2>1, <2>3, <3>2
  <2>4. CASE n = i
    <3>1. n - 1 < i /\ ~(n < i)
      BY <1>1, <1>9, <2>4
    <3>2. Only(g[n], X) = q
      BY <1>5, <1>8, <1>q, <2>2, <2>4, <3>1
    <3> QED BY <2>1, <3>1, <3>2
  <2>5. CASE n > i
    <3>1. ~(n - 1 < i) /\ ~(n < i) /\ n # i
      BY <1>1, <1>9, <2>5
    <3>2. Only(g[n], X) = q
      BY <1>5, <1>6, <1>8, <2>2, <3>1
    <3> QED BY <2>1, <3>1, <3>2
  <2> QED BY <1>1, <1>9, <2>3, <2>4, <2>5
<1> HIDE DEF T
<1>12. \A n \in 0..L : n \in T
  BY <1>1, <1>10, <1>11, Upward
<1>13. Only(g[L], X) = q
  <2>1. L \in 0..L /\ ~(L < i)
    BY <1>1, <1>9
  <2> QED BY <1>12, <2>1 DEF T
<1>14. Listed(g[L])
  BY <1>1, <1>3
<1> QED
  BY <1>3, <1>13, <1>14 DEF q

\* What is in one sequence after another is in one of them.
LEMMA FlatSet ==
    ASSUME NEW fs, AllListed(fs)
    PROVE  /\ Listed(FlattenSeq(fs))
           /\ \A e \in ToSet(FlattenSeq(fs)) : \E n \in 1..Len(fs) : e \in ToSet(fs[n])
<1> DEFINE L == Len(fs)
<1>1. L \in Nat /\ \A n \in 1..L : Listed(fs[n])
  BY ListedIs DEF AllListed
<1>2. PICK g : FlatBy(g, fs)
  BY FlatStepwise
<1>3. /\ g[0] = << >> /\ FlattenSeq(fs) = g[L]
      /\ \A n \in 1..L : g[n] = g[n - 1] \o fs[n]
      /\ \A n \in 0..L : Listed(g[n])
  BY <1>2 DEF FlatBy
<1> HIDE DEF L
<1> DEFINE T == {n \in 0..L : \A e \in ToSet(g[n]) : \E m \in 1..L : e \in ToSet(fs[m])}
<1>4. 0 \in T
  BY <1>1, <1>3, ListedParts
<1>5. ASSUME NEW n \in 1..L, n - 1 \in T PROVE n \in T
  <2>1. n \in 0..L /\ n - 1 \in 0..L
    BY <1>1
  <2>2. \A e \in ToSet(g[n - 1]) : \E m \in 1..L : e \in ToSet(fs[m])
    BY <1>5
  <2>3. ToSet(g[n]) = ToSet(g[n - 1]) \cup ToSet(fs[n])
    <3>1. Listed(g[n - 1]) /\ Listed(fs[n]) /\ g[n] = g[n - 1] \o fs[n]
      BY <1>1, <1>3, <2>1
    <3> QED BY <3>1, ListedParts
  <2> QED BY <2>1, <2>2, <2>3
<1> HIDE DEF T
<1>6. \A n \in 0..L : n \in T
  BY <1>1, <1>4, <1>5, Upward
<1>7. L \in 0..L /\ L \in T
  BY <1>1, <1>6
<1>8. \A e \in ToSet(g[L]) : \E n \in 1..L : e \in ToSet(fs[n])
  BY <1>7 DEF T
<1>9. Listed(g[L])
  BY <1>3, <1>7
<1> QED
  BY <1>3, <1>8, <1>9 DEF L

(***************************************************************************)
(* What the ledger tells of a capability of a zone                         *)
(***************************************************************************)
\* The entries of one zone after another, and in a zone those of one capability
\* after another, between a head and a tail that are of no capability.
Sections(n, order, head, blocks, tail) ==
    /\ n \in Nat /\ Listed(order)
    /\ \A i \in 1..n :
          /\ Listed(head[i]) /\ Listed(tail[i]) /\ AllListed(blocks[i])
          /\ Len(blocks[i]) = Len(order)
          /\ \A e \in ToSet(head[i]) \cup ToSet(tail[i]) : e.zone = i /\ e.capability = NoCapability
          /\ \A j \in 1..Len(order) : \A e \in ToSet(blocks[i][j]) :
                e.zone = i /\ e.capability = order[j]
Section(head, blocks, tail, i) == (head[i] \o FlattenSeq(blocks[i])) \o tail[i]

\* What is kept is of one capability in one zone, so of one block of one section.
LEMMA OnlyOfBlock ==
    ASSUME NEW n, NEW order, NEW head, NEW blocks, NEW tail,
           Sections(n, order, head, blocks, tail),
           NEW i \in 1..n, NEW j \in 1..Len(order), order[j] # NoCapability,
           \A l \in 1..Len(order) : order[l] = order[j] => l = j,
           NEW X, \A e \in X : e.zone = i /\ e.capability = order[j]
    PROVE  LET s == FlattenSeq([z \in 1..n |-> Section(head, blocks, tail, z)])
           IN  Listed(s) /\ Only(s, X) = Only(blocks[i][j], X)
<1> DEFINE fs == [z \in 1..n |-> Section(head, blocks, tail, z)]
           m == Len(order)
<1>1. /\ n \in Nat /\ m \in Nat
      /\ \A z \in 1..n : /\ Listed(head[z]) /\ Listed(tail[z]) /\ AllListed(blocks[z])
                         /\ Len(blocks[z]) = m
  BY ListedIs DEF Sections
<1>2. \A z \in 1..n : \A l \in 1..m : Listed(blocks[z][l])
  BY <1>1 DEF AllListed
<1>3. ASSUME NEW z \in 1..n
      PROVE  /\ Listed(FlattenSeq(blocks[z]))
             /\ Listed(Section(head, blocks, tail, z))
             /\ \A e \in ToSet(Section(head, blocks, tail, z)) : e.zone = z
  <2>1. /\ Listed(FlattenSeq(blocks[z]))
        /\ \A e \in ToSet(FlattenSeq(blocks[z])) : \E l \in 1..m : e \in ToSet(blocks[z][l])
    BY <1>1, FlatSet
  <2>2. \A e \in ToSet(FlattenSeq(blocks[z])) : e.zone = z
    BY <2>1 DEF Sections
  <2>3. /\ Listed(head[z] \o FlattenSeq(blocks[z]))
        /\ ToSet(head[z] \o FlattenSeq(blocks[z])) = ToSet(head[z]) \cup ToSet(FlattenSeq(blocks[z]))
    BY <1>1, <2>1, ListedParts
  <2> DEFINE t == head[z] \o FlattenSeq(blocks[z])
  <2> HIDE DEF t
  <2>4. Listed(t) /\ ToSet(t) = ToSet(head[z]) \cup ToSet(FlattenSeq(blocks[z]))
    BY <2>3 DEF t
  <2>5. Listed(t \o tail[z]) /\ ToSet(t \o tail[z]) = ToSet(t) \cup ToSet(tail[z])
    BY <1>1, <2>4, ListedParts
  <2>6. Section(head, blocks, tail, z) = t \o tail[z]
    BY DEF Section, t
  <2>7. \A e \in ToSet(head[z]) \cup ToSet(tail[z]) : e.zone = z
    BY DEF Sections
  <2> QED BY <2>1, <2>2, <2>4, <2>5, <2>6, <2>7
<1>4. AllListed(fs) /\ Len(fs) = n /\ \A z \in 1..n : fs[z] = Section(head, blocks, tail, z)
  <2>1. fs = [z \in 1..n |-> fs[z]]
    OBVIOUS
  <2>2. \A z \in 1..n : fs[z] = Section(head, blocks, tail, z)
    OBVIOUS
  <2> HIDE DEF fs
  <2>3. Listed(fs) /\ Len(fs) = n
    BY <1>1, <2>1, ListedIs
  <2> QED BY <1>3, <2>2, <2>3 DEF AllListed
<1>5. Listed(FlattenSeq(fs)) /\ Only(FlattenSeq(fs), X) = Only(fs[i], X)
  <2>1. \A z \in 1..Len(fs) : z # i => ToSet(fs[z]) \cap X = {}
    BY <1>1, <1>3, <1>4
  <2>2. i \in 1..Len(fs) /\ AllListed(fs)
    BY <1>4
  <2> HIDE DEF fs
  <2> QED BY <2>1, <2>2, OnlyOfOne
<1> DEFINE flat == FlattenSeq(blocks[i])
<1>6. Only(head[i], X) = << >> /\ Only(tail[i], X) = << >>
  <2>1. ToSet(head[i]) \cap X = {} /\ ToSet(tail[i]) \cap X = {}
    <3>1. \A e \in ToSet(head[i]) \cup ToSet(tail[i]) : e.capability = NoCapability
      BY DEF Sections
    <3>2. \A e \in X : e.capability = order[j]
      OBVIOUS
    <3> QED BY <3>1, <3>2
  <2> QED BY <1>1, <2>1, OnlyNone
<1>7. Listed(flat) /\ Only(flat, X) = Only(blocks[i][j], X)
  <2>1. \A l \in 1..Len(blocks[i]) : l # j => ToSet(blocks[i][l]) \cap X = {}
    BY <1>1 DEF Sections
  <2>2. AllListed(blocks[i]) /\ j \in 1..Len(blocks[i])
    BY <1>1
  <2> QED BY <2>1, <2>2, OnlyOfOne
<1> DEFINE kept == Only(blocks[i][j], X)
<1>8. Listed(kept) /\ << >> \o kept = kept /\ kept \o << >> = kept
  <2>1. Listed(kept)
    BY <1>2, OnlyBy
  <2> HIDE DEF kept
  <2>2. kept \in Seq(ToSet(kept))
    BY <2>1 DEF Listed
  <2>3. << >> \o kept = kept /\ kept \o << >> = kept
    BY <2>2, ConcatEmptySeq
  <2> QED BY <2>1, <2>3
<1> HIDE DEF flat, kept
<1>9. Only(head[i] \o flat, X) = kept /\ Listed(head[i] \o flat)
  <2>1. Only(head[i] \o flat, X) = Only(head[i], X) \o Only(flat, X)
    <3>1. Listed(head[i]) /\ Listed(flat)
      BY <1>1, <1>7
    <3> QED BY <3>1, OnlyOfBoth
  <2>2. Listed(head[i] \o flat)
    BY <1>1, <1>7, ListedParts
  <2> QED BY <1>6, <1>7, <1>8, <2>1, <2>2 DEF kept
<1>10. Only((head[i] \o flat) \o tail[i], X) = kept
  <2> DEFINE t == head[i] \o flat
  <2>1. Listed(t) /\ Only(t, X) = kept
    BY <1>9
  <2> HIDE DEF t
  <2>2. Only(t \o tail[i], X) = Only(t, X) \o Only(tail[i], X)
    <3>1. Listed(t) /\ Listed(tail[i])
      BY <1>1, <2>1
    <3> QED BY <3>1, OnlyOfBoth
  <2>3. Only(t \o tail[i], X) = kept
    BY <1>6, <1>8, <2>1, <2>2
  <2> QED BY <2>3 DEF t
<1>11. fs[i] = (head[i] \o flat) \o tail[i]
  BY <1>4 DEF Section, flat
<1> QED
  BY <1>5, <1>10, <1>11 DEF kept

\* What the trail of a core says of capability k in zone i: as it is mapped, as its
\* conflicts are resolved, as it is gated.
OfMapping(core, i, k) == <<Recorded("CAPABILITY_MAPPED", i, k, core[i].resolved[k])>>
OfConflicts(core, i, k) ==
    [j \in DOMAIN core[i].conflicts[k] |-> ConflictEntry(i, k, core[i].conflicts[k][j])]
OfResolution(core, i, k) ==
    OfConflicts(core, i, k) \o GapEntries(i, k, ResolutionGap(core[i].resolved[k]))
OfGating(core, i, k) ==
    (ExclusionEntries(core, i, k) \o StatusEntries(core, i, k))
        \o GapEntries(i, k, RedeclaredGap(core, i, k))

\* A core whose trail is a list.
Tellable(core) ==
    /\ Listed(core)
    /\ \A i \in 1..Len(core) :
          /\ Listed(core[i].order)
          /\ \A k \in Capability : /\ Listed(core[i].conflicts[k])
                                   /\ DOMAIN core[i].gated[k] \subseteq Control

Speaks(s, i, k) == Listed(s) /\ \A e \in ToSet(s) : e.zone = i /\ e.capability = k

\* Two lists about the same capability are together about it.
LEMMA SpeaksTogether ==
    ASSUME NEW s, NEW t, NEW i, NEW k, Speaks(s, i, k), Speaks(t, i, k)
    PROVE  Speaks(s \o t, i, k)
<1>1. Listed(s) /\ Listed(t)
  BY DEF Speaks
<1>2. Listed(s \o t) /\ ToSet(s \o t) = ToSet(s) \cup ToSet(t)
  BY <1>1, ListedParts
<1> QED
  BY <1>2 DEF Speaks

\* So is one entry, and none.
LEMMA SpeaksOnce ==
    ASSUME NEW event, NEW i, NEW k, NEW payload
    PROVE  Speaks(<<Recorded(event, i, k, payload)>>, i, k) /\ Speaks(<< >>, i, k)
<1>1. /\ Listed(<<Recorded(event, i, k, payload)>>)
      /\ ToSet(<<Recorded(event, i, k, payload)>>) = {Recorded(event, i, k, payload)}
      /\ Listed(<< >>) /\ ToSet(<< >>) = {}
  BY ListedParts
<1> QED
  BY <1>1 DEF Speaks, Recorded

\* What gating excludes of some options, and the entry that says so.
ExcludedOf(o) == {c \in DOMAIN o : o[c].excluded # None}
Exclusion(o, i, k, c) ==
    Recorded("MECHANISM_EXCLUDED", i, k, [control |-> c, outcome |-> o[c].excluded])

\* It is listed, each mechanism once.
LEMMA ExclusionsListed ==
    ASSUME NEW core, NEW i, NEW k, DOMAIN core[i].gated[k] \subseteq Control
    PROVE  LET o == core[i].gated[k]
               at == Ascending(ExcludedOf(o))
               n == Cardinality(ExcludedOf(o))
               s == ExclusionEntries(core, i, k)
           IN  /\ at \in [1..n -> ExcludedOf(o)] /\ n \in Nat
               /\ \A c \in ExcludedOf(o) : \E j \in 1..n : at[j] = c
               /\ Speaks(s, i, k) /\ Len(s) = n
               /\ \A j \in 1..n : s[j] = Exclusion(o, i, k, at[j])
<1> DEFINE o == core[i].gated[k]
           left == ExcludedOf(o)
           n == Cardinality(left)
           at == Ascending(left)
           entry(j) == Exclusion(o, i, k, at[j])
           s == ExclusionEntries(core, i, k)
<1>1. left \subseteq Control /\ Control \subseteq Int /\ IsFiniteSet(left)
  <2>1. left \in SUBSET Control
    BY DEF ExcludedOf
  <2>2. Control \subseteq Int
    BY ControlsAssumption DEF ControlsAreOrdered
  <2> HIDE DEF left
  <2> QED BY <2>1, <2>2, FiniteCatalogAssumption, FS_Subset
<1>2. /\ n \in Nat /\ at \in [1..n -> left]
      /\ \A c \in left : \E j \in 1..n : at[j] = c
  <2> HIDE DEF left
  <2> QED BY <1>1, AscendingLists
<1>3. s = [j \in DOMAIN at |-> entry(j)]
  BY DEF ExclusionEntries, ExcludedOf, Exclusion
<1>0. \A j : entry(j).zone = i /\ entry(j).capability = k
  BY DEF Recorded, Exclusion
<1> HIDE DEF left, at, n, s, entry
<1>4. s = [j \in 1..n |-> entry(j)]
  BY <1>2, <1>3
<1>5. s = [j \in 1..n |-> s[j]] /\ \A j \in 1..n : s[j] = entry(j)
  BY <1>4
<1>6. Listed(s) /\ Len(s) = n
  BY <1>2, <1>5, ListedIs
<1>7. Speaks(s, i, k)
  <2>1. DOMAIN s = 1..n
    BY <1>6, ListedIs
  <2>2. \A e \in ToSet(s) : e.zone = i /\ e.capability = k
    BY <1>0, <1>5, <2>1 DEF ToSet
  <2> QED BY <1>6, <2>2 DEF Speaks
<1> QED
  BY <1>2, <1>5, <1>6, <1>7 DEF left, at, n, s, entry

\* Each of them is a list of entries of that capability.
LEMMA PartsSpeak ==
    ASSUME NEW core, Tellable(core), NEW i \in 1..Len(core), NEW k \in Capability
    PROVE  /\ Speaks(OfMapping(core, i, k), i, k)
           /\ Speaks(OfConflicts(core, i, k), i, k)
           /\ Speaks(OfResolution(core, i, k), i, k)
           /\ Speaks(ExclusionEntries(core, i, k), i, k)
           /\ Speaks(StatusEntries(core, i, k), i, k)
           /\ Speaks(OfGating(core, i, k), i, k)
<1>1. Speaks(OfMapping(core, i, k), i, k)
  BY SpeaksOnce DEF OfMapping
<1>2. ASSUME NEW gap PROVE Speaks(GapEntries(i, k, gap), i, k)
  BY SpeaksOnce DEF GapEntries
<1>3. Speaks(OfConflicts(core, i, k), i, k)
  <2> DEFINE met == core[i].conflicts[k]
             s == OfConflicts(core, i, k)
             n == Len(met)
  <2>1. n \in Nat /\ DOMAIN met = 1..n
    <3>1. Listed(met)
      BY DEF Tellable
    <3> QED BY <3>1, ListedIs
  <2>2. s = [j \in 1..n |-> ConflictEntry(i, k, met[j])]
    BY <2>1 DEF OfConflicts
  <2> HIDE DEF s, n
  <2>3. s = [j \in 1..n |-> s[j]] /\ DOMAIN s = 1..n
    BY <2>2
  <2>4. Listed(s)
    BY <2>1, <2>3, ListedIs
  <2>5. \A e \in ToSet(s) : e.zone = i /\ e.capability = k
    BY <2>2, <2>3 DEF ToSet, ConflictEntry, Recorded
  <2> QED BY <2>4, <2>5 DEF Speaks, s
<1>4. Speaks(OfResolution(core, i, k), i, k)
  BY <1>2, <1>3, SpeaksTogether DEF OfResolution
<1>5. Speaks(ExclusionEntries(core, i, k), i, k)
  <2>1. DOMAIN core[i].gated[k] \subseteq Control
    BY DEF Tellable
  <2> QED BY <2>1, ExclusionsListed
<1>6. Speaks(StatusEntries(core, i, k), i, k)
  <2> DEFINE status == CapabilityStatus(core[i].gated[k])
  <2>1. StatusEntries(core, i, k) = IF status = "covered_by_mechanism" THEN << >>
                ELSE <<Recorded("CAPABILITY_STATUS_SET", i, k, status)>>
    BY DEF StatusEntries
  <2> HIDE DEF status
  <2> QED BY <2>1, SpeaksOnce
<1>7. Speaks(OfGating(core, i, k), i, k)
  <2>1. Speaks(ExclusionEntries(core, i, k) \o StatusEntries(core, i, k), i, k)
    BY <1>5, <1>6, SpeaksTogether
  <2> QED BY <1>2, <2>1, SpeaksTogether DEF OfGating
<1> QED
  BY <1>1, <1>3, <1>4, <1>5, <1>6, <1>7

\* The capabilities are told of in the order of their ids, each of them once.
LEMMA CapabilitiesInOrder ==
    LET order == Ascending(Capability)
    IN  /\ Listed(order) /\ DOMAIN order = 1..Len(order) /\ Len(order) \in Nat
        /\ \A j \in 1..Len(order) : order[j] \in Capability /\ order[j] # NoCapability
        /\ \A j, l \in 1..Len(order) : order[l] = order[j] => l = j
        /\ \A k \in Capability : \E j \in 1..Len(order) : order[j] = k
<1> DEFINE order == Ascending(Capability)
           n == Cardinality(Capability)
<1>1. IsFiniteSet(Capability) /\ Capability \subseteq Int
  BY FiniteCatalogAssumption, CapabilityAssumption
<1>2. /\ n \in Nat /\ order \in Seq(Capability) /\ Len(order) = n
      /\ \A j, l \in 1..n : j < l => order[j] < order[l]
      /\ \A k \in Capability : \E j \in 1..n : order[j] = k
  BY <1>1, AscendingLists
<1> HIDE DEF order, n
<1>3. Listed(order) /\ DOMAIN order = 1..n
  BY <1>2, ListedIs
<1>4. \A j \in 1..n : order[j] \in Capability
  BY <1>2, ElementOfSeq
<1>5. \A j \in 1..n : order[j] \in Nat /\ order[j] # NoCapability
  <2>1. \A x \in Nat : x # NoCapability
    BY DEF NoCapability
  <2>2. \A j \in 1..n : order[j] \in Nat
    BY <1>4, CapabilityAssumption
  <2> QED BY <2>1, <2>2
<1>6. \A j, l \in 1..n : order[l] = order[j] => l = j
  <2> SUFFICES ASSUME NEW j \in 1..n, NEW l \in 1..n, order[l] = order[j] PROVE l = j
    OBVIOUS
  <2>1. order[j] \in Nat /\ order[l] \in Nat /\ j \in Int /\ l \in Int
    BY <1>2, <1>5
  <2>2. ~(j < l) /\ ~(l < j)
    BY <1>2, <2>1
  <2> QED BY <2>1, <2>2
<1> QED
  BY <1>2, <1>3, <1>4, <1>5, <1>6 DEF order, n

\* The blocks of a part of the trail, one for each capability of each zone.
Blocks(core, B) ==
    [i \in 1..Len(core) |-> [j \in 1..Len(Ascending(Capability)) |-> B[i][Ascending(Capability)[j]]]]
AreBlocks(core, B) ==
    \A i \in 1..Len(core) : \A k \in Capability : Speaks(B[i][k], i, k)
AreEnds(core, head) ==
    \A i \in 1..Len(core) :
        Listed(head[i]) /\ \A e \in ToSet(head[i]) : e.zone = i /\ e.capability = NoCapability

\* They are lists of lists.
LEMMA BlocksAreLists ==
    ASSUME NEW core, NEW B, AreBlocks(core, B), NEW z \in 1..Len(core)
    PROVE  LET order == Ascending(Capability)
               blocks == Blocks(core, B)
           IN  /\ AllListed(blocks[z]) /\ Len(blocks[z]) = Len(order)
               /\ \A j \in 1..Len(order) : /\ blocks[z][j] = B[z][order[j]]
                                           /\ Speaks(blocks[z][j], z, order[j])
               /\ Listed(FlattenSeq(blocks[z])) /\ << >> \o FlattenSeq(blocks[z]) = FlattenSeq(blocks[z])
<1> DEFINE order == Ascending(Capability)
           m == Len(order)
           b == Blocks(core, B)[z]
           flat == FlattenSeq(b)
<1>1. m \in Nat /\ DOMAIN order = 1..m /\ \A j \in 1..m : order[j] \in Capability
  BY CapabilitiesInOrder
<1>2. b = [j \in 1..m |-> B[z][order[j]]]
  BY DEF Blocks
<1> HIDE DEF order, m, b, flat
<1>3. (\A j \in 1..m : b[j] = B[z][order[j]]) /\ b = [j \in 1..m |-> b[j]]
  BY <1>2
<1>4. Listed(b) /\ Len(b) = m
  BY <1>1, <1>3, ListedIs
<1>5. \A j \in 1..m : Speaks(b[j], z, order[j])
  <2> SUFFICES ASSUME NEW j \in 1..m PROVE Speaks(b[j], z, order[j])
    OBVIOUS
  <2>1. Speaks(B[z][order[j]], z, order[j])
    BY <1>1 DEF AreBlocks
  <2> QED BY <1>3, <2>1
<1>6. AllListed(b)
  BY <1>4, <1>5 DEF AllListed, Speaks
<1>7. Listed(flat)
  BY <1>6, FlatSet DEF flat
<1>8. << >> \o flat = flat
  <2>1. flat \in Seq(ToSet(flat))
    BY <1>7 DEF Listed
  <2> QED BY <2>1, ConcatEmptySeq
<1> QED
  BY <1>3, <1>4, <1>5, <1>6, <1>7, <1>8 DEF order, m, b, flat

\* What it keeps of one capability of one zone.
LEMMA PartOf ==
    ASSUME NEW core, Tellable(core), NEW B, NEW head, NEW tail,
           AreBlocks(core, B), AreEnds(core, head), AreEnds(core, tail),
           NEW i \in 1..Len(core), NEW k \in Capability,
           NEW X, \A e \in X : e.zone = i /\ e.capability = k
    PROVE  LET s == FlattenSeq([z \in 1..Len(core) |->
                        Section(head, Blocks(core, B), tail, z)])
           IN  Listed(s) /\ Only(s, X) = Only(B[i][k], X)
<1> DEFINE n == Len(core)
           order == Ascending(Capability)
           m == Len(order)
           blocks == Blocks(core, B)
<1>1. /\ Listed(order) /\ m \in Nat
      /\ \A j \in 1..m : order[j] \in Capability /\ order[j] # NoCapability
      /\ \A j, l \in 1..m : order[l] = order[j] => l = j
      /\ \A c \in Capability : \E j \in 1..m : order[j] = c
  BY CapabilitiesInOrder
<1>2. n \in Nat
  BY ListedIs DEF Tellable
<1>3. ASSUME NEW z \in 1..n
      PROVE  /\ AllListed(blocks[z]) /\ Len(blocks[z]) = m
             /\ \A j \in 1..m : /\ blocks[z][j] = B[z][order[j]]
                                /\ Speaks(blocks[z][j], z, order[j])
  <2> HIDE DEF m, order, blocks
  <2>1. z \in 1..Len(core)
    OBVIOUS
  <2> QED BY <2>1, BlocksAreLists DEF m, order, blocks
<1> HIDE DEF n, order, m, blocks
<1>4. Sections(n, order, head, blocks, tail)
  <2>1. \A z \in 1..n : \A j \in 1..m : \A e \in ToSet(blocks[z][j]) :
              e.zone = z /\ e.capability = order[j]
    BY <1>3 DEF Speaks
  <2>2. \A z \in 1..n :
           /\ Listed(head[z]) /\ Listed(tail[z])
           /\ \A e \in ToSet(head[z]) \cup ToSet(tail[z]) : e.zone = z /\ e.capability = NoCapability
    BY DEF AreEnds, n
  <2> QED BY <1>1, <1>2, <1>3, <2>1, <2>2 DEF Sections, m
<1>5. PICK j \in 1..m : order[j] = k
  BY <1>1
<1>6. blocks[i][j] = B[i][k]
  BY <1>3, <1>5 DEF n
<1>7. LET s == FlattenSeq([z \in 1..n |-> Section(head, blocks, tail, z)])
      IN  Listed(s) /\ Only(s, X) = Only(blocks[i][j], X)
  <2>1. \A l \in 1..m : order[l] = order[j] => l = j
    BY <1>1
  <2>2. order[j] # NoCapability /\ \A e \in X : e.zone = i /\ e.capability = order[j]
    BY <1>1, <1>5
  <2>3. i \in 1..n
    BY DEF n
  <2>4. \A l \in 1..Len(order) : order[l] = order[j] => l = j
    BY <2>1 DEF m
  <2>5. j \in 1..Len(order)
    BY DEF m
  <2> HIDE DEF m
  <2> QED BY <1>4, <2>2, <2>3, <2>4, <2>5, OnlyOfBlock
<1> QED
  BY <1>6, <1>7 DEF n, blocks

\* A part of the trail that is made of such sections.
LaidOut(core, head, B, tail) ==
    FlattenSeq([z \in 1..Len(core) |-> Section(head, Blocks(core, B), tail, z)])

\* What is kept of it is of the block of that capability.
LEMMA PartIs ==
    ASSUME NEW core, Tellable(core), NEW B, NEW head, NEW tail,
           AreBlocks(core, B), AreEnds(core, head), AreEnds(core, tail),
           NEW part, part = LaidOut(core, head, B, tail),
           NEW i \in 1..Len(core), NEW k \in Capability,
           NEW X, \A e \in X : e.zone = i /\ e.capability = k
    PROVE  Listed(part) /\ Only(part, X) = Only(B[i][k], X)
BY PartOf DEF LaidOut

\* An end that is one entry, or nothing.
LEMMA EndsAre ==
    ASSUME NEW core, NEW event, NEW payload
    PROVE  /\ AreEnds(core, [z \in 1..Len(core) |-> <<Recorded(event, z, NoCapability, payload[z])>>])
           /\ AreEnds(core, [z \in 1..Len(core) |-> << >>])
<1>1. ASSUME NEW z \in 1..Len(core)
      PROVE  Speaks(<<Recorded(event, z, NoCapability, payload[z])>>, z, NoCapability)
             /\ Speaks(<< >>, z, NoCapability)
  BY SpeaksOnce
<1> QED
  BY <1>1 DEF AreEnds, Speaks

\* What the trail keeps of the mapping, of the conflicts and of the gating for one
\* capability of one zone is what was recorded of it there.
LEMMA MappingPart ==
    ASSUME NEW core, Tellable(core), NEW i \in 1..Len(core), NEW k \in Capability,
           NEW X, \A e \in X : e.zone = i /\ e.capability = k
    PROVE  LET part == FlattenSeq([z \in DOMAIN core |-> MappingEntries(core, z)])
           IN  Listed(part) /\ Only(part, X) = Only(OfMapping(core, i, k), X)
<1> DEFINE n == Len(core)
           order == Ascending(Capability)
           B == [z \in 1..n |-> [c \in Capability |-> OfMapping(core, z, c)]]
           zones == [z \in 1..n |-> core[z].zone]
           stages == [z \in 1..n |-> "mapping"]
           head == [z \in 1..n |-> <<Recorded("ZONE_DERIVED", z, NoCapability, zones[z])>>]
           tail == [z \in 1..n |-> <<Recorded("STAGE_COMPLETED", z, NoCapability, stages[z])>>]
<1>1. DOMAIN core = 1..n
  BY ListedIs DEF Tellable
<1>2. AreEnds(core, head) /\ AreEnds(core, tail)
  <2> HIDE DEF zones, stages
  <2> QED BY EndsAre
<1>3. \A z \in 1..n : \A c \in Capability : B[z][c] = OfMapping(core, z, c)
  OBVIOUS
<1>4. \A z \in 1..n : /\ head[z] = <<Recorded("ZONE_DERIVED", z, NoCapability, core[z].zone)>>
                      /\ tail[z] = StageCompleted(z, "mapping")
  BY DEF StageCompleted
<1> HIDE DEF n, B, head, tail, order, zones, stages
<1>5. AreBlocks(core, B)
  BY <1>3, PartsSpeak DEF AreBlocks, n
<1>6. ASSUME NEW z \in 1..n
      PROVE  Section(head, Blocks(core, B), tail, z) = MappingEntries(core, z)
  <2> DEFINE blocks == [j \in DOMAIN order |-> OfMapping(core, z, order[j])]
  <2>1. DOMAIN order = 1..Len(order) /\ \A j \in 1..Len(order) : order[j] \in Capability
    BY CapabilitiesInOrder DEF order
  <2>2. Blocks(core, B)[z] = [j \in 1..Len(order) |-> B[z][order[j]]]
    BY DEF Blocks, order, n
  <2>3. Blocks(core, B)[z] = blocks
    BY <1>3, <2>1, <2>2
  <2>4. MappingEntries(core, z) =
            (<<Recorded("ZONE_DERIVED", z, NoCapability, core[z].zone)>> \o FlattenSeq(blocks))
                \o StageCompleted(z, "mapping")
    BY DEF MappingEntries, PerCapability, OfMapping, order
  <2> HIDE DEF blocks
  <2> QED BY <1>4, <2>3, <2>4 DEF Section
<1> DEFINE sections == [z \in 1..n |-> Section(head, Blocks(core, B), tail, z)]
           told == [z \in DOMAIN core |-> MappingEntries(core, z)]
<1>7. told = sections
  BY <1>1, <1>6
<1> HIDE DEF told
<1> DEFINE part == FlattenSeq(told)
<1>8. part = LaidOut(core, head, B, tail)
  BY <1>7 DEF LaidOut, n
<1> HIDE DEF part, sections
<1>9. Listed(part) /\ Only(part, X) = Only(B[i][k], X)
  BY <1>2, <1>5, <1>8, PartIs
<1>10. B[i][k] = OfMapping(core, i, k)
  BY <1>3 DEF n
<1> QED
  BY <1>9, <1>10 DEF part, told

\* The same of the conflicts.
LEMMA ResolutionPart ==
    ASSUME NEW core, Tellable(core), NEW i \in 1..Len(core), NEW k \in Capability,
           NEW X, \A e \in X : e.zone = i /\ e.capability = k
    PROVE  LET part == FlattenSeq([z \in DOMAIN core |-> ConflictResolutionEntries(core, z)])
           IN  Listed(part) /\ Only(part, X) = Only(OfResolution(core, i, k), X)
<1> DEFINE n == Len(core)
           order == Ascending(Capability)
           B == [z \in 1..n |-> [c \in Capability |-> OfResolution(core, z, c)]]
           stages == [z \in 1..n |-> "conflict_resolution"]
           head == [z \in 1..n |-> << >>]
           tail == [z \in 1..n |-> <<Recorded("STAGE_COMPLETED", z, NoCapability, stages[z])>>]
<1>1. DOMAIN core = 1..n
  BY ListedIs DEF Tellable
<1>2. AreEnds(core, head) /\ AreEnds(core, tail)
  <2> HIDE DEF stages
  <2> QED BY EndsAre
<1>3. \A z \in 1..n : \A c \in Capability : B[z][c] = OfResolution(core, z, c)
  OBVIOUS
<1>4. \A z \in 1..n : head[z] = << >> /\ tail[z] = StageCompleted(z, "conflict_resolution")
  BY DEF StageCompleted
<1> HIDE DEF n, B, head, tail, order, stages
<1>5. AreBlocks(core, B)
  BY <1>3, PartsSpeak DEF AreBlocks, n
<1>6. ASSUME NEW z \in 1..n
      PROVE  Section(head, Blocks(core, B), tail, z) = ConflictResolutionEntries(core, z)
  <2> DEFINE blocks == [j \in DOMAIN order |-> OfResolution(core, z, order[j])]
  <2>1. DOMAIN order = 1..Len(order) /\ \A j \in 1..Len(order) : order[j] \in Capability
    BY CapabilitiesInOrder DEF order
  <2>2. Blocks(core, B)[z] = [j \in 1..Len(order) |-> B[z][order[j]]]
    BY DEF Blocks, order, n
  <2>3. Blocks(core, B)[z] = blocks
    BY <1>3, <2>1, <2>2
  <2>4. ConflictResolutionEntries(core, z) = FlattenSeq(blocks) \o StageCompleted(z, "conflict_resolution")
    BY DEF ConflictResolutionEntries, PerCapability, OfResolution, OfConflicts, order
  <2> HIDE DEF blocks
  <2>5. << >> \o FlattenSeq(Blocks(core, B)[z]) = FlattenSeq(Blocks(core, B)[z])
    BY <1>5, BlocksAreLists DEF n
  <2> QED BY <1>4, <2>3, <2>4, <2>5 DEF Section
<1> DEFINE sections == [z \in 1..n |-> Section(head, Blocks(core, B), tail, z)]
           told == [z \in DOMAIN core |-> ConflictResolutionEntries(core, z)]
<1>7. told = sections
  BY <1>1, <1>6
<1> HIDE DEF told
<1> DEFINE part == FlattenSeq(told)
<1>8. part = LaidOut(core, head, B, tail)
  BY <1>7 DEF LaidOut, n
<1> HIDE DEF part, sections
<1>9. Listed(part) /\ Only(part, X) = Only(B[i][k], X)
  BY <1>2, <1>5, <1>8, PartIs
<1>10. B[i][k] = OfResolution(core, i, k)
  BY <1>3 DEF n
<1> QED
  BY <1>9, <1>10 DEF part, told

\* The same of the gating.
LEMMA GatingPart ==
    ASSUME NEW core, Tellable(core), NEW i \in 1..Len(core), NEW k \in Capability,
           NEW X, \A e \in X : e.zone = i /\ e.capability = k
    PROVE  LET part == FlattenSeq([z \in DOMAIN core |-> GatingEntries(core, z)])
           IN  Listed(part) /\ Only(part, X) = Only(OfGating(core, i, k), X)
<1> DEFINE n == Len(core)
           order == Ascending(Capability)
           B == [z \in 1..n |-> [c \in Capability |-> OfGating(core, z, c)]]
           stages == [z \in 1..n |-> "gating"]
           head == [z \in 1..n |-> << >>]
           tail == [z \in 1..n |-> <<Recorded("STAGE_COMPLETED", z, NoCapability, stages[z])>>]
<1>1. DOMAIN core = 1..n
  BY ListedIs DEF Tellable
<1>2. AreEnds(core, head) /\ AreEnds(core, tail)
  <2> HIDE DEF stages
  <2> QED BY EndsAre
<1>3. \A z \in 1..n : \A c \in Capability : B[z][c] = OfGating(core, z, c)
  OBVIOUS
<1>4. \A z \in 1..n : head[z] = << >> /\ tail[z] = StageCompleted(z, "gating")
  BY DEF StageCompleted
<1> HIDE DEF n, B, head, tail, order, stages
<1>5. AreBlocks(core, B)
  BY <1>3, PartsSpeak DEF AreBlocks, n
<1>6. ASSUME NEW z \in 1..n
      PROVE  Section(head, Blocks(core, B), tail, z) = GatingEntries(core, z)
  <2> DEFINE blocks == [j \in DOMAIN order |-> OfGating(core, z, order[j])]
  <2>1. DOMAIN order = 1..Len(order) /\ \A j \in 1..Len(order) : order[j] \in Capability
    BY CapabilitiesInOrder DEF order
  <2>2. Blocks(core, B)[z] = [j \in 1..Len(order) |-> B[z][order[j]]]
    BY DEF Blocks, order, n
  <2>3. Blocks(core, B)[z] = blocks
    BY <1>3, <2>1, <2>2
  <2>4. GatingEntries(core, z) = FlattenSeq(blocks) \o StageCompleted(z, "gating")
    BY DEF GatingEntries, PerCapability, OfGating, order
  <2> HIDE DEF blocks
  <2>5. << >> \o FlattenSeq(Blocks(core, B)[z]) = FlattenSeq(Blocks(core, B)[z])
    BY <1>5, BlocksAreLists DEF n
  <2> QED BY <1>4, <2>3, <2>4, <2>5 DEF Section
<1> DEFINE sections == [z \in 1..n |-> Section(head, Blocks(core, B), tail, z)]
           told == [z \in DOMAIN core |-> GatingEntries(core, z)]
<1>7. told = sections
  BY <1>1, <1>6
<1> HIDE DEF told
<1> DEFINE part == FlattenSeq(told)
<1>8. part = LaidOut(core, head, B, tail)
  BY <1>7 DEF LaidOut, n
<1> HIDE DEF part, sections
<1>9. Listed(part) /\ Only(part, X) = Only(B[i][k], X)
  BY <1>2, <1>5, <1>8, PartIs
<1>10. B[i][k] = OfGating(core, i, k)
  BY <1>3 DEF n
<1> QED
  BY <1>9, <1>10 DEF part, told

\* What prioritisation records is of its own events.
PriorityEvents ==
    {"MANDATE_RECORDED", "PRIORITY_ASSIGNED", "MANDATE_OUTSTANDING", "ROADMAP_PHASED",
     "STAGE_COMPLETED"}
OfPriority(s) == Listed(s) /\ \A e \in ToSet(s) : e.event_type \in PriorityEvents

\* Lists of such entries, put together, are such a list.
LEMMA OfPriorityParts ==
    /\ OfPriority(<< >>)
    /\ \A event \in PriorityEvents : \A i, k, payload : OfPriority(<<Recorded(event, i, k, payload)>>)
    /\ \A s, t : OfPriority(s) /\ OfPriority(t) => OfPriority(s \o t)
    /\ \A fs : Listed(fs) /\ (\A n \in 1..Len(fs) : OfPriority(fs[n])) => OfPriority(FlattenSeq(fs))
<1>1. OfPriority(<< >>)
  BY ListedParts DEF OfPriority
<1>2. ASSUME NEW event \in PriorityEvents, NEW i, NEW k, NEW payload
      PROVE  OfPriority(<<Recorded(event, i, k, payload)>>)
  <2> DEFINE e == Recorded(event, i, k, payload)
  <2>1. e.event_type = event
    BY DEF Recorded
  <2> HIDE DEF e
  <2>2. Listed(<<e>>) /\ ToSet(<<e>>) = {e}
    BY ListedParts
  <2>3. OfPriority(<<e>>)
    BY <2>1, <2>2 DEF OfPriority
  <2> QED BY <2>3 DEF e
<1>3. ASSUME NEW s, NEW t, OfPriority(s), OfPriority(t) PROVE OfPriority(s \o t)
  <2>1. Listed(s) /\ Listed(t)
    BY <1>3 DEF OfPriority
  <2>2. Listed(s \o t) /\ ToSet(s \o t) = ToSet(s) \cup ToSet(t)
    BY <2>1, ListedParts
  <2> QED BY <1>3, <2>2 DEF OfPriority
<1>4. ASSUME NEW fs, Listed(fs), \A n \in 1..Len(fs) : OfPriority(fs[n])
      PROVE  OfPriority(FlattenSeq(fs))
  <2>1. AllListed(fs)
    BY <1>4 DEF AllListed, OfPriority
  <2>2. /\ Listed(FlattenSeq(fs))
        /\ \A e \in ToSet(FlattenSeq(fs)) : \E n \in 1..Len(fs) : e \in ToSet(fs[n])
    BY <2>1, FlatSet
  <2> QED BY <1>4, <2>2 DEF OfPriority
<1> QED
  BY <1>1, <1>2, <1>3, <1>4

\* The whole of that part of the trail is.
LEMMA PriorityPart ==
    ASSUME NEW core, Tellable(core)
    PROVE  OfPriority(FlattenSeq([z \in DOMAIN core |-> PriorityEntries(core, z)]))
<1> DEFINE n == Len(core)
           told == [z \in DOMAIN core |-> PriorityEntries(core, z)]
<1>1. n \in Nat /\ DOMAIN core = 1..n
  BY ListedIs DEF Tellable
<1>2. ASSUME NEW z \in 1..n PROVE OfPriority(PriorityEntries(core, z))
  <2> DEFINE order == core[z].order
             m == Len(order)
             item(k) == core[z].items[k]
             first(k) == <<Recorded(IF item(k).tier = "tier_0" THEN "MANDATE_RECORDED"
                                    ELSE "PRIORITY_ASSIGNED", z, k, item(k))>>
             second(k) == IF item(k).assessed.outstanding
                          THEN <<Recorded("MANDATE_OUTSTANDING", z, k, item(k))>> ELSE << >>
             entries == [j \in DOMAIN order |-> first(order[j]) \o second(order[j])]
             phases == [k \in Capability |-> core[z].items[k].phase]
             last == <<Recorded("ROADMAP_PHASED", z, NoCapability, phases)>>
  <2>1. PriorityEntries(core, z) = (FlattenSeq(entries) \o last) \o StageCompleted(z, "prioritization")
    BY DEF PriorityEntries
  <2>2. m \in Nat /\ DOMAIN order = 1..m
    <3>1. Listed(order)
      BY DEF Tellable
    <3> QED BY <3>1, ListedIs
  <2>3. ASSUME NEW k PROVE OfPriority(first(k) \o second(k))
    <3> DEFINE i == item(k)
               event == IF i.tier = "tier_0" THEN "MANDATE_RECORDED" ELSE "PRIORITY_ASSIGNED"
    <3>1. event \in PriorityEvents /\ "MANDATE_OUTSTANDING" \in PriorityEvents
      BY DEF PriorityEvents
    <3> HIDE DEF event
    <3>2. OfPriority(<<Recorded(event, z, k, i)>>) /\ OfPriority(<<Recorded("MANDATE_OUTSTANDING", z, k, i)>>)
      BY <3>1, OfPriorityParts
    <3>3. OfPriority(first(k)) /\ OfPriority(second(k))
      BY <3>2, OfPriorityParts DEF event
    <3> HIDE DEF first, second
    <3> QED BY <3>3, OfPriorityParts
  <2>4. /\ entries = [j \in 1..m |-> first(order[j]) \o second(order[j])]
    BY <2>2
  <2> HIDE DEF entries, first, second, m, phases
  <2>5. entries = [j \in 1..m |-> entries[j]] /\ \A j \in 1..m : OfPriority(entries[j])
    BY <2>3, <2>4
  <2>6. Listed(entries) /\ Len(entries) = m
    BY <2>2, <2>5, ListedIs
  <2>7. OfPriority(FlattenSeq(entries))
    BY <2>5, <2>6, OfPriorityParts
  <2>8. OfPriority(last) /\ OfPriority(StageCompleted(z, "prioritization"))
    <3>1. "ROADMAP_PHASED" \in PriorityEvents /\ "STAGE_COMPLETED" \in PriorityEvents
      BY DEF PriorityEvents
    <3> QED BY <3>1, OfPriorityParts DEF StageCompleted
  <2> DEFINE flat == FlattenSeq(entries)
             end == StageCompleted(z, "prioritization")
  <2> HIDE DEF flat, last, end
  <2>9. OfPriority(flat \o last)
    BY <2>7, <2>8, OfPriorityParts DEF flat
  <2> DEFINE most == flat \o last
  <2>10. OfPriority(most) /\ OfPriority(end)
    BY <2>8, <2>9 DEF end
  <2> HIDE DEF most
  <2>11. OfPriority(most \o end)
    BY <2>10, OfPriorityParts
  <2> QED BY <2>1, <2>11 DEF most, flat, end
<1>3. told = [z \in 1..n |-> PriorityEntries(core, z)]
  BY <1>1
<1> HIDE DEF told, n
<1>4. told = [z \in 1..n |-> told[z]] /\ \A z \in 1..n : OfPriority(told[z])
  BY <1>2, <1>3
<1>5. Listed(told) /\ Len(told) = n
  BY <1>1, <1>4, ListedIs
<1>6. OfPriority(FlattenSeq(told))
  BY <1>4, <1>5, OfPriorityParts
<1> QED
  BY <1>6 DEF told

\* What the trail of a core keeps of one capability of one zone, but for its priority.
LEMMA TrailTells ==
    ASSUME NEW core, Tellable(core), NEW i \in 1..Len(core), NEW k \in Capability,
           NEW X, \A e \in X : e.zone = i /\ e.capability = k /\ e.event_type \notin PriorityEvents
    PROVE  /\ Listed(CoreTrail(core))
           /\ Only(CoreTrail(core), X) =
                 (Only(OfMapping(core, i, k), X) \o Only(OfResolution(core, i, k), X))
                     \o Only(OfGating(core, i, k), X)
<1> DEFINE a == <<Recorded("RUN_STARTED", NoZone, NoCapability, Len(core))>>
           outstanding == [z \in DOMAIN core |->
                              {c \in Capability : core[z].items[c].assessed.outstanding}]
           b == <<Recorded("RUN_COMPLETED", NoZone, NoCapability, outstanding)>>
           f1 == FlattenSeq([z \in DOMAIN core |-> MappingEntries(core, z)])
           f2 == FlattenSeq([z \in DOMAIN core |-> ConflictResolutionEntries(core, z)])
           f3 == FlattenSeq([z \in DOMAIN core |-> GatingEntries(core, z)])
           f4 == FlattenSeq([z \in DOMAIN core |-> PriorityEntries(core, z)])
           p1 == Only(OfMapping(core, i, k), X)
           p2 == Only(OfResolution(core, i, k), X)
           p3 == Only(OfGating(core, i, k), X)
<1>1. CoreTrail(core) = ((((a \o f1) \o f2) \o f3) \o f4) \o b
  BY DEF CoreTrail, PerZone
<1>2. Listed(f1) /\ Only(f1, X) = p1
  BY MappingPart
<1>3. Listed(f2) /\ Only(f2, X) = p2
  BY ResolutionPart
<1>4. Listed(f3) /\ Only(f3, X) = p3
  BY GatingPart
<1>5. Listed(f4) /\ Only(f4, X) = << >>
  <2>1. OfPriority(f4)
    BY PriorityPart
  <2> HIDE DEF f4
  <2>2. ToSet(f4) \cap X = {}
    BY <2>1 DEF OfPriority
  <2> QED BY <2>1, <2>2, OnlyNone DEF OfPriority
<1>6. i # NoZone
  BY DEF NoZone
<1>7. Listed(a) /\ Only(a, X) = << >> /\ Listed(b) /\ Only(b, X) = << >>
  <2>1. ASSUME NEW event, NEW payload
        PROVE  LET s == <<Recorded(event, NoZone, NoCapability, payload)>>
               IN  Listed(s) /\ Only(s, X) = << >>
    <3> DEFINE s == <<Recorded(event, NoZone, NoCapability, payload)>>
    <3>1. Speaks(s, NoZone, NoCapability)
      BY SpeaksOnce
    <3> HIDE DEF s
    <3>2. Listed(s) /\ ToSet(s) \cap X = {}
      BY <1>6, <3>1 DEF Speaks
    <3>3. Listed(s) /\ Only(s, X) = << >>
      BY <3>2, OnlyNone
    <3> QED BY <3>3 DEF s
  <2> HIDE DEF outstanding
  <2> QED BY <2>1
<1>8. Listed(p1) /\ Listed(p2) /\ Listed(p3)
  <2> HIDE DEF f1, f2, f3, p1, p2, p3
  <2> QED BY <1>2, <1>3, <1>4, OnlyBy
<1> HIDE DEF a, b, f1, f2, f3, f4, p1, p2, p3
<1>9. ASSUME NEW s, Listed(s), NEW t, Listed(t)
      PROVE  Listed(s \o t) /\ Only(s \o t, X) = Only(s, X) \o Only(t, X)
  <2>1. Only(s \o t, X) = Only(s, X) \o Only(t, X)
    BY <1>9, OnlyOfBoth
  <2>2. Listed(s \o t)
    BY <1>9, ListedParts
  <2> QED BY <2>1, <2>2
<1>10. ASSUME NEW s, Listed(s) PROVE << >> \o s = s /\ s \o << >> = s
  <2>1. s \in Seq(ToSet(s))
    BY <1>10 DEF Listed
  <2> QED BY <2>1, ConcatEmptySeq
<1> DEFINE s1 == a \o f1
           s2 == s1 \o f2
           s3 == s2 \o f3
           s4 == s3 \o f4
           s5 == s4 \o b
<1>11. Listed(s1) /\ Only(s1, X) = p1
  <2>1. Listed(a \o f1) /\ Only(a \o f1, X) = << >> \o p1
    BY <1>2, <1>7, <1>9
  <2> QED BY <1>8, <1>10, <2>1
<1> HIDE DEF s1
<1>12. Listed(s2) /\ Only(s2, X) = p1 \o p2
  BY <1>3, <1>9, <1>11
<1> HIDE DEF s2
<1>13. Listed(s3) /\ Only(s3, X) = (p1 \o p2) \o p3
  BY <1>4, <1>9, <1>12
<1> HIDE DEF s3
<1> DEFINE p == (p1 \o p2) \o p3
<1>14. Listed(p)
  <2>1. Listed(p1 \o p2)
    BY <1>8, ListedParts
  <2> DEFINE q == p1 \o p2
  <2>2. Listed(q)
    BY <2>1
  <2> HIDE DEF q
  <2>3. Listed(q \o p3)
    BY <1>8, <2>2, ListedParts
  <2> QED BY <2>3 DEF q
<1> HIDE DEF p
<1>15. Listed(s4) /\ Only(s4, X) = p
  <2>1. Listed(s4) /\ Only(s4, X) = p \o << >>
    <3>1. Listed(s3) /\ Only(s3, X) = p
      BY <1>13 DEF p
    <3>2. Listed(s3 \o f4) /\ Only(s3 \o f4, X) = Only(s3, X) \o Only(f4, X)
      BY <1>5, <1>9, <3>1
    <3> QED BY <1>5, <3>1, <3>2
  <2> QED BY <1>10, <1>14, <2>1
<1> HIDE DEF s4
<1>16. Listed(s5) /\ Only(s5, X) = p
  <2>1. Listed(s5) /\ Only(s5, X) = p \o << >>
    BY <1>7, <1>9, <1>15
  <2> QED BY <1>10, <1>14, <2>1
<1> QED
  BY <1>1, <1>16 DEF s1, s2, s3, s4, p, p1, p2, p3

\* Nothing is excluded before gating, in what is mapped or in what is settled.
LEMMA SettledExcludesNothing ==
    ASSUME NEW S, NEW o \in Options(S), \A c \in S : o[c].excluded = None,
           NEW declared \in Seq(Contradiction), NEW zone
    PROVE  \A c \in S : Settled(o, declared, zone)[c].excluded = None
<1> DEFINE L == Len(declared)
<1>1. L \in Nat /\ \A n \in 1..L : declared[n] \in Contradiction
  BY LenProperties, ElementOfSeq
<1>2. PICK f : SettlesBy(f, S, o, declared, zone)
  BY SettledStepwise, Zenon
<1>3. /\ f \in [0..L -> Options(S)]
      /\ f[0] = o
      /\ \A n \in 1..L : f[n] = ResolveContradiction(declared[n], f[n - 1], zone)
      /\ Settled(o, declared, zone) = f[L]
  BY <1>2 DEF SettlesBy
<1> DEFINE T == {n \in 0..L : \A c \in S : f[n][c].excluded = None}
<1> HIDE DEF L
<1>4. 0 \in T
  BY <1>1, <1>3
<1>5. \A n \in 1..L : n - 1 \in T => n \in T
  <2> SUFFICES ASSUME NEW n \in 1..L, n - 1 \in T PROVE n \in T
    OBVIOUS
  <2> DEFINE p == f[n - 1]
             rule == declared[n]
  <2>1. n \in 0..L /\ n - 1 \in 0..L /\ p \in Options(S) /\ f[n] = ResolveContradiction(rule, p, zone)
    BY <1>1, <1>3
  <2>2. \A c \in S : p[c].excluded = None
    OBVIOUS
  <2> HIDE DEF p, rule
  <2>3. ASSUME NEW X, NEW status
        PROVE  \A c \in S : WithStatus(p, X, status)[c].excluded = None
    BY <2>1, <2>2 DEF WithStatus, Options, CandidateOption
  <2>4. \A c \in S : f[n][c].excluded = None
    BY <2>1, <2>3 DEF ResolveContradiction, ApplySafetyOverride, ApplyFrameworkPrecedence
  <2> QED BY <2>1, <2>4
<1> HIDE DEF T
<1>6. L \in 0..L /\ L \in T
  <2>1. \A n \in 0..L : n \in T
    BY <1>1, <1>4, <1>5, Upward
  <2> QED BY <1>1, <2>1
<1> QED
  BY <1>3, <1>6 DEF T

\* An option is its fields.
LEMMA OptionIs ==
    ASSUME NEW a \in CandidateOption, NEW b \in CandidateOption,
           a.mapping_type = b.mapping_type, a.coverage_weight = b.coverage_weight,
           a.status = b.status, a.excluded = b.excluded
    PROVE  a = b
BY DEF CandidateOption

\* Without what the conflicts did to them, options are as they were mapped.
LEMMA AsTheyWereMapped ==
    ASSUME NEW S, NEW o \in Options(S), NEW declared \in Seq(Contradiction), NEW zone,
           \A c \in S : o[c].excluded = None /\ o[c].status = "eligible"
    PROVE  LET left == Settled(o, declared, zone)
           IN  WithStatus(left, DOMAIN left, "eligible") = o
<1> DEFINE left == Settled(o, declared, zone)
           again == WithStatus(left, DOMAIN left, "eligible")
<1>1. /\ left \in Options(S)
      /\ \A c \in S : /\ left[c].mapping_type = o[c].mapping_type
                      /\ left[c].coverage_weight = o[c].coverage_weight
                      /\ left[c].excluded = None
  BY SettledFields, SettledExcludesNothing
<1> HIDE DEF left
<1>2. DOMAIN left = S /\ DOMAIN o = S /\ again = [c \in S |-> [left[c] EXCEPT !.status = "eligible"]]
  BY <1>1 DEF Options, WithStatus
<1>3. ASSUME NEW c \in S PROVE again[c] = o[c]
  <2>1. left[c] \in CandidateOption /\ o[c] \in CandidateOption
    BY <1>1 DEF Options
  <2> DEFINE a == [left[c] EXCEPT !.status = "eligible"]
  <2>2. /\ a \in CandidateOption
        /\ a.mapping_type = left[c].mapping_type /\ a.coverage_weight = left[c].coverage_weight
        /\ a.status = "eligible" /\ a.excluded = left[c].excluded
    BY <2>1 DEF CandidateOption, CandidateStatus
  <2> HIDE DEF a
  <2>3. a = o[c]
    BY <1>1, <2>1, <2>2, OptionIs
  <2> QED BY <1>2, <2>3 DEF a
<1>4. again = o
  BY <1>2, <1>3 DEF Options
<1> QED
  BY <1>4 DEF left

\* The entries of the conflicts of a capability: its contradictions, and then
\* those that set no mechanism aside.
Retells(s, o, declared, zone, i, k) ==
    /\ Listed(s) /\ Len(declared) \in 0..Len(s)
    /\ \A n \in 1..Len(declared) :
          s[n] = ConflictEntry(i, k, ContradictionConflict(declared[n], o, zone))
    /\ \A n \in 1..Len(s) : n > Len(declared) =>
          s[n].event_type = "CONFLICT_RESOLVED" /\ s[n].payload.superseded = {}

\* Settled as they tell, options are as they were settled.
LEMMA SettledAgain ==
    ASSUME NEW S, NEW o \in Options(S), NEW declared \in Seq(Contradiction), NEW zone,
           NEW s, NEW i, NEW k, Retells(s, o, declared, zone, i, k)
    PROVE  SettledAsTold(o, s) = Settled(o, declared, zone)
<1> DEFINE L == Len(declared)
           M == Len(s)
<1>1. L \in Nat /\ M \in Nat /\ L <= M /\ \A n \in 1..L : declared[n] \in Contradiction
  BY LenProperties, ElementOfSeq, ListedIs DEF Retells
<1>2. PICK f : SettlesBy(f, S, o, declared, zone)
  BY SettledStepwise, Zenon
<1>3. /\ f \in [0..L -> Options(S)]
      /\ f[0] = o
      /\ \A n \in 1..L : f[n] = ResolveContradiction(declared[n], f[n - 1], zone)
      /\ Settled(o, declared, zone) = f[L]
  BY <1>2 DEF SettlesBy
<1>4. /\ \A n \in 1..L : s[n] = ConflictEntry(i, k, ContradictionConflict(declared[n], o, zone))
      /\ \A n \in 1..M : n > L => s[n].event_type = "CONFLICT_RESOLVED" /\ s[n].payload.superseded = {}
  BY DEF Retells
<1> HIDE DEF L
<1>5. ASSUME NEW n \in 1..L
      PROVE  SettleAsTold(f[n - 1], s[n]) = f[n]
  <2> DEFINE p == f[n - 1]
             rule == declared[n]
             e == s[n]
             aside == Involved(rule, o) \ {Prevailing(rule, o, zone)}
  <2>1. p \in Options(S) /\ f[n] = ResolveContradiction(rule, p, zone)
    BY <1>1, <1>3
  <2>2. e = ConflictEntry(i, k, ContradictionConflict(rule, o, zone))
    BY <1>4
  <2> HIDE DEF p, rule, e
  <2>3. Involved(rule, p) = Involved(rule, o)
    BY <2>1 DEF Involved, Options
  <2>4. Prevailing(rule, p, zone) = Prevailing(rule, o, zone)
    BY <2>3, SamePrevailing
  <2>5. CASE rule.resolution = "safety_override"
    <3>1. e.event_type = "CONFLICT_ESCALATED" /\ e.payload.control_ids = Involved(rule, o)
      BY <2>2, <2>5 DEF ConflictEntry, ContradictionConflict, ConflictOf, Recorded
    <3> QED BY <2>1, <2>3, <2>5, <3>1
         DEF SettleAsTold, ResolveContradiction, ApplySafetyOverride, p, e
  <2>6. CASE rule.resolution # "safety_override"
    <3>1. e.event_type = "CONFLICT_RESOLVED" /\ e.payload.superseded = aside
      BY <2>2, <2>6 DEF ConflictEntry, ContradictionConflict, ConflictOf, Recorded
    <3>2. ResolveContradiction(rule, p, zone) = WithStatus(p, aside, "superseded")
      BY <2>3, <2>4, <2>6 DEF ResolveContradiction, ApplyFrameworkPrecedence
    <3> QED BY <2>1, <3>1, <3>2 DEF SettleAsTold, p, e
  <2> QED BY <2>5, <2>6
<1>6. ASSUME NEW n \in 1..M, n > L
      PROVE  SettleAsTold(f[L], s[n]) = f[L]
  <2> DEFINE p == f[L]
  <2>1. p \in Options(S)
    BY <1>1, <1>3
  <2>2. s[n].event_type = "CONFLICT_RESOLVED" /\ s[n].payload.superseded = {}
    BY <1>4, <1>6
  <2> HIDE DEF p
  <2>3. WithStatus(p, {}, "superseded") = p
    BY <2>1 DEF WithStatus, Options
  <2> QED BY <2>2, <2>3 DEF SettleAsTold, p
<1> DEFINE g == [n \in 0..M |-> IF n <= L THEN f[n] ELSE f[L]]
<1> HIDE DEF M
<1>7. g[0] = o /\ \A n \in 1..M : g[n] = SettleAsTold(g[n - 1], s[n])
  <2>1. g[0] = o
    BY <1>1, <1>3
  <2>2. ASSUME NEW n \in 1..M PROVE g[n] = SettleAsTold(g[n - 1], s[n])
    <3>1. n \in 0..M /\ n - 1 \in 0..M
      BY <1>1
    <3>2. CASE n <= L
      <4>1. n \in 1..L /\ n - 1 <= L
        BY <1>1, <3>2
      <4> QED BY <1>5, <3>1, <3>2, <4>1
    <3>3. CASE n > L
      <4>1. g[n - 1] = f[L]
        BY <1>1, <3>1, <3>3
      <4>2. g[n] = f[L]
        BY <1>1, <3>1, <3>3
      <4> QED BY <1>6, <3>3, <4>1, <4>2
    <3> QED BY <1>1, <3>2, <3>3
  <2> QED BY <2>1, <2>2
<1>8. g[M] = f[L]
  BY <1>1
<1> DEFINE Tells(h) == h = [n \in 0..M |-> IF n = 0 THEN o ELSE SettleAsTold(h[n - 1], s[n])]
           h == CHOOSE t : Tells(t)
<1>9. Tells(g)
  <2>1. g = [n \in 0..M |-> g[n]]
    OBVIOUS
  <2> HIDE DEF g
  <2>2. \A n \in 0..M : g[n] = IF n = 0 THEN o ELSE SettleAsTold(g[n - 1], s[n])
    BY <1>1, <1>7
  <2> QED BY <2>1, <2>2
<1> HIDE DEF g
<1>10. Tells(h)
  <2> HIDE DEF Tells
  <2> QED BY <1>9
<1>11. SettledAsTold(o, s) = h[M]
  BY DEF SettledAsTold, M
<1> HIDE DEF h
<1>12. h[0] = o /\ \A n \in 1..M : h[n] = SettleAsTold(h[n - 1], s[n])
  BY <1>1, <1>10
<1> DEFINE T == {n \in 0..M : h[n] = g[n]}
<1>13. 0 \in T
  BY <1>1, <1>7, <1>12
<1>14. \A n \in 1..M : n - 1 \in T => n \in T
  BY <1>1, <1>7, <1>12
<1> HIDE DEF T
<1>15. M \in T
  <2>1. \A n \in 0..M : n \in T
    BY <1>1, <1>13, <1>14, Upward
  <2> QED BY <1>1, <2>1
<1> QED
  BY <1>3, <1>8, <1>11, <1>15 DEF T

\* The entries of a list are of some events.
OfEvents(s, events) == Listed(s) /\ \A e \in ToSet(s) : e.event_type \in events

\* What the parts of a trail are of.
LEMMA EventsOfParts ==
    ASSUME NEW core, Tellable(core), NEW i \in 1..Len(core), NEW k \in Capability
    PROVE  /\ OfEvents(OfMapping(core, i, k), {"CAPABILITY_MAPPED"})
           /\ OfEvents(OfConflicts(core, i, k), {"CONFLICT_RESOLVED", "CONFLICT_ESCALATED"})
           /\ \A gap : OfEvents(GapEntries(i, k, gap), {"GAP_DECLARED"})
           /\ OfEvents(ExclusionEntries(core, i, k), {"MECHANISM_EXCLUDED"})
           /\ OfEvents(StatusEntries(core, i, k), {"CAPABILITY_STATUS_SET"})
<1>1. ASSUME NEW event, NEW payload
      PROVE  OfEvents(<<Recorded(event, i, k, payload)>>, {event}) /\ OfEvents(<< >>, {event})
  <2> DEFINE e == Recorded(event, i, k, payload)
  <2>1. e.event_type = event
    BY DEF Recorded
  <2> HIDE DEF e
  <2>2. Listed(<<e>>) /\ ToSet(<<e>>) = {e} /\ Listed(<< >>) /\ ToSet(<< >>) = {}
    BY ListedParts
  <2>3. OfEvents(<<e>>, {event}) /\ OfEvents(<< >>, {event})
    BY <2>1, <2>2 DEF OfEvents
  <2> QED BY <2>3 DEF e
<1>2. OfEvents(OfMapping(core, i, k), {"CAPABILITY_MAPPED"})
  BY <1>1 DEF OfMapping
<1>3. ASSUME NEW gap PROVE OfEvents(GapEntries(i, k, gap), {"GAP_DECLARED"})
  BY <1>1 DEF GapEntries
<1>4. OfEvents(StatusEntries(core, i, k), {"CAPABILITY_STATUS_SET"})
  <2> DEFINE status == CapabilityStatus(core[i].gated[k])
  <2>1. StatusEntries(core, i, k) = IF status = "covered_by_mechanism" THEN << >>
                ELSE <<Recorded("CAPABILITY_STATUS_SET", i, k, status)>>
    BY DEF StatusEntries
  <2> HIDE DEF status
  <2> QED BY <1>1, <2>1
<1>5. OfEvents(OfConflicts(core, i, k), {"CONFLICT_RESOLVED", "CONFLICT_ESCALATED"})
  <2> DEFINE met == core[i].conflicts[k]
             s == OfConflicts(core, i, k)
             n == Len(met)
  <2>1. Listed(s)
    BY PartsSpeak DEF Speaks
  <2>2. s = [j \in DOMAIN met |-> ConflictEntry(i, k, met[j])]
    BY DEF OfConflicts
  <2> HIDE DEF s
  <2>3. \A e \in ToSet(s) : e.event_type \in {"CONFLICT_RESOLVED", "CONFLICT_ESCALATED"}
    BY <2>2 DEF ToSet, ConflictEntry, Recorded
  <2> QED BY <2>1, <2>3 DEF OfEvents, s
<1>6. OfEvents(ExclusionEntries(core, i, k), {"MECHANISM_EXCLUDED"})
  <2> DEFINE s == ExclusionEntries(core, i, k)
             o == core[i].gated[k]
             at == Ascending({c \in DOMAIN o : o[c].excluded # None})
  <2>1. Listed(s)
    BY PartsSpeak DEF Speaks
  <2>2. s = [j \in DOMAIN at |-> Recorded("MECHANISM_EXCLUDED", i, k,
                [control |-> at[j], outcome |-> o[at[j]].excluded])]
    BY DEF ExclusionEntries
  <2> HIDE DEF s, at, o
  <2>3. \A e \in ToSet(s) : e.event_type \in {"MECHANISM_EXCLUDED"}
    BY <2>2 DEF ToSet, Recorded
  <2> QED BY <2>1, <2>3 DEF OfEvents, s
<1> QED
  BY <1>2, <1>3, <1>4, <1>5, <1>6

\* A list of such events is kept, and a list of other events is not.
Among(all, i, k, events) == {e \in all : e.zone = i /\ e.capability = k /\ e.event_type \in events}

\* A list of some events is kept whole, or not at all.
LEMMA KeptOrNot ==
    ASSUME NEW s, NEW i, NEW k, NEW mine, Speaks(s, i, k), OfEvents(s, mine),
           NEW all, ToSet(s) \subseteq all, NEW events
    PROVE  /\ mine \subseteq events => Only(s, Among(all, i, k, events)) = s
           /\ mine \cap events = {} => Only(s, Among(all, i, k, events)) = << >>
<1> DEFINE Z == Among(all, i, k, events)
<1>1. Listed(s)
  BY DEF Speaks
<1>2. mine \subseteq events => ToSet(s) \subseteq Z
  BY DEF Speaks, OfEvents, Among
<1>3. mine \cap events = {} => ToSet(s) \cap Z = {}
  BY DEF OfEvents, Among
<1> HIDE DEF Z
<1>4. /\ mine \subseteq events => Only(s, Z) = s
      /\ mine \cap events = {} => Only(s, Z) = << >>
  BY <1>1, <1>2, <1>3, OnlyAll, OnlyNone
<1> QED
  BY <1>4 DEF Z

\* Nothing before a list or after it.
LEMMA NothingAdded ==
    ASSUME NEW s, Listed(s)
    PROVE  << >> \o s = s /\ s \o << >> = s
<1>1. s \in Seq(ToSet(s))
  BY DEF Listed
<1> QED BY <1>1, ConcatEmptySeq

\* What is kept of the trail is what is kept of its parts.
LEMMA TrailKeeps ==
    ASSUME NEW core, Tellable(core), NEW i \in 1..Len(core), NEW k \in Capability,
           NEW Y, \A e \in Y : e.zone = i /\ e.capability = k /\ e.event_type \notin PriorityEvents
    PROVE  LET kept(s) == Only(s, Y)
           IN  /\ Listed(CoreTrail(core))
               /\ kept(CoreTrail(core)) =
                     (kept(OfMapping(core, i, k))
                         \o (kept(OfConflicts(core, i, k))
                                \o kept(GapEntries(i, k, ResolutionGap(core[i].resolved[k])))))
                         \o ((kept(ExclusionEntries(core, i, k)) \o kept(StatusEntries(core, i, k)))
                                \o kept(GapEntries(i, k, RedeclaredGap(core, i, k))))
<1> DEFINE m == OfMapping(core, i, k)
           c == OfConflicts(core, i, k)
           g == GapEntries(i, k, ResolutionGap(core[i].resolved[k]))
           x == ExclusionEntries(core, i, k)
           s == StatusEntries(core, i, k)
           h == GapEntries(i, k, RedeclaredGap(core, i, k))
<1>1. OfResolution(core, i, k) = c \o g /\ OfGating(core, i, k) = (x \o s) \o h
  BY DEF OfResolution, OfGating
<1>2. Listed(c) /\ Listed(g) /\ Listed(x) /\ Listed(s) /\ Listed(h)
  <2>1. \A gap : Speaks(GapEntries(i, k, gap), i, k)
    BY SpeaksOnce DEF GapEntries
  <2> QED BY <2>1, PartsSpeak DEF Speaks
<1>3. /\ Listed(CoreTrail(core))
      /\ Only(CoreTrail(core), Y) = (Only(m, Y) \o Only(c \o g, Y)) \o Only((x \o s) \o h, Y)
  <2>1. /\ Listed(CoreTrail(core))
        /\ Only(CoreTrail(core), Y) =
              (Only(OfMapping(core, i, k), Y) \o Only(OfResolution(core, i, k), Y))
                  \o Only(OfGating(core, i, k), Y)
    BY TrailTells
  <2> HIDE DEF m, c, g, x, s, h
  <2> QED BY <1>1, <2>1 DEF m
<1> HIDE DEF m, c, g, x, s, h
<1>4. Only(c \o g, Y) = Only(c, Y) \o Only(g, Y)
  <2>1. Listed(c) /\ Listed(g)
    BY <1>2
  <2> QED BY <2>1, OnlyOfBoth
<1> DEFINE t == x \o s
<1>5. Listed(t) /\ Only(t, Y) = Only(x, Y) \o Only(s, Y)
  <2>1. Listed(x) /\ Listed(s)
    BY <1>2
  <2>2. Only(x \o s, Y) = Only(x, Y) \o Only(s, Y)
    BY <2>1, OnlyOfBoth
  <2>3. Listed(x \o s)
    BY <2>1, ListedParts
  <2> QED BY <2>2, <2>3
<1> HIDE DEF t
<1>6. Only(t \o h, Y) = Only(t, Y) \o Only(h, Y)
  <2>1. Listed(t) /\ Listed(h)
    BY <1>2, <1>5
  <2> QED BY <2>1, OnlyOfBoth
<1> QED
  BY <1>3, <1>4, <1>5, <1>6 DEF t, m, c, g, x, s, h

\* What the trail of a core tells of a capability of a zone.
LEMMA ToldIs ==
    ASSUME NEW core, Tellable(core), NEW i \in 1..Len(core), NEW k \in Capability
    PROVE  LET trail == CoreTrail(core)
               told(events) == Told(trail, i, k, events)
           IN  /\ told({"CAPABILITY_MAPPED"}) = OfMapping(core, i, k)
               /\ told({"CONFLICT_RESOLVED", "CONFLICT_ESCALATED"}) = OfConflicts(core, i, k)
               /\ told({"MECHANISM_EXCLUDED"}) = ExclusionEntries(core, i, k)
               /\ told({"GAP_DECLARED"}) =
                     GapEntries(i, k, ResolutionGap(core[i].resolved[k]))
                         \o GapEntries(i, k, RedeclaredGap(core, i, k))
<1> DEFINE trail == CoreTrail(core)
           told(events) == Told(trail, i, k, events)
           m == OfMapping(core, i, k)
           c == OfConflicts(core, i, k)
           g == GapEntries(i, k, ResolutionGap(core[i].resolved[k]))
           x == ExclusionEntries(core, i, k)
           s == StatusEntries(core, i, k)
           h == GapEntries(i, k, RedeclaredGap(core, i, k))
           all == ToSet(trail) \cup ToSet(m) \cup ToSet(c) \cup ToSet(g)
                      \cup ToSet(x) \cup ToSet(s) \cup ToSet(h)
           Z(events) == Among(all, i, k, events)
           kept(t, events) == Only(t, Z(events))
<1>1. /\ Speaks(m, i, k) /\ OfEvents(m, {"CAPABILITY_MAPPED"})
      /\ Speaks(c, i, k) /\ OfEvents(c, {"CONFLICT_RESOLVED", "CONFLICT_ESCALATED"})
      /\ Speaks(g, i, k) /\ OfEvents(g, {"GAP_DECLARED"})
      /\ Speaks(x, i, k) /\ OfEvents(x, {"MECHANISM_EXCLUDED"})
      /\ Speaks(s, i, k) /\ OfEvents(s, {"CAPABILITY_STATUS_SET"})
      /\ Speaks(h, i, k) /\ OfEvents(h, {"GAP_DECLARED"})
  <2>1. \A gap : Speaks(GapEntries(i, k, gap), i, k)
    BY SpeaksOnce DEF GapEntries
  <2> QED BY <2>1, PartsSpeak, EventsOfParts
<1>2. Listed(m) /\ Listed(c) /\ Listed(g) /\ Listed(x) /\ Listed(s) /\ Listed(h)
  <2> HIDE DEF m, c, g, x, s, h
  <2> QED BY <1>1 DEF Speaks
<1>3. ASSUME NEW Y, \A e \in Y : e.zone = i /\ e.capability = k /\ e.event_type \notin PriorityEvents
      PROVE  /\ Listed(trail)
             /\ Only(trail, Y) =
                    (Only(m, Y) \o (Only(c, Y) \o Only(g, Y)))
                        \o ((Only(x, Y) \o Only(s, Y)) \o Only(h, Y))
  BY <1>3, TrailKeeps
<1> HIDE DEF trail, m, c, g, x, s, h
<1>4. Listed(trail)
  <2>1. \A e \in {} : e.zone = i /\ e.capability = k /\ e.event_type \notin PriorityEvents
    OBVIOUS
  <2> QED BY <1>3, <2>1
<1>5. ASSUME NEW events, events \cap PriorityEvents = {}
      PROVE  told(events) = (kept(m, events) \o (kept(c, events) \o kept(g, events)))
                                \o ((kept(x, events) \o kept(s, events)) \o kept(h, events))
  <2> DEFINE Y == Z(events)
             X == {e \in ToSet(trail) :
                      e.zone = i /\ e.capability = k /\ e.event_type \in events}
  <2>1. \A e \in Y : e.zone = i /\ e.capability = k /\ e.event_type \notin PriorityEvents
    BY <1>5 DEF Among
  <2>2. \A e \in ToSet(trail) : e \in X <=> e \in Y
    BY DEF Among
  <2>3. told(events) = Only(trail, X)
    BY DEF Told
  <2> HIDE DEF X, Y
  <2>4. told(events) = Only(trail, Y)
    BY <1>4, <2>2, <2>3, OnlyAlike
  <2>5. Only(trail, Y) =
                    (Only(m, Y) \o (Only(c, Y) \o Only(g, Y)))
                        \o ((Only(x, Y) \o Only(s, Y)) \o Only(h, Y))
    BY <1>3, <2>1
  <2> QED BY <2>4, <2>5 DEF Y
<1>6. ASSUME NEW t \in {m, c, g, x, s, h}, NEW mine, NEW events, OfEvents(t, mine)
      PROVE  /\ mine \subseteq events => kept(t, events) = t
             /\ mine \cap events = {} => kept(t, events) = << >>
  <2>1. Speaks(t, i, k)
    BY <1>1
  <2>2. ToSet(t) \subseteq all
    BY <1>6
  <2> HIDE DEF all
  <2> QED BY <1>6, <2>1, <2>2, KeptOrNot
<1>7. << >> \o << >> = << >>
  BY NothingAdded, ListedParts
<1> HIDE DEF all, Z, kept, told
<1>8. told({"CAPABILITY_MAPPED"}) = m
  <2> DEFINE E == {"CAPABILITY_MAPPED"}
  <2>1. told(E) = (kept(m, E) \o (kept(c, E) \o kept(g, E)))
                      \o ((kept(x, E) \o kept(s, E)) \o kept(h, E))
    BY <1>5 DEF PriorityEvents
  <2>2. /\ kept(m, E) = m /\ kept(c, E) = << >> /\ kept(g, E) = << >> /\ kept(x, E) = << >>
        /\ kept(s, E) = << >> /\ kept(h, E) = << >>
    BY <1>1, <1>6
  <2> HIDE DEF E
  <2>3. m \o << >> = m
    BY <1>2, NothingAdded
  <2> QED BY <1>7, <2>1, <2>2, <2>3 DEF E
<1>9. told({"CONFLICT_RESOLVED", "CONFLICT_ESCALATED"}) = c
  <2> DEFINE E == {"CONFLICT_RESOLVED", "CONFLICT_ESCALATED"}
  <2>1. told(E) = (kept(m, E) \o (kept(c, E) \o kept(g, E)))
                      \o ((kept(x, E) \o kept(s, E)) \o kept(h, E))
    BY <1>5 DEF PriorityEvents
  <2>2. /\ kept(m, E) = << >> /\ kept(c, E) = c /\ kept(g, E) = << >> /\ kept(x, E) = << >>
        /\ kept(s, E) = << >> /\ kept(h, E) = << >>
    BY <1>1, <1>6
  <2> HIDE DEF E
  <2>3. << >> \o c = c /\ c \o << >> = c
    BY <1>2, NothingAdded
  <2> QED BY <1>7, <2>1, <2>2, <2>3 DEF E
<1>10. told({"MECHANISM_EXCLUDED"}) = x
  <2> DEFINE E == {"MECHANISM_EXCLUDED"}
  <2>1. told(E) = (kept(m, E) \o (kept(c, E) \o kept(g, E)))
                      \o ((kept(x, E) \o kept(s, E)) \o kept(h, E))
    BY <1>5 DEF PriorityEvents
  <2>2. /\ kept(m, E) = << >> /\ kept(c, E) = << >> /\ kept(g, E) = << >> /\ kept(x, E) = x
        /\ kept(s, E) = << >> /\ kept(h, E) = << >>
    BY <1>1, <1>6
  <2> HIDE DEF E
  <2>3. << >> \o x = x /\ x \o << >> = x
    BY <1>2, NothingAdded
  <2> QED BY <1>7, <2>1, <2>2, <2>3 DEF E
<1>11. told({"GAP_DECLARED"}) = g \o h
  <2> DEFINE E == {"GAP_DECLARED"}
  <2>1. told(E) = (kept(m, E) \o (kept(c, E) \o kept(g, E)))
                      \o ((kept(x, E) \o kept(s, E)) \o kept(h, E))
    BY <1>5 DEF PriorityEvents
  <2>2. /\ kept(m, E) = << >> /\ kept(c, E) = << >> /\ kept(g, E) = g /\ kept(x, E) = << >>
        /\ kept(s, E) = << >> /\ kept(h, E) = h
    BY <1>1, <1>6
  <2> HIDE DEF E
  <2>3. << >> \o g = g /\ << >> \o h = h
    BY <1>2, NothingAdded
  <2> QED BY <1>7, <2>1, <2>2, <2>3 DEF E
<1> QED
  BY <1>8, <1>9, <1>10, <1>11 DEF told, trail, m, c, g, x, h

\* An order of a set is a list.
LEMMA OrdersAreLists ==
    ASSUME NEW S, IsFiniteSet(S), NEW R
    PROVE  Listed(InOrder(S, R))
<1> DEFINE n == Cardinality(S)
           s == InOrder(S, R)
           at(i) == CHOOSE c \in S : Cardinality({d \in S : <<d, c>> \in R}) = i - 1
<1>1. n \in Nat
  BY FS_CardinalityType
<1>2. s = [i \in 1..n |-> at(i)]
  BY DEF InOrder
<1> HIDE DEF n, s, at
<1>3. s = [i \in 1..n |-> s[i]]
  BY <1>2
<1> QED
  BY <1>1, <1>3, ListedIs DEF s

\* Conflicts that set nothing aside and leave nothing to the human.
Harmless(s) ==
    Listed(s) /\ \A e \in ToSet(s) : ~e.requires_human_decision /\ e.superseded = {}

\* The conflicts of a capability: one for each contradiction that applies, and then
\* what the options that are left overlap in.
LEMMA ConflictsAre ==
    ASSUME NEW rules \in Seq(Contradiction), NEW o, NEW k, NEW zone
    PROVE  LET declared == ContradictionsFor(rules, k, o, zone)
               met == ConflictsOf(o, rules, k, zone)
           IN  /\ Listed(met) /\ Len(declared) \in 0..Len(met)
               /\ \A n \in 1..Len(declared) : met[n] = ContradictionConflict(declared[n], o, zone)
               /\ \A n \in 1..Len(met) : n > Len(declared) =>
                     ~met[n].requires_human_decision /\ met[n].superseded = {}
<1> DEFINE declared == ContradictionsFor(rules, k, o, zone)
           left == ResolveCapability(o, rules, k, zone)
           first == [i \in DOMAIN declared |-> ContradictionConflict(declared[i], o, zone)]
           overlap == DetectOverlap(left)
           granularity == DetectGranularity(left)
           L == Len(declared)
<1>1. declared \in Seq(Contradiction)
  BY DeclaredOnes
<1>2. L \in Nat /\ DOMAIN declared = 1..L
  <2> HIDE DEF declared
  <2> QED BY <1>1, LenProperties
<1>3. ConflictsOf(o, rules, k, zone) = (first \o overlap) \o granularity
  BY DEF ConflictsOf
<1>4. ASSUME NEW type, NEW involved
      PROVE  Harmless(<<ConflictOf(type, involved, {}, FALSE)>>) /\ Harmless(<< >>)
  <2> DEFINE e == ConflictOf(type, involved, {}, FALSE)
  <2>1. ~e.requires_human_decision /\ e.superseded = {}
    BY DEF ConflictOf
  <2> HIDE DEF e
  <2>2. Listed(<<e>>) /\ ToSet(<<e>>) = {e} /\ Listed(<< >>) /\ ToSet(<< >>) = {}
    BY ListedParts
  <2>3. Harmless(<<e>>) /\ Harmless(<< >>)
    BY <2>1, <2>2 DEF Harmless
  <2> QED BY <2>3 DEF e
<1>5. Harmless(overlap) /\ Harmless(granularity)
  BY <1>4 DEF DetectOverlap, DetectGranularity
<1> HIDE DEF declared, left, L
<1>6. first = [i \in 1..L |-> ContradictionConflict(declared[i], o, zone)]
  BY <1>2
<1> HIDE DEF first
<1>7. first = [i \in 1..L |-> first[i]] /\ \A i \in 1..L : first[i] = ContradictionConflict(declared[i], o, zone)
  BY <1>6
<1>8. Listed(first) /\ Len(first) = L
  BY <1>2, <1>7, ListedIs
<1> DEFINE rest == overlap \o granularity
           both == first \o overlap
           met == both \o granularity
<1> HIDE DEF overlap, granularity
<1>9. Listed(overlap) /\ Listed(granularity)
  BY <1>5 DEF Harmless
<1>10. /\ Listed(both) /\ Len(both) = L + Len(overlap)
       /\ \A i \in 1..L : both[i] = first[i]
       /\ \A i \in 1..Len(overlap) : both[L + i] = overlap[i]
  BY <1>8, <1>9, ListedParts
<1> HIDE DEF both
<1>11. /\ Listed(met) /\ Len(met) = Len(both) + Len(granularity)
       /\ \A i \in 1..Len(both) : met[i] = both[i]
       /\ \A i \in 1..Len(granularity) : met[Len(both) + i] = granularity[i]
  BY <1>9, <1>10, ListedParts
<1> HIDE DEF met
<1>12. /\ Len(overlap) \in Nat /\ DOMAIN overlap = 1..Len(overlap)
       /\ Len(granularity) \in Nat /\ DOMAIN granularity = 1..Len(granularity)
  BY <1>9, ListedIs
<1>13. Len(both) \in Nat /\ Len(met) \in Nat /\ L <= Len(both) /\ Len(both) <= Len(met)
  BY <1>2, <1>10, <1>11, <1>12
<1>14. ASSUME NEW i \in 1..L PROVE met[i] = ContradictionConflict(declared[i], o, zone)
  <2>1. i \in 1..Len(both)
    BY <1>2, <1>13
  <2> QED BY <1>7, <1>10, <1>11, <2>1
<1>15. ASSUME NEW i \in 1..Len(met), i > L
       PROVE  ~met[i].requires_human_decision /\ met[i].superseded = {}
  <2>1. CASE i <= Len(both)
    <3> DEFINE j == i - L
    <3>1. j \in 1..Len(overlap) /\ L + j = i /\ i \in 1..Len(both)
      BY <1>2, <1>10, <1>12, <1>13, <1>15, <2>1
    <3> HIDE DEF j
    <3>2. met[i] = overlap[j]
      BY <1>10, <1>11, <3>1
    <3>3. overlap[j] \in ToSet(overlap)
      BY <1>12, <3>1 DEF ToSet
    <3> QED BY <1>5, <3>2, <3>3 DEF Harmless
  <2>2. CASE i > Len(both)
    <3> DEFINE j == i - Len(both)
    <3>1. j \in 1..Len(granularity) /\ Len(both) + j = i
      BY <1>11, <1>12, <1>13, <2>2
    <3> HIDE DEF j
    <3>2. met[i] = granularity[j]
      BY <1>11, <3>1
    <3>3. granularity[j] \in ToSet(granularity)
      BY <1>12, <3>1 DEF ToSet
    <3> QED BY <1>5, <3>2, <3>3 DEF Harmless
  <2> QED BY <1>13, <2>1, <2>2
<1>16. L \in 0..Len(met)
  BY <1>2, <1>13
<1> QED
  BY <1>3, <1>11, <1>14, <1>15, <1>16 DEF met, both, L, declared

\* What else the core makes of a zone.
LEMMA CoreOfConflicts ==
    ASSUME NEW ask \in AskedCandidates, NEW i \in DOMAIN Core(ask)
    PROVE  LET core == Core(ask)[i]
               zone == Context(ask, i)
           IN  /\ Listed(core.order)
               /\ \A k \in Capability :
                     /\ core.conflicts[k] =
                           ConflictsOf(BuildOptions(ask.mappings, k), ask.contradictions, k, zone)
                     /\ core.gated[k] = Gated(core.resolved[k], ask.gating, zone)
<1> DEFINE zone == Context(ask, i)
<1>1. Core(ask)[i] = ZoneCore(ask, zone)
  BY DEF Core, Context
<1>2. \A k \in Capability :
         /\ ZoneCore(ask, zone).conflicts[k] =
               ConflictsOf(BuildOptions(ask.mappings, k), ask.contradictions, k, zone)
         /\ ZoneCore(ask, zone).gated[k] =
               Gated(ZoneCore(ask, zone).resolved[k], ask.gating, zone)
  BY DEF ZoneCore
<1>3. \E R : ZoneCore(ask, zone).order = InOrder(Capability, R)
  BY DEF ZoneCore, RoadmapOrder
<1>4. Listed(ZoneCore(ask, zone).order)
  BY <1>3, OrdersAreLists, FiniteCatalogAssumption
<1> HIDE DEF zone
<1>5. /\ Listed(Core(ask)[i].order)
      /\ \A k \in Capability :
            /\ Core(ask)[i].conflicts[k] =
                  ConflictsOf(BuildOptions(ask.mappings, k), ask.contradictions, k, zone)
            /\ Core(ask)[i].gated[k] = Gated(Core(ask)[i].resolved[k], ask.gating, zone)
  BY <1>1, <1>2, <1>4
<1> QED BY <1>5 DEF zone

\* What a core records is a list, whatever is asked.
LEMMA CoreIsTellable ==
    ASSUME NEW ask \in AskedCandidates
    PROVE  Tellable(Core(ask)) /\ DOMAIN Core(ask) = 1..Len(Core(ask))
<1> DEFINE core == Core(ask)
           n == Len(ask.zones)
<1>1. ask.zones \in Seq(Zone) /\ ask.contradictions \in Seq(Contradiction)
  BY DEF AskedCandidates
<1>2. n \in Nat /\ DOMAIN ask.zones = 1..n
  BY <1>1, LenProperties
<1>3. DOMAIN core = 1..n /\ core = [i \in 1..n |-> core[i]]
  BY <1>2 DEF Core
<1> HIDE DEF core
<1>4. Listed(core) /\ Len(core) = n
  BY <1>2, <1>3, ListedIs
<1>5. ASSUME NEW i \in 1..n, NEW k \in Capability
      PROVE  Listed(core[i].conflicts[k]) /\ DOMAIN core[i].gated[k] \subseteq Control
  <2> DEFINE zone == Context(ask, i)
             built == BuildOptions(ask.mappings, k)
  <2>1. i \in DOMAIN Core(ask)
    BY <1>3 DEF core
  <2>2. /\ core[i].conflicts[k] = ConflictsOf(built, ask.contradictions, k, zone)
        /\ core[i].gated[k] = Gated(core[i].resolved[k], ask.gating, zone)
    BY <2>1, CoreOfConflicts DEF core
  <2>3. DOMAIN core[i].resolved[k] \subseteq Control
    BY <2>1, CoreOfZone DEF core
  <2> HIDE DEF zone, built
  <2>4. Listed(ConflictsOf(built, ask.contradictions, k, zone))
    BY <1>1, ConflictsAre
  <2> QED BY <2>2, <2>3, <2>4 DEF Gated
<1>6. ASSUME NEW i \in 1..n PROVE Listed(core[i].order)
  <2>1. i \in DOMAIN Core(ask)
    BY <1>3 DEF core
  <2> QED BY <2>1, CoreOfConflicts DEF core
<1>7. Tellable(core)
  BY <1>4, <1>5, <1>6 DEF Tellable
<1> QED BY <1>3, <1>4, <1>7 DEF core

\* The conflicts it records retell how the options were settled.
LEMMA CoreRetells ==
    ASSUME NEW ask \in AskedCandidates, NEW i \in DOMAIN Core(ask), NEW k \in Capability
    PROVE  LET built == BuildOptions(ask.mappings, k)
           IN  Retells(OfConflicts(Core(ask), i, k), built,
                       ContradictionsFor(ask.contradictions, k, built, Context(ask, i)),
                       Context(ask, i), i, k)
<1> DEFINE zone == Context(ask, i)
           built == BuildOptions(ask.mappings, k)
           declared == ContradictionsFor(ask.contradictions, k, built, zone)
           met == ConflictsOf(built, ask.contradictions, k, zone)
           s == OfConflicts(Core(ask), i, k)
           n == Len(met)
<1>1. ask.contradictions \in Seq(Contradiction)
  BY DEF AskedCandidates
<1>2. Core(ask)[i].conflicts[k] = met
  BY CoreOfConflicts
<1>3. /\ Listed(met) /\ Len(declared) \in 0..n
      /\ \A j \in 1..Len(declared) : met[j] = ContradictionConflict(declared[j], built, zone)
      /\ \A j \in 1..n : j > Len(declared) =>
            ~met[j].requires_human_decision /\ met[j].superseded = {}
  <2> HIDE DEF zone, built
  <2> QED BY <1>1, ConflictsAre
<1> HIDE DEF zone, built, declared, met
<1>4. n \in Nat /\ DOMAIN met = 1..n
  BY <1>3, ListedIs DEF n
<1>5. s = [j \in 1..n |-> ConflictEntry(i, k, met[j])]
  BY <1>2, <1>4 DEF OfConflicts
<1> HIDE DEF s, n
<1>6. s = [j \in 1..n |-> s[j]] /\ \A j \in 1..n : s[j] = ConflictEntry(i, k, met[j])
  BY <1>5
<1>7. Listed(s) /\ Len(s) = n
  BY <1>4, <1>6, ListedIs
<1>8. ASSUME NEW j \in 1..n, j > Len(declared)
      PROVE  s[j].event_type = "CONFLICT_RESOLVED" /\ s[j].payload.superseded = {}
  <2>1. ~met[j].requires_human_decision /\ met[j].superseded = {}
    BY <1>3, <1>8 DEF n
  <2> QED BY <1>6, <2>1 DEF ConflictEntry, Recorded
<1>9. \A j \in 1..Len(declared) :
         s[j] = ConflictEntry(i, k, ContradictionConflict(declared[j], built, zone))
  BY <1>3, <1>4, <1>6 DEF n
<1>10. Retells(s, built, declared, zone, i, k)
  BY <1>3, <1>7, <1>8, <1>9 DEF Retells, n
<1> QED BY <1>10 DEF s, declared, built, zone

\* Nothing tells two readings of the options apart but what is excluded.
OnlyExcludes(o, g, S) ==
    /\ DOMAIN o = S
    /\ g = [c \in S |-> [o[c] EXCEPT !.excluded = g[c].excluded]]

\* Excluded as a trail tells, options are as gating left them.
LEMMA ExcludedAgain ==
    ASSUME NEW core, NEW i, NEW k, NEW g, g = core[i].gated[k],
           NEW o, NEW S, S \subseteq Control, OnlyExcludes(o, g, S)
    PROVE  LeftAsTold(o, ExclusionEntries(core, i, k)) = g
<1> DEFINE left == ExcludedOf(g)
           s == ExclusionEntries(core, i, k)
           at == Ascending(left)
           n == Cardinality(left)
           outcomes(c) == {e.payload.outcome : e \in {x \in ToSet(s) : x.payload.control = c}}
<1>1. /\ at \in [1..n -> left] /\ n \in Nat
      /\ \A c \in left : \E j \in 1..n : at[j] = c
      /\ Listed(s) /\ Len(s) = n
      /\ \A j \in 1..n : s[j] = Exclusion(g, i, k, at[j])
  <2>1. DOMAIN core[i].gated[k] \subseteq Control
    BY DEF OnlyExcludes
  <2>2. LET left2 == ExcludedOf(core[i].gated[k])
            at2   == Ascending(left2)
            s2    == ExclusionEntries(core, i, k)
        IN  /\ at2 \in [1..Cardinality(left2) -> left2] /\ Cardinality(left2) \in Nat
            /\ \A c \in left2 : \E j \in 1..Cardinality(left2) : at2[j] = c
            /\ Listed(s2) /\ Len(s2) = Cardinality(left2)
            /\ \A j \in 1..Cardinality(left2) : s2[j] = Exclusion(core[i].gated[k], i, k, at2[j])
    BY <2>1, ExclusionsListed DEF Speaks
  <2> QED BY <2>2
<1> HIDE DEF s, at, n
<1>2. ToSet(s) = {s[j] : j \in 1..n}
  <2>1. DOMAIN s = 1..n
    BY <1>1, ListedIs
  <2> QED BY <2>1 DEF ToSet
<1>3. \A j \in 1..n : s[j].payload.control = at[j] /\ s[j].payload.outcome = g[at[j]].excluded
  <2> TAKE j \in 1..n
  <2>1. s[j] = Exclusion(g, i, k, at[j])
    BY <1>1
  <2> QED BY <2>1 DEF Exclusion, Recorded
<1> HIDE DEF left
<1>4. \A c \in left : outcomes(c) = {g[c].excluded}
  BY <1>1, <1>2, <1>3
<1>5. \A c : c \notin left => outcomes(c) = {}
  BY <1>1, <1>2, <1>3
<1>6. \A c \in S : g[c].excluded =
         IF outcomes(c) = {} THEN None ELSE CHOOSE x \in outcomes(c) : TRUE
  <2> TAKE c \in S
  <2>1. CASE c \in left
    <3>1. outcomes(c) = {g[c].excluded}
      BY <1>4, <2>1
    <3> HIDE DEF outcomes
    <3> QED BY <3>1
  <2>2. CASE c \notin left
    <3>1. outcomes(c) = {} /\ g[c].excluded = None
      <4>1. outcomes(c) = {}
        BY <1>5, <2>2
      <4>2. DOMAIN g = S
        BY DEF OnlyExcludes
      <4> HIDE DEF outcomes
      <4> QED BY <2>2, <4>1, <4>2 DEF left, ExcludedOf
    <3> HIDE DEF outcomes
    <3> QED BY <3>1
  <2> QED BY <2>1, <2>2
<1>7. DOMAIN o = S
  BY DEF OnlyExcludes
<1>8. LeftAsTold(o, s) = [c \in S |-> [o[c] EXCEPT !.excluded =
         IF outcomes(c) = {} THEN None ELSE CHOOSE x \in outcomes(c) : TRUE]]
  BY <1>7 DEF LeftAsTold
<1> HIDE DEF outcomes
<1>9. LeftAsTold(o, s) = [c \in S |-> [o[c] EXCEPT !.excluded = g[c].excluded]]
  BY <1>6, <1>8
<1>10. g = [c \in S |-> [o[c] EXCEPT !.excluded = g[c].excluded]]
  BY DEF OnlyExcludes
<1>11. LeftAsTold(o, s) = g
  BY <1>9, <1>10
<1> QED BY <1>11 DEF s

\* Gating decides of every option, and changes nothing else of it.
LEMMA GatedOnlyExcludes ==
    ASSUME NEW ask \in AskedCandidates, NEW i \in DOMAIN Core(ask), NEW k \in Capability
    PROVE  LET o == Core(ask)[i].resolved[k]
           IN  /\ o \in Options(DOMAIN o) /\ DOMAIN o \subseteq Control
               /\ OnlyExcludes(o, Core(ask)[i].gated[k], DOMAIN o)
<1> DEFINE o == Core(ask)[i].resolved[k]
           g == Core(ask)[i].gated[k]
           S == DOMAIN o
           out(c) == Decision(ask.gating, c, Context(ask, i)).outcome
<1>1. o \in Options(S) /\ S \subseteq Control
  BY CoreOfZone
<1>2. g = Gated(o, ask.gating, Context(ask, i))
  BY CoreOfConflicts
<1> HIDE DEF o, g
<1>3. g = [c \in S |-> [o[c] EXCEPT !.excluded = out(c)]]
  BY <1>2 DEF Gated
<1> HIDE DEF out
<1>4. \A c \in S : [o[c] EXCEPT !.excluded = out(c)].excluded = out(c)
  <2>1. \A c \in S : o[c] \in CandidateOption
    BY <1>1 DEF Options
  <2> QED BY <2>1 DEF CandidateOption
<1>5. g = [c \in S |-> [o[c] EXCEPT !.excluded = g[c].excluded]]
  BY <1>3, <1>4
<1>6. OnlyExcludes(o, g, S)
  BY <1>5 DEF OnlyExcludes
<1> QED BY <1>1, <1>6 DEF o, g

\* What is said of the options of a capability is how the core left them.
LEMMA OptionsAreTold ==
    ASSUME NEW ask \in AskedCandidates, NEW i \in DOMAIN Core(ask), NEW k \in Capability
    PROVE  LET core == Core(ask)
               mapped == core[i].resolved[k]
               settled == SettledAsTold(WithStatus(mapped, DOMAIN mapped, "eligible"),
                                        OfConflicts(core, i, k))
           IN  LeftAsTold(settled, ExclusionEntries(core, i, k)) = core[i].gated[k]
<1> DEFINE core == Core(ask)
           mapped == core[i].resolved[k]
           zone == Context(ask, i)
           built == BuildOptions(ask.mappings, k)
           S == DOMAIN built
           declared == ContradictionsFor(ask.contradictions, k, built, zone)
           s == OfConflicts(core, i, k)
<1>1. ask.contradictions \in Seq(Contradiction) /\ ask.mappings \in SUBSET Mapping
  BY DEF AskedCandidates
<1>2. /\ S \subseteq Control /\ built \in Options(S)
      /\ \A c \in S : built[c].status = "eligible"
  BY <1>1, BuiltOptions
<1>3. \A c \in S : built[c].excluded = None
  BY DEF BuildOptions
<1>4. mapped = Settled(built, declared, zone) /\ mapped \in Options(S) /\ DOMAIN mapped = S
  BY CoreOfZone
<1>5. declared \in Seq(Contradiction)
  <2> HIDE DEF built, zone
  <2> QED BY <1>1, DeclaredOnes
<1>6. Retells(s, built, declared, zone, i, k)
  BY CoreRetells
<1> HIDE DEF built, zone, declared, s, mapped, core
<1>8. WithStatus(mapped, DOMAIN mapped, "eligible") = built
  <2> DEFINE x == Settled(built, declared, zone)
  <2>1. WithStatus(x, DOMAIN x, "eligible") = built
    BY <1>2, <1>3, <1>5, AsTheyWereMapped
  <2> QED BY <1>4, <2>1
<1>9. SettledAsTold(built, s) = mapped
  BY <1>2, <1>4, <1>5, <1>6, SettledAgain
<1>10. OnlyExcludes(mapped, core[i].gated[k], S)
  <2> DEFINE g == core[i].gated[k]
  <2>1. OnlyExcludes(mapped, g, S)
    BY <1>4, GatedOnlyExcludes DEF core, mapped
  <2> QED BY <2>1
<1> HIDE DEF S
<1>11. LeftAsTold(mapped, ExclusionEntries(core, i, k)) = core[i].gated[k]
  <2> DEFINE g == core[i].gated[k]
  <2>1. g = core[i].gated[k] /\ S \subseteq Control /\ OnlyExcludes(mapped, g, S)
    BY <1>2, <1>10
  <2> HIDE DEF g
  <2> QED BY <2>1, ExcludedAgain
<1>12. LeftAsTold(SettledAsTold(WithStatus(mapped, DOMAIN mapped, "eligible"), s),
                  ExclusionEntries(core, i, k)) = core[i].gated[k]
  BY <1>8, <1>9, <1>11
<1> QED BY <1>12 DEF core, mapped, s

\* Gating only takes mechanisms away: what it leaves with no gap had none before.
LEMMA NoGapBefore ==
    ASSUME NEW S, NEW o \in Options(S), NEW g, OnlyExcludes(o, g, S),
           CapabilityStatus(g) # "deferred_to_organizational_layer", Gap(g) = None
    PROVE  ResolutionGap(o) = NoGap
<1> DEFINE of(x, T) == {x[c].coverage_weight : c \in T} \cup {0}
<1>1. /\ DOMAIN g = S /\ DOMAIN o = S
      /\ \A c \in S : /\ g[c].status = o[c].status /\ g[c].mapping_type = o[c].mapping_type
                      /\ g[c].coverage_weight = o[c].coverage_weight
                      /\ o[c].coverage_weight \in 0..Full
  <2>1. DOMAIN g = S /\ DOMAIN o = S
    BY DEF OnlyExcludes
  <2>2. ASSUME NEW c \in S
        PROVE  /\ g[c].status = o[c].status /\ g[c].mapping_type = o[c].mapping_type
               /\ g[c].coverage_weight = o[c].coverage_weight
               /\ o[c].coverage_weight \in 0..Full
    <3>1. o[c] \in CandidateOption
      BY DEF Options
    <3>2. g[c] = [o[c] EXCEPT !.excluded = g[c].excluded]
      BY DEF OnlyExcludes
    <3> QED BY <3>1, <3>2 DEF CandidateOption
  <2> QED BY <2>1, <2>2
<1>2. Available(g) \subseteq Effective(o) /\ Effective(o) \subseteq S
  BY <1>1 DEF Available, Effective
<1>3. Full \in Nat
  BY FullAssumption
<1>4. DOMAIN g # {} /\ Available(g) # {}
  <2>1. Retained(g) \subseteq Available(g)
    BY DEF Retained
  <2>2. CapabilityStatus(g) = "compensatory_required" \/ Retained(g) # {}
    BY DEF CapabilityStatus
  <2>4. DOMAIN g # {}
    BY DEF Gap, None
  <2>5. Available(g) # {}
    BY <2>1, <2>2, <2>4 DEF Gap, None
  <2> QED BY <2>4, <2>5
<1>5. (\E c \in Available(g) : g[c].mapping_type = "total") /\ ~(Coverage(g) < Full)
  BY <1>4 DEF Gap, None
<1>6. EffectiveOf(o, {"total"}) # {}
  BY <1>1, <1>2, <1>5 DEF EffectiveOf
<1>7. of(g, Available(g)) \subseteq of(o, Effective(o)) /\ of(o, Effective(o)) \subseteq 0..Full
  BY <1>1, <1>2, <1>3
<1>8. Coverage(g) = Max(of(g, Available(g))) /\ EffectiveCoverage(o) = Max(of(o, Effective(o)))
  BY DEF Coverage, EffectiveCoverage
<1>9. 0 \in of(g, Available(g)) /\ 0 \in of(o, Effective(o))
  OBVIOUS
<1> HIDE DEF of
<1>10. /\ Coverage(g) \in of(g, Available(g)) /\ EffectiveCoverage(o) \in of(o, Effective(o))
       /\ \A y \in of(o, Effective(o)) : EffectiveCoverage(o) >= y
  BY <1>3, <1>7, <1>8, <1>9, GreatestOne
<1>11. ~(EffectiveCoverage(o) < Full)
  BY <1>3, <1>5, <1>7, <1>10
<1>12. Effective(o) # {} /\ DOMAIN o # {}
  BY <1>1, <1>2, <1>4
<1> QED BY <1>6, <1>11, <1>12 DEF ResolutionGap

\* The last gap a trail declares of a capability is the one that stands.
LEMMA GapsAreTold ==
    ASSUME NEW core, NEW i, NEW k, NEW S, NEW o \in Options(S), NEW g, OnlyExcludes(o, g, S),
           o = core[i].resolved[k], g = core[i].gated[k],
           CapabilityStatus(g) # "deferred_to_organizational_layer"
    PROVE  LET gaps == GapEntries(i, k, ResolutionGap(o)) \o GapEntries(i, k, RedeclaredGap(core, i, k))
           IN  IF Gap(g) = None THEN gaps = << >>
               ELSE Last(gaps).payload.kind = Gap(g) /\ Last(gaps).payload.coverage = Coverage(g)
<1> DEFINE first == ResolutionGap(o)
           again == RedeclaredGap(core, i, k)
           stands == GatingGap(g)
           gaps == GapEntries(i, k, first) \o GapEntries(i, k, again)
<1>1. again = IF stands = first THEN NoGap ELSE stands
  BY DEF RedeclaredGap
<1>2. Gap(g) = None => first = NoGap /\ stands = NoGap
  BY NoGapBefore DEF GatingGap
<1>3. Gap(g) # None => stands # NoGap /\ stands.kind = Gap(g) /\ stands.coverage = Coverage(g)
  BY DEF GatingGap, DeclaredGap, NoGap
<1>4. \A gap : /\ gap = NoGap => GapEntries(i, k, gap) = << >>
               /\ gap # NoGap => GapEntries(i, k, gap) = <<Recorded("GAP_DECLARED", i, k, gap)>>
  BY DEF GapEntries
<1>5. \A gap : Recorded("GAP_DECLARED", i, k, gap).payload = gap
  BY DEF Recorded
<1> HIDE DEF first, again, stands
<1>6. Gap(g) = None => gaps = << >>
  <2> SUFFICES ASSUME Gap(g) = None PROVE gaps = << >>
    OBVIOUS
  <2>1. GapEntries(i, k, first) = << >> /\ GapEntries(i, k, again) = << >>
    BY <1>1, <1>2, <1>4
  <2> QED BY <2>1
<1>7. Gap(g) # None =>
         Last(gaps).payload.kind = Gap(g) /\ Last(gaps).payload.coverage = Coverage(g)
  <2> SUFFICES ASSUME Gap(g) # None PROVE Last(gaps).payload = stands
    BY <1>3
  <2> DEFINE e == Recorded("GAP_DECLARED", i, k, stands)
  <2>1. e.payload = stands
    BY <1>5
  <2>2. GapEntries(i, k, stands) = <<e>>
    BY <1>3, <1>4
  <2> HIDE DEF e
  <2>3. Listed(<<e>>) /\ Len(<<e>>) = 1 /\ <<e>>[1] = e
    BY ListedParts
  <2>4. CASE stands = first
    <3>1. GapEntries(i, k, first) = <<e>> /\ GapEntries(i, k, again) = << >>
      BY <1>1, <1>4, <2>2, <2>4
    <3>2. gaps = <<e>>
      BY <2>3, <3>1, NothingAdded
    <3> HIDE DEF gaps
    <3> QED BY <2>1, <2>3, <3>2 DEF Last
  <2>5. CASE stands # first
    <3> DEFINE s == GapEntries(i, k, first)
    <3>1. Listed(s)
      <4>1. s = << >> \/ \E x : s = <<x>>
        BY <1>4
      <4> HIDE DEF s
      <4> QED BY <4>1, ListedParts
    <3>2. gaps = s \o <<e>>
      BY <1>1, <2>2, <2>5
    <3> HIDE DEF s, gaps
    <3>3. Len(s \o <<e>>) = Len(s) + 1 /\ (s \o <<e>>)[Len(s) + 1] = <<e>>[1]
      <4>1. \A j \in 1..Len(<<e>>) : (s \o <<e>>)[Len(s) + j] = <<e>>[j]
        BY <2>3, <3>1, ListedParts
      <4>2. Len(s \o <<e>>) = Len(s) + Len(<<e>>)
        BY <2>3, <3>1, ListedParts
      <4> QED BY <2>3, <4>1, <4>2
    <3> QED BY <2>1, <2>3, <3>2, <3>3 DEF Last
  <2> QED BY <2>4, <2>5
<1> QED BY <1>6, <1>7 DEF first, again

(***************************************************************************)
(* What the ledger holds                                                   *)
(***************************************************************************)
\* Once a core is recorded, and until the retrieval is, all the ledger holds of the
\* request is the trail of that core.
CoreRecorded ==
    \A r \in Request : stage[r] = "recorded" =>
        \A n \in DOMAIN ledger : ledger[n].by = r => ledger[n].entries = CoreTrail(run[r])

\* What a step of r leaves of the others.
Aside(r) ==
    /\ \A q \in Request : q # r => stage'[q] = stage[q] /\ run'[q] = run[q]
    /\ \/ ledger' = ledger
       \/ \E entries : ledger' = Append(ledger, [by |-> r, entries |-> entries])

\* Only the record of a core makes a request recorded.
LEMMA OthersAreAside ==
    ASSUME DataInv, NEW r \in Request, Step(r)
    PROVE  Aside(r) /\ (RecordCore(r) \/ stage'[r] # "recorded")
<1>1. stage \in [Request -> Stage] /\ DOMAIN run = Request
  BY DEF DataInv, Shape
<1>2. ASSUME NEW to, stage' = [stage EXCEPT ![r] = to], to # "recorded",
             run' = run \/ \E x : run' = [run EXCEPT ![r] = x],
             ledger' = ledger \/ \E entries : ledger' = Append(ledger, [by |-> r, entries |-> entries])
      PROVE  Aside(r) /\ stage'[r] # "recorded"
  BY <1>1, <1>2 DEF Aside
<1>3. CASE RefuseScope(r) \/ RulesRefused(r) \/ AppendRefused(r) \/ EncoderBroken(r)
           \/ TagsGarbled(r) \/ RefuseEmptyDescription(r) \/ ParseFails(r) \/ RefuseDelta(r)
  <2>1. /\ \E to \in {"refused", "failed"} : stage' = [stage EXCEPT ![r] = to]
        /\ run' = run /\ ledger' = ledger
    BY <1>3 DEF RefuseScope, RulesRefused, AppendRefused, EncoderBroken, TagsGarbled,
                RefuseEmptyDescription, ParseFails, RefuseDelta, Unmoved, Move, dataVars, recordVars
  <2> QED BY <1>2, <2>1
<1>4. CASE VerifyFromCache(r) \/ AskTags(r) \/ Verify(r) \/ VerifyFails(r)
  <2>1. /\ \E to \in {"asking", "verifying", "failed", "explaining"} :
              stage' = [stage EXCEPT ![r] = to]
        /\ run' = run /\ ledger' = ledger
    BY <1>4 DEF VerifyFromCache, AskTags, Verify, VerifyFails, Move, dataVars, recordVars
  <2> QED BY <1>2, <2>1
<1>5. CASE ExplainWithoutModel(r)
  <2>1. stage[r] = "explaining" /\ stage' = stage /\ run' = run /\ ledger' = ledger
    BY <1>5 DEF ExplainWithoutModel, recordVars
  <2> QED BY <2>1 DEF Aside
<1>6. CASE AgentAnswers(r) \/ AgentFails(r) \/ AnswerParse(r) \/ AnswerDelta(r) \/ Retrieve(r)
  <2>1. /\ \E to \in {"explaining", "answered", "widened"} : stage' = [stage EXCEPT ![r] = to]
        /\ run' = run /\ ledger' = ledger
    BY <1>6 DEF AgentAnswers, AgentFails, AnswerParse, AnswerDelta, Retrieve, Move, recordVars
  <2> QED BY <1>2, <2>1
<1>7. CASE SkipRetrieval(r) \/ IndexUnavailable(r) \/ AnswerCandidates(r)
  <2>1. \E from, report : Respond(r, from, report)
    BY <1>7 DEF SkipRetrieval, IndexUnavailable, AnswerCandidates
  <2>2. /\ \E to \in {"answered", "failed"} : stage' = [stage EXCEPT ![r] = to]
        /\ run' = run /\ ledger' = ledger
    BY <2>1 DEF Respond, Move, recordVars
  <2> QED BY <1>2, <2>2
<1>8. CASE ComputeCore(r)
  <2>1. /\ stage' = [stage EXCEPT ![r] = "computed"]
        /\ run' = [run EXCEPT ![r] = Core(asks[r])] /\ ledger' = ledger
    BY <1>8 DEF ComputeCore, Move, recordVars
  <2> QED BY <1>2, <2>1
<1>9. CASE RecordRetrieval(r)
  <2>1. /\ stage' = [stage EXCEPT ![r] = "explaining"] /\ run' = run
        /\ \E entries : ledger' = Append(ledger, [by |-> r, entries |-> entries])
    BY <1>9 DEF RecordRetrieval, Move
  <2> QED BY <1>2, <2>1
<1>10. CASE RecordCore(r)
  <2>1. /\ stage' = [stage EXCEPT ![r] = "recorded"] /\ run' = run
        /\ ledger' = Append(ledger, [by |-> r, entries |-> CoreTrail(run[r])])
    BY <1>10 DEF RecordCore, Move, dataVars
  <2> QED BY <1>1, <1>10, <2>1 DEF Aside
<1> QED
  BY <1>3, <1>4, <1>5, <1>6, <1>7, <1>8, <1>9, <1>10 DEF Step

\* Whose batches there are none of, and the other way round.
LEMMA NoBatches ==
    ASSUME DataInv, NEW r
    PROVE  Batches(r) = 0 <=> \A n \in DOMAIN ledger : ledger[n].by # r
<1> DEFINE own == {n \in DOMAIN ledger : ledger[n].by = r}
<1>1. PICK S : ledger \in Seq(S)
  BY DEF DataInv, Shape
<1>2. Len(ledger) \in Nat /\ DOMAIN ledger = 1..Len(ledger)
  BY <1>1, LenProperties
<1>3. IsFiniteSet(own)
  <2>1. IsFiniteSet(1..Len(ledger)) /\ own \subseteq 1..Len(ledger)
    BY <1>2, FS_Interval
  <2> HIDE DEF own
  <2> QED BY <2>1, FS_Subset
<1>4. Cardinality(own) = 0 <=> own = {}
  <2> HIDE DEF own
  <2> QED BY <1>3, FS_EmptySet
<1> QED BY <1>4 DEF Batches

\* So it stays true through the steps of a request.
LEMMA CoreRecordedStep ==
    ASSUME DataInv, CoreRecorded, NEW r \in Request, Step(r)
    PROVE  CoreRecorded'
<1>1. Aside(r) /\ (RecordCore(r) \/ stage'[r] # "recorded")
  BY OthersAreAside
<1>2. PICK S : ledger \in Seq(S)
  BY DEF DataInv, Shape
<1>3. \A n \in DOMAIN ledger' :
         \/ n \in DOMAIN ledger /\ ledger'[n] = ledger[n]
         \/ n \notin DOMAIN ledger /\ n = Len(ledger) + 1 /\ ledger'[n].by = r
  <2>1. CASE ledger' = ledger
    BY <2>1
  <2>2. CASE \E entries : ledger' = Append(ledger, [by |-> r, entries |-> entries])
    <3>1. PICK entries : ledger' = Append(ledger, [by |-> r, entries |-> entries])
      BY <2>2
    <3> DEFINE b == [by |-> r, entries |-> entries]
               T == S \cup {b}
    <3>2. ledger \in Seq(T) /\ b \in T /\ b.by = r
      <4>1. ledger \in Seq(T)
        <5>1. Len(ledger) \in Nat /\ ledger \in [1..Len(ledger) -> S]
          BY <1>2, LenProperties
        <5>2. ledger \in [1..Len(ledger) -> T]
          BY <5>1
        <5> HIDE DEF T
        <5> QED BY <5>1, <5>2, SeqDef
      <4> QED BY <4>1
    <3>3. ledger' = Append(ledger, b)
      BY <3>1
    <3> HIDE DEF b, T
    <3> QED BY <3>2, <3>3, AppendProperties, LenProperties
  <2> QED BY <1>1, <2>1, <2>2 DEF Aside
<1>4. ASSUME NEW q \in Request, stage'[q] = "recorded", NEW n \in DOMAIN ledger', ledger'[n].by = q
      PROVE  ledger'[n].entries = CoreTrail(run'[q])
  <2>1. CASE q # r
    <3>1. stage[q] = "recorded" /\ run'[q] = run[q]
      BY <1>1, <1>4, <2>1 DEF Aside
    <3>2. n \in DOMAIN ledger /\ ledger'[n] = ledger[n]
      BY <1>3, <1>4, <2>1
    <3> QED BY <1>4, <3>1, <3>2 DEF CoreRecorded
  <2>2. CASE q = r
    <3>1. /\ stage[r] = "computed" /\ run' = run
          /\ ledger' = Append(ledger, [by |-> r, entries |-> CoreTrail(run[r])])
      BY <1>1, <1>4, <2>2 DEF RecordCore, Move, dataVars
    <3>2. Batches(r) = 0
      BY <3>1 DEF DataInv, RequestInv, RecordedOf, AskedOf, Computed
    <3>3. n = Len(ledger) + 1
      BY <1>3, <1>4, <2>2, <3>2, NoBatches
    <3>4. ledger'[n] = [by |-> r, entries |-> CoreTrail(run[r])]
      <4> DEFINE b == [by |-> r, entries |-> CoreTrail(run[r])]
                 T == S \cup {b}
      <4>1. ledger \in Seq(T) /\ b \in T
        <5>1. Len(ledger) \in Nat /\ ledger \in [1..Len(ledger) -> S]
          BY <1>2, LenProperties
        <5>2. ledger \in [1..Len(ledger) -> T]
          BY <5>1
        <5>3. b \in T
          OBVIOUS
        <5> HIDE DEF T, b
        <5> QED BY <5>1, <5>2, <5>3, SeqDef
      <4>2. ledger' = Append(ledger, b)
        BY <3>1
      <4> HIDE DEF b, T
      <4>3. ledger'[n] = b
        BY <3>3, <4>1, <4>2, AppendProperties, LenProperties
      <4> QED BY <4>3 DEF b
    <3> QED BY <2>2, <3>1, <3>4
  <2> QED BY <2>1, <2>2
<1> QED BY <1>4 DEF CoreRecorded

\* And through what happens around them.
LEMMA CoreRecordedEnvironment ==
    ASSUME DataInv, CoreRecorded, PullWeights \/ WarmUp \/ Restart \/ Rest \/ UNCHANGED vars
    PROVE  CoreRecorded'
<1>1. /\ run' = run /\ ledger' = ledger
      /\ \A r \in Request : stage'[r] = stage[r] \/ stage'[r] = "lost"
  BY DEF PullWeights, WarmUp, Restart, Rest, vars, requestVars, dataVars, recordVars
<1> QED BY <1>1 DEF CoreRecorded

\* Nothing is recorded yet.
LEMMA RecordedInitially ==
    ASSUME Init
    PROVE  CoreRecorded
BY DEF Init, CoreRecorded

\* Any step.
LEMMA RecordedStep ==
    ASSUME DataInv, CoreRecorded, [Next]_vars
    PROVE  CoreRecorded'
BY CoreRecordedStep, CoreRecordedEnvironment DEF Next

\* The last batch of a recorded request is the trail of its core.
LEMMA LastOfItsOwn ==
    ASSUME DataInv, CoreRecorded, NEW r \in Request, stage[r] = "recorded"
    PROVE  Last(Only(ledger, {b \in ToSet(ledger) : b.by = r})).entries = CoreTrail(run[r])
<1> DEFINE X == {b \in ToSet(ledger) : b.by = r}
           own == Only(ledger, X)
<1>1. PICK S : ledger \in Seq(S)
  BY DEF DataInv, Shape
<1>2. Listed(ledger)
  BY <1>1, ListedIs
<1>3. \E n \in DOMAIN ledger : ledger[n].by = r
  <2>1. Batches(r) = 1
    BY DEF DataInv, RequestInv, RecordedOf, AskedOf, Computed
  <2> QED BY <2>1, NoBatches
<1>4. X # {} /\ X \subseteq ToSet(ledger)
  BY <1>3 DEF ToSet
<1>5. \A b \in X : b.entries = CoreTrail(run[r])
  BY DEF CoreRecorded, ToSet
<1> HIDE DEF X
<1>6. Listed(own) /\ ToSet(own) = X
  <2>1. Listed(Only(ledger, X)) /\ ToSet(Only(ledger, X)) = ToSet(ledger) \cap X
    BY <1>2, OnlyBy
  <2>2. ToSet(ledger) \cap X = X
    BY <1>4
  <2> QED BY <2>1, <2>2
<1> HIDE DEF own
<1>7. Len(own) \in Nat /\ DOMAIN own = 1..Len(own)
  BY <1>6, ListedIs
<1>8. Len(own) # 0
  <2> SUFFICES ASSUME Len(own) = 0 PROVE FALSE
    OBVIOUS
  <2>1. DOMAIN own = {}
    BY <1>7
  <2> QED BY <1>4, <1>6, <2>1 DEF ToSet
<1>9. Last(own) \in X
  BY <1>6, <1>7, <1>8 DEF Last, ToSet
<1> QED BY <1>5, <1>9 DEF own, X

\* What the two invariants say of the ledger.
LEMMA LedgerInTheState ==
    ASSUME DataInv, CoreRecorded
    PROVE  LedgerRetellsTheRun
<1> SUFFICES ASSUME NEW r \in Request, NEW i \in DOMAIN run[r], stage[r] = "recorded",
                    NEW k \in Capability
             PROVE  LET trail == Last(Only(ledger, {b \in ToSet(ledger) : b.by = r})).entries
                        told(events) == Told(trail, i, k, events)
                        mapped == told({"CAPABILITY_MAPPED"})[1].payload
                        settled == SettledAsTold(WithStatus(mapped, DOMAIN mapped, "eligible"),
                                       told({"CONFLICT_RESOLVED", "CONFLICT_ESCALATED"}))
                        left == LeftAsTold(settled, told({"MECHANISM_EXCLUDED"}))
                        gaps == told({"GAP_DECLARED"})
                    IN  /\ left = run[r][i].gated[k]
                        /\ CapabilityStatus(left) # "deferred_to_organizational_layer" =>
                              IF Gap(left) = None THEN gaps = << >>
                              ELSE Last(gaps).payload.kind = Gap(left)
                                   /\ Last(gaps).payload.coverage = Coverage(left)
  BY DEF LedgerRetellsTheRun
<1> DEFINE ask == asks[r]
           core == Core(ask)
           trail == Last(Only(ledger, {b \in ToSet(ledger) : b.by = r})).entries
           resolved == core[i].resolved[k]
           gated == core[i].gated[k]
           S == DOMAIN resolved
           told(events) == Told(trail, i, k, events)
           mapped == told({"CAPABILITY_MAPPED"})[1].payload
           settled == SettledAsTold(WithStatus(mapped, DOMAIN mapped, "eligible"),
                          told({"CONFLICT_RESOLVED", "CONFLICT_ESCALATED"}))
           left == LeftAsTold(settled, told({"MECHANISM_EXCLUDED"}))
           gaps == told({"GAP_DECLARED"})
<1>1. ask \in AskedCandidates /\ run[r] = core
  BY DEF DataInv, RequestInv, AskedOf, RunOf, Computed, Is, Asked, AskedDelta, AskedParse
<1>2. trail = CoreTrail(core)
  BY <1>1, LastOfItsOwn
<1> HIDE DEF trail, ask
<1>3. Tellable(core) /\ i \in DOMAIN core /\ i \in 1..Len(core)
  BY <1>1, CoreIsTellable
<1> HIDE DEF core
<1>4. /\ told({"CAPABILITY_MAPPED"}) = OfMapping(core, i, k)
      /\ told({"CONFLICT_RESOLVED", "CONFLICT_ESCALATED"}) = OfConflicts(core, i, k)
      /\ told({"MECHANISM_EXCLUDED"}) = ExclusionEntries(core, i, k)
      /\ gaps = GapEntries(i, k, ResolutionGap(resolved))
                    \o GapEntries(i, k, RedeclaredGap(core, i, k))
  BY <1>2, <1>3, ToldIs
<1>5. mapped = resolved
  <2> HIDE DEF told
  <2>1. mapped = OfMapping(core, i, k)[1].payload
    BY <1>4
  <2> QED BY <2>1 DEF OfMapping, Recorded
<1>6. left = gated
  <2>1. LeftAsTold(SettledAsTold(WithStatus(resolved, DOMAIN resolved, "eligible"),
                                 OfConflicts(core, i, k)), ExclusionEntries(core, i, k)) = gated
    BY <1>1, <1>3, OptionsAreTold DEF core
  <2> HIDE DEF told, mapped, resolved, gated
  <2> QED BY <1>4, <1>5, <2>1 DEF resolved
<1>7. resolved \in Options(S) /\ OnlyExcludes(resolved, gated, S)
  BY <1>1, <1>3, GatedOnlyExcludes DEF core
<1> HIDE DEF told, gaps, left, mapped, settled
<1>8. CapabilityStatus(gated) # "deferred_to_organizational_layer" =>
         IF Gap(gated) = None THEN gaps = << >>
         ELSE Last(gaps).payload.kind = Gap(gated) /\ Last(gaps).payload.coverage = Coverage(gated)
  <2> DEFINE o == resolved
             g == gated
             T == S
  <2> SUFFICES ASSUME CapabilityStatus(g) # "deferred_to_organizational_layer"
               PROVE  IF Gap(g) = None THEN gaps = << >>
                      ELSE Last(gaps).payload.kind = Gap(g) /\ Last(gaps).payload.coverage = Coverage(g)
    OBVIOUS
  <2>1. o \in Options(T) /\ OnlyExcludes(o, g, T)
        /\ o = core[i].resolved[k] /\ g = core[i].gated[k]
    BY <1>7
  <2>2. gaps = GapEntries(i, k, ResolutionGap(o)) \o GapEntries(i, k, RedeclaredGap(core, i, k))
    BY <1>4
  <2> HIDE DEF o, g, T
  <2> QED BY <2>1, <2>2, GapsAreTold
<1>9. /\ left = run[r][i].gated[k]
      /\ CapabilityStatus(left) # "deferred_to_organizational_layer" =>
            IF Gap(left) = None THEN gaps = << >>
            ELSE Last(gaps).payload.kind = Gap(left) /\ Last(gaps).payload.coverage = Coverage(left)
  <2> HIDE DEF gated
  <2> QED BY <1>1, <1>6, <1>8 DEF gated
<1> QED BY <1>9 DEF told, gaps, left, mapped, settled, trail

\* The ledger alone tells the run: read back, the entries of a recorded request give
\* every mechanism where the core left it and the gap that stands (audit/trail.py).
THEOREM LedgerTellsTheRun == Spec => []LedgerRetellsTheRun
<1>1. Init => DataInv /\ CoreRecorded
  BY DataInitially, RecordedInitially
<1>2. DataInv /\ CoreRecorded /\ [Next]_vars => DataInv' /\ CoreRecorded'
  BY DataStep, RecordedStep
<1>3. DataInv /\ CoreRecorded => LedgerRetellsTheRun
  BY LedgerInTheState
<1> QED BY <1>1, <1>2, <1>3, PTL DEF Spec
=============================================================================
