--------------------------- MODULE ClientSession ----------------------------
(***************************************************************************)
(* The client's side of a composition (CompositionProvider.tsx, session.ts *)
(* and the stages that call them): a draft of the asset, the options the   *)
(* engine calculated for it, the operator's decisions about them and the   *)
(* signature, with an answer to every request that may come late, be lost, *)
(* or find that the page has moved on.                                     *)
(*                                                                         *)
(* What the operator did is kept in a store that outlives the page; what   *)
(* the engine answered is kept by a provider, of which there is a new one  *)
(* after every reload and every composition that is begun anew.  The server*)
(* appears as what it answers; CompositionFlow is about its inside.        *)
(***************************************************************************)
EXTENDS Naturals, Sequences, FiniteSets

CONSTANTS Key,          \* the id of a zone and a capability of it: keyOf
          Row,          \* a zone in the list of zones and a capability of it
          Control,
          Draft,        \* the states of the asset's draft
          NoDraft,
          Complete,     \* the drafts with no field missing, so with a profile
          Id,           \* Id[d]: the identifier of that profile
          Engine,       \* Engine[d]: what the engine makes of that profile
          MaxRuns,      \* bound: candidates requests that are answered
          MaxProviders, \* bound: reloads and new compositions
          MaxChanges,   \* bound: how often the draft is replaced or edited
          MaxSignatures \* bound: how often the operator signs

\* What the client reads off the candidates of a profile, capability by
\* capability of zone by zone.  Two zones may have one id, and their rows one key.
Candidates == [rows : SUBSET Row,
               key : [Row -> Key],
               options : [Row -> SUBSET Control],
               outstanding : SUBSET Row,            \* CapabilityPriority.outstanding
               contested : [Row -> SUBSET Control], \* ZoneCandidates.open_decisions
               compensatory : [Row -> SUBSET Control]]

ASSUME DraftAssumption == Complete \subseteq Draft /\ NoDraft \notin Draft
ASSUME EngineAssumption ==
    /\ Engine \in [Complete -> Candidates]
    /\ \A d \in Complete : Engine[d].outstanding \subseteq Engine[d].rows
ASSUME BoundAssumption == MaxRuns \in Nat /\ MaxProviders \in Nat \ {0}
                          /\ MaxChanges \in Nat /\ MaxSignatures \in Nat

VARIABLES
    \* session.ts
    draft, selections, reasons, gaps, signedBaselineId,
    \* CompositionProvider.tsx; candidates and baseline are numbers of runs
    working, candidates, baseline,
    provider,       \* which provider is mounted
    loaded,         \* the first provider since the page was loaded
    net,            \* requests on their way, and answers on theirs
    runs,           \* server: the profile of each run, and who asked for it
    baselines,      \* server: the baselines signed
    composition,    \* how many compositions were begun (history)
    writers,        \* the compositions that wrote what the store holds (history)
    discarded,      \* those left with a request unanswered (history)
    unanswered,     \* those whose signature got no answer (history)
    changes, signatures

store == <<draft, selections, reasons, gaps, signedBaselineId>>
screen == <<working, candidates, baseline>>
mounted == <<provider, loaded>>
server == <<runs, baselines>>
bounds == <<changes, signatures>>
history == <<composition, writers, discarded, unanswered>>
vars == <<store, screen, mounted, net, server, history, bounds>>

None == 0
signed == baseline # None

-----------------------------------------------------------------------------
(***************************************************************************)
(* What the client works out on the candidates it shows.                   *)
(***************************************************************************)
Shown == Engine[runs[candidates].profile]
Decided(k) == selections[k] # {} \/ k \in gaps
Picked(row) == selections[Shown.key[row]]

\* Faulty variant: a decision counts without its reason.
BlockersUnreasoned ==
    {row \in Shown.rows :
        \/ row \in Shown.outstanding /\ ~Decided(Shown.key[row])
        \/ Shown.contested[row] # {} /\ Shown.contested[row] \cap Picked(row) = {}}

\* progress.blockers: no signature while there is any.
Blockers ==
    {row \in Shown.rows :
        \/ row \in Shown.outstanding /\ ~Decided(Shown.key[row])
        \/ Decided(Shown.key[row]) /\ Shown.key[row] \notin reasons
        \/ Shown.contested[row] # {} /\ Shown.contested[row] \cap Picked(row) = {}}

\* A decision and the row it was put down for; to accept a gap names no control.
Choice == [row : Row, key : Key, control : Control \cup {None},
           kind : {"option_selected", "compensatory_declared", "option_rejected", "gap_accepted"}]

\* choices: what a signature sends of the decisions that have a reason.
Choices ==
    LET sent == {row \in Shown.rows : Shown.key[row] \in reasons}
        choice(row, kind, c) == [row |-> row, key |-> Shown.key[row], control |-> c, kind |-> kind]
        adoption(row, c) ==
            IF c \in Shown.compensatory[row] THEN "compensatory_declared" ELSE "option_selected"
        picked == {p \in sent \X Control : p[2] \in Picked(p[1])}
        overruled == {p \in sent \X Control : /\ p[2] \in Shown.contested[p[1]] \ Picked(p[1])
                                              /\ Shown.contested[p[1]] \cap Picked(p[1]) # {}}
    IN  {choice(p[1], adoption(p[1], p[2]), p[2]) : p \in picked}
        \cup {choice(p[1], "option_rejected", p[2]) : p \in overruled}
        \cup {choice(row, "gap_accepted", None) : row \in {row \in sent : Shown.key[row] \in gaps}}

(***************************************************************************)
(* What the server makes of a signature (baseline/service.py).             *)
(***************************************************************************)
Controls(choices, kinds) == {c.control : c \in {c \in choices : c.kind \in kinds}}

\* The same decision twice over.
Repeated(choices) ==
    \E c, d \in choices :
        /\ c # d
        /\ c.key = d.key /\ c.kind = d.kind /\ c.control = d.control

Coherent(choices) ==
    \A k \in Key :
        LET group == {c \in choices : c.key = k}
        IN  /\ Controls(group, {"option_selected"}) \cap Controls(group, {"option_rejected"}) = {}
            /\ Controls(group, {"gap_accepted"}) # {} =>
                   Controls(group, {"option_selected", "compensatory_declared"}) = {}

MandatesClosed(d, choices) ==
    \A row \in Engine[d].outstanding :
        \E c \in choices : c.key = Engine[d].key[row] /\ c.kind # "option_rejected"

AlreadySigned(run) == \E b \in baselines : b.run = run

Admitted(r) ==
    /\ Id[runs[r.run].profile] = Id[r.profile]
    /\ ~AlreadySigned(r.run)
    /\ r.choices # {}
    /\ \A c \in r.choices : \E row \in Engine[r.profile].rows : Engine[r.profile].key[row] = c.key
    /\ ~Repeated(r.choices)
    /\ Coherent(r.choices)
    /\ MandatesClosed(r.profile, r.choices)

-----------------------------------------------------------------------------
(***************************************************************************)
(* Requests.  A request is answered to the provider that made it; provider *)
(* None stands for one that no longer listens.  Only a signature outlives  *)
(* its listener: what the server makes of the other requests shows in      *)
(* their answers alone.                                                    *)
(***************************************************************************)
Request == [kind : {"parse", "candidates", "sign"},
            provider : 0..MaxProviders, composition : Nat,
            profile : Draft \cup {NoDraft}, run : 0..MaxRuns, choices : SUBSET Choice,
            reply : {"none", "ok", "refused"}]

Send(kind, profile, run, choices) ==
    net' = net \cup {[kind |-> kind, provider |-> provider, composition |-> composition,
                      profile |-> profile, run |-> run, choices |-> choices, reply |-> "none"]}

Waiting == {r \in net : r.provider >= loaded}

Unheard(requests) ==
    {[r EXCEPT !.provider = None] : r \in {r \in requests : r.kind = "sign" /\ r.reply = "none"}}

\* The operator clicks; nothing happens while the code does not let it.
RunParse ==
    /\ ~signed /\ "parsing" \notin working
    /\ changes < MaxChanges
    /\ changes' = changes + 1 /\ UNCHANGED signatures
    /\ working' = working \cup {"parsing"}
    /\ Send("parse", NoDraft, None, {})
    /\ UNCHANGED <<store, candidates, baseline, mounted, server, history>>

\* A draft by hand begins empty.
StartManualDraft ==
    /\ ~signed /\ "parsing" \notin working
    /\ changes < MaxChanges
    /\ changes' = changes + 1 /\ UNCHANGED signatures
    /\ draft' \in Draft \ Complete
    /\ candidates' = None
    /\ writers' = writers \cup {composition}
    /\ UNCHANGED <<selections, reasons, gaps, signedBaselineId, working, baseline, mounted, net,
                   server, composition, discarded, unanswered>>

\* The options calculated for the draft stay on the screen.
Correct ==
    /\ ~signed /\ draft # NoDraft
    /\ changes < MaxChanges
    /\ changes' = changes + 1 /\ UNCHANGED signatures
    /\ draft' \in Draft \ {draft}
    /\ writers' = writers \cup {composition}
    /\ UNCHANGED <<selections, reasons, gaps, signedBaselineId, screen, mounted, net, server,
                   composition, discarded, unanswered>>

\* One engine run at a time: `running` of the provider.  Asking why a candidate
\* is there runs the engine again and replaces what it answered.
RunCandidates ==
    /\ "loading" \notin working
    /\ draft \in Complete
    /\ working' = working \cup {"loading"}
    /\ Send("candidates", draft, None, {})
    /\ UNCHANGED <<store, candidates, baseline, mounted, server, history, bounds>>

\* Stage 2 is there for a complete draft and the options calculated for one.
Choosing == ~signed /\ draft \in Complete /\ candidates # None

\* Faulty variant: a gap that was accepted stays accepted.
ToggleSelectionOnly(row, c) ==
    LET k == Shown.key[row]
    IN  /\ Choosing /\ row \in Shown.rows /\ c \in Shown.options[row]
        /\ selections' = [selections EXCEPT ![k] = IF c \in @ THEN @ \ {c} ELSE @ \cup {c}]
        /\ UNCHANGED <<draft, reasons, gaps, signedBaselineId, screen, mounted, net, server, history,
                       bounds>>

ToggleSelection(row, c) ==
    LET k == Shown.key[row]
    IN  /\ Choosing /\ row \in Shown.rows /\ c \in Shown.options[row]
        /\ selections' = [selections EXCEPT ![k] = IF c \in @ THEN @ \ {c} ELSE @ \cup {c}]
        /\ gaps' = gaps \ {k}
        /\ UNCHANGED <<draft, reasons, signedBaselineId, screen, mounted, net, server, history, bounds>>

ToggleGap(row) ==
    LET k == Shown.key[row]
    IN  /\ Choosing /\ row \in Shown.rows
        /\ \/ /\ k \in gaps
              /\ gaps' = gaps \ {k}
              /\ UNCHANGED selections
           \/ /\ k \notin gaps
              /\ gaps' = gaps \cup {k}
              /\ selections' = [selections EXCEPT ![k] = {}]
        /\ UNCHANGED <<draft, reasons, signedBaselineId, screen, mounted, net, server, history, bounds>>

\* Only whether there is a reason matters.
SetReason(row) ==
    LET k == Shown.key[row]
    IN  /\ Choosing /\ row \in Shown.rows
        /\ reasons' \in {reasons \ {k}, reasons \cup {k}} \ {reasons}
        /\ UNCHANGED <<draft, selections, gaps, signedBaselineId, screen, mounted, net, server, history,
                       bounds>>

\* The run is that of the options, the profile that of the draft.
Sign ==
    /\ Choosing /\ "signing" \notin working
    /\ Blockers = {}
    /\ signatures < MaxSignatures
    /\ signatures' = signatures + 1 /\ UNCHANGED changes
    /\ working' = working \cup {"signing"}
    /\ Send("sign", draft, candidates, Choices)
    /\ UNCHANGED <<store, candidates, baseline, mounted, server, history>>

(***************************************************************************)
(* The server's part of a signature.                                       *)
(***************************************************************************)
Replied(r, reply) ==
    net' = IF r.provider = None THEN net \ {r} ELSE (net \ {r}) \cup {[r EXCEPT !.reply = reply]}

Handle(r) ==
    /\ r.kind = "sign" /\ r.reply = "none"
    /\ \/ /\ Admitted(r)
          /\ baselines' = baselines \cup {[run |-> r.run, composition |-> r.composition]}
          /\ Replied(r, "ok")
       \/ /\ ~Admitted(r)
          /\ Replied(r, "refused")
          /\ UNCHANGED baselines
    /\ UNCHANGED <<store, screen, mounted, runs, history, bounds>>

(***************************************************************************)
(* Answers.  What follows an await runs to its end whatever has become of  *)
(* the provider, as long as its page is there: it sets the store, which is *)
(* everyone's, and a screen that is its own.                               *)
(***************************************************************************)
Flag == [parse |-> "parsing", candidates |-> "loading", sign |-> "signing"]

\* finally
Done(r) == working' = IF r.provider = provider THEN working \ {Flag[r.kind]} ELSE working

OnScreen(r, old, new) == IF r.provider = provider THEN new ELSE old

Parsed(r) ==
    /\ r.kind = "parse"
    /\ draft' \in Draft
    /\ candidates' = OnScreen(r, candidates, None)
    /\ writers' = writers \cup {r.composition}
    /\ UNCHANGED <<signedBaselineId, baseline, runs>>

\* The run an answer brings is recorded with it: one that no client hears of
\* takes no part.
Calculated(r) ==
    /\ r.kind = "candidates"
    /\ Len(runs) < MaxRuns
    /\ runs' = Append(runs, [profile |-> r.profile, composition |-> r.composition])
    /\ candidates' = OnScreen(r, candidates, Len(runs) + 1)
    /\ UNCHANGED <<draft, signedBaselineId, baseline, writers>>

\* Faulty variant: the signature is kept on the screen only.
SignedOnScreen(r) ==
    /\ r.kind = "sign" /\ r.reply = "ok"
    /\ baseline' = OnScreen(r, baseline, r.run)
    /\ UNCHANGED <<draft, candidates, signedBaselineId, writers, runs>>

Signed(r) ==
    /\ r.kind = "sign" /\ r.reply = "ok"
    /\ baseline' = OnScreen(r, baseline, r.run)
    /\ signedBaselineId' = r.run
    /\ writers' = writers \cup {r.composition}
    /\ UNCHANGED <<draft, candidates, runs>>

\* Any of them may be answered with an error.
Refused(r) ==
    /\ r.kind = "sign" => r.reply = "refused"
    /\ UNCHANGED <<draft, signedBaselineId, candidates, baseline, writers, runs>>

Answer(r) ==
    /\ r \in Waiting
    /\ Parsed(r) \/ Calculated(r) \/ Signed(r) \/ Refused(r)
    /\ Done(r)
    /\ net' = net \ {r}
    /\ UNCHANGED <<selections, reasons, gaps, mounted, baselines, composition, discarded,
                   unanswered, bounds>>

\* Faulty variant: the error is shown and the flag forgotten.
TimeOutStillWorking(r) ==
    /\ r \in Waiting /\ r.kind = "sign"
    /\ net' = (net \ {r}) \cup Unheard({r})
    /\ unanswered' = unanswered \cup {r.composition}
    /\ UNCHANGED <<store, screen, mounted, server, composition, writers, discarded, bounds>>

\* The client gives up, or the answer is lost: the server may have handled the
\* signature, or handle it yet.  For the other requests this is an error.
TimeOut(r) ==
    /\ r \in Waiting /\ r.kind = "sign"
    /\ Done(r)
    /\ net' = (net \ {r}) \cup Unheard({r})
    /\ unanswered' = unanswered \cup {r.composition}
    /\ UNCHANGED <<store, candidates, baseline, mounted, server, composition, writers, discarded,
                   bounds>>

-----------------------------------------------------------------------------
(***************************************************************************)
(* New providers.                                                          *)
(***************************************************************************)
Clear ==
    /\ draft' = NoDraft
    /\ selections' = [k \in Key |-> {}]
    /\ reasons' = {}
    /\ gaps' = {}
    /\ signedBaselineId' = None
    /\ writers' = {}
    /\ composition' = composition + 1

NewProvider ==
    /\ provider < MaxProviders
    /\ provider' = provider + 1
    /\ working' = {}
    /\ candidates' = None
    /\ baseline' = None

Abandoned(kinds) == {r.composition : r \in {r \in Waiting : r.kind \in kinds}}

\* Faulty variant: the store is cleared under the provider that is there.
ClearStore ==
    /\ provider < MaxProviders
    /\ Clear
    /\ discarded' = discarded \cup Abandoned({"parse", "sign"})
    /\ UNCHANGED <<screen, mounted, net, server, unanswered, bounds>>

\* A new composition: the provider is keyed by the generation.
Reset ==
    /\ NewProvider
    /\ Clear
    /\ discarded' = discarded \cup Abandoned({"parse", "sign"})
    /\ UNCHANGED <<loaded, net, server, unanswered, bounds>>

\* A composition that was signed is not resumed.
Reload ==
    /\ NewProvider
    /\ loaded' = provider + 1
    /\ \/ signedBaselineId # None /\ Clear
       \/ signedBaselineId = None /\ UNCHANGED <<store, writers, composition>>
    /\ net' = Unheard(net)
    /\ unanswered' = unanswered \cup Abandoned({"sign"})
    /\ UNCHANGED <<server, discarded, bounds>>

\* The page finds what an earlier visit left of a composition, if it left one.
Init ==
    /\ draft \in Draft \cup {NoDraft}
    /\ selections = [k \in Key |-> {}]
    /\ reasons = {} /\ gaps = {}
    /\ signedBaselineId = None
    /\ working = {} /\ candidates = None /\ baseline = None
    /\ provider = 1 /\ loaded = 1
    /\ net = {}
    /\ runs = <<>> /\ baselines = {}
    /\ composition = 1
    /\ writers = {} /\ discarded = {} /\ unanswered = {}
    /\ changes = 0 /\ signatures = 0

Operator ==
    \/ RunParse \/ StartManualDraft \/ Correct
    \/ RunCandidates
    \/ \E row \in Row : ToggleGap(row) \/ SetReason(row) \/ \E c \in Control : ToggleSelection(row, c)
    \/ Sign
    \/ Reset \/ Reload

Next == Operator \/ \E r \in net : Handle(r) \/ Answer(r) \/ TimeOut(r)

\* Every request has a time-out; nothing else has to happen.
Fairness == \A kind \in {"parse", "candidates", "sign"} :
                WF_vars(\E r \in net : r.kind = kind /\ (Answer(r) \/ TimeOut(r)))

Spec == Init /\ [][Next]_vars /\ Fairness

(***************************************************************************)
(* Properties                                                              *)
(***************************************************************************)
TypeOK ==
    /\ draft \in Draft \cup {NoDraft}
    /\ selections \in [Key -> SUBSET Control]
    /\ reasons \subseteq Key /\ gaps \subseteq Key
    /\ working \subseteq {"parsing", "loading", "signing"}
    /\ {candidates, baseline, signedBaselineId} \subseteq 0..Len(runs)
    /\ loaded \in 1..provider /\ provider \in 1..MaxProviders
    /\ net \subseteq Request
    /\ \A i \in 1..Len(runs) : runs[i].profile \in Complete
    /\ baselines \subseteq [run : 1..Len(runs), composition : 1..composition]

\* No signature the client sends holds decisions the server takes for opposite,
\* whatever draft, options and composition they were taken on.
SentIsCoherent == \A r \in net : r.kind = "sign" => Coherent(r.choices)

\* The operator was asked nothing: no mandate is outstanding, nothing contested.
NothingToDecide(d) ==
    /\ Engine[d].outstanding = {}
    /\ \A row \in Engine[d].rows : Engine[d].contested[row] = {}

RowsShareKey(d) ==
    \E row, twin \in Engine[d].rows : row # twin /\ Engine[d].key[row] = Engine[d].key[twin]

\* The server refuses what the client lets the operator sign for four reasons only:
\* the draft was changed after its options were calculated, the run is signed
\* already, no decision was asked for and none is sent, or two zones have one id and
\* a decision about them is sent twice.
RefusedOnlyForKnownReasons ==
    \A r \in net : r.kind = "sign" /\ ~Admitted(r) =>
        \/ runs[r.run].profile # r.profile
        \/ AlreadySigned(r.run)
        \/ r.choices = {} /\ NothingToDecide(r.profile)
        \/ Repeated(r.choices) /\ RowsShareKey(r.profile)

\* A composition becomes two baselines only if the answer to a signature over it
\* was lost: otherwise signing ends it, on the screen and after a reload.
SignedAgainOnlyIfUnanswered ==
    \A a, b \in baselines : a # b /\ a.composition = b.composition => a.composition \in unanswered

\* What is on the screen belongs to the composition at hand, and so does what is
\* in the store, unless the composition before it was left waiting for an answer.
NothingCrossesButLateAnswers ==
    /\ \A run \in {candidates, baseline} \ {None} : runs[run].composition = composition
    /\ writers \subseteq {composition} \cup discarded

\* Whatever the screen says it is working on comes to an end.
WorkingEnds ==
    \A flag \in {"parsing", "loading", "signing"} :
        flag \in working ~> flag \notin working
=============================================================================
