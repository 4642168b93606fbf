------------------------ MODULE ClientSession_proofs -------------------------
(***************************************************************************)
(* Proofs about ClientSession: what the client signs, and how often, for   *)
(* any drafts, capabilities, controls and answers, however late.           *)
(*                                                                         *)
(* The argument.  A request on its way knows the provider and the          *)
(* composition it was made in, and what it was checked on when it was made *)
(* (RequestInv); within a page the two change together, so a request of    *)
(* the provider that is mounted is one of the composition at hand.  A      *)
(* composition whose signatures are all answered has at most one under     *)
(* way, and a baseline only once that one is admitted (SignedOnce): the    *)
(* flag keeps the operator from a second one until the answer is in the    *)
(* store, from where a reload takes it.                                    *)
(***************************************************************************)
EXTENDS ClientSession, SequenceTheorems, TLAPS

-----------------------------------------------------------------------------
(***************************************************************************)
(* The invariant                                                           *)
(***************************************************************************)
Types ==
    /\ TypeOK
    /\ runs \in Seq([profile : Complete, composition : Nat])
    /\ Len(runs) <= MaxRuns
    /\ composition \in Nat \ {0}

\* A gap is accepted where nothing is selected.
GapsUnselected == \A k \in gaps : selections[k] = {}

\* What the server would check, on the profile the options were calculated for:
\* every choice is about one of its rows, and there is one if there is a need.
Acceptable(d, choices) ==
    /\ \A c \in choices : /\ c \in Choice /\ c.row \in Engine[d].rows
                          /\ c.key = Engine[d].key[c.row]
    /\ MandatesClosed(d, choices)
    /\ choices = {} => NothingToDecide(d)

\* A signature sent is what the client made of the run on its screen.
SignatureInv(r) ==
    /\ r.run \in 1..Len(runs)
    /\ r.profile \in Complete
    /\ runs[r.run].composition = r.composition
    /\ Coherent(r.choices)
    /\ runs[r.run].profile = r.profile => Acceptable(r.profile, r.choices)

\* A request is listened to by a provider of this page, whose composition is
\* its own, or it is a signature nobody listens to.
RequestInv(r) ==
    /\ r.composition \in 1..composition
    /\ r.kind = "sign" => SignatureInv(r)
    /\ r.kind = "candidates" => r.profile \in Complete
    /\ r.provider = None => r.kind = "sign" /\ r.composition \in unanswered
    /\ r.provider # None =>
          /\ r.provider \in loaded..provider
          /\ r.provider = provider <=> r.composition = composition
          /\ r.kind \in {"parse", "sign"} /\ r.composition # composition =>
                r.composition \in discarded

Pending(c) == {r \in net : r.kind = "sign" /\ r.composition = c}
SignedIn(c) == {b \in baselines : b.composition = c}

\* The one signature of a composition, on its way, on record and heard of.
SignedOnce(c) ==
    /\ \A a, b \in SignedIn(c) : a = b
    /\ \A r, s \in Pending(c) : r = s
    /\ \A r \in Pending(c) : r.reply # "ok" => SignedIn(c) = {}
    /\ c = composition =>
          /\ Pending(c) # {} => "signing" \in working
          /\ SignedIn(c) # {} /\ Pending(c) = {} => signed /\ signedBaselineId # None

ClientInv ==
    /\ Types
    /\ GapsUnselected
    /\ \A r \in net : RequestInv(r)
    /\ \A c \in 1..composition : c \in unanswered \/ SignedOnce(c)
    /\ NothingCrossesButLateAnswers

-----------------------------------------------------------------------------
(***************************************************************************)
(* What is signed                                                          *)
(***************************************************************************)
\* The candidates on the screen are those the engine gives for a profile.
LEMMA ShownIsEngines ==
    ASSUME Types, candidates # None
    PROVE  /\ candidates \in 1..Len(runs)
           /\ runs[candidates].profile \in Complete
           /\ Shown \in Candidates
           /\ Shown.rows \subseteq Row /\ Shown.outstanding \subseteq Shown.rows
           /\ \A row \in Row : Shown.key[row] \in Key
<1>1. candidates \in 1..Len(runs)
  <2>1. candidates \in 0..Len(runs) /\ Len(runs) \in Nat
    BY LenProperties DEF Types, TypeOK
  <2> QED
    BY <2>1 DEF None
<1>2. runs[candidates].profile \in Complete
  BY <1>1 DEF Types, TypeOK
<1>3. Shown \in Candidates /\ Shown.outstanding \subseteq Shown.rows
  BY <1>2, EngineAssumption DEF Shown
<1> QED
  BY <1>1, <1>2, <1>3 DEF Candidates

\* What is sent was put down for a row, and is what was selected, what overrules
\* a contradiction, or a gap accepted.
LEMMA ChoiceShape ==
    ASSUME Types, candidates # None, NEW c \in Choices
    PROVE  /\ c \in Choice
           /\ c.row \in Shown.rows /\ c.key = Shown.key[c.row]
           /\ c.kind = "option_rejected" => c.control \notin selections[c.key]
           /\ c.kind \in {"option_selected", "compensatory_declared"} =>
                 c.control \in selections[c.key]
           /\ c.kind = "gap_accepted" => c.key \in gaps
<1> DEFINE sent == {row \in Shown.rows : Shown.key[row] \in reasons}
           made(row, kind, x) == [row |-> row, key |-> Shown.key[row], control |-> x, kind |-> kind]
           adoption(row, x) ==
               IF x \in Shown.compensatory[row] THEN "compensatory_declared" ELSE "option_selected"
<1>1. ASSUME NEW row \in sent, NEW x \in Control \cup {None},
             NEW kind \in {"option_selected", "compensatory_declared", "option_rejected",
                           "gap_accepted"}
      PROVE  /\ made(row, kind, x) \in Choice
             /\ made(row, kind, x).row = row /\ made(row, kind, x).key = Shown.key[row]
             /\ made(row, kind, x).kind = kind /\ made(row, kind, x).control = x
             /\ row \in Shown.rows
  BY <1>1, ShownIsEngines DEF Choice
<1>2. ASSUME NEW row \in sent, NEW x \in Control
      PROVE  adoption(row, x) \in {"option_selected", "compensatory_declared"}
  OBVIOUS
<1>3. \/ \E row \in sent, x \in Control :
            x \in selections[Shown.key[row]] /\ c = made(row, adoption(row, x), x)
      \/ \E row \in sent, x \in Control :
            x \notin selections[Shown.key[row]] /\ c = made(row, "option_rejected", x)
      \/ \E row \in sent : Shown.key[row] \in gaps /\ c = made(row, "gap_accepted", None)
  BY DEF Choices, Picked
<1> HIDE DEF sent, made, adoption
<1>4. CASE \E row \in sent, x \in Control :
              x \in selections[Shown.key[row]] /\ c = made(row, adoption(row, x), x)
  BY <1>1, <1>2, <1>4
<1>5. CASE \E row \in sent, x \in Control :
              x \notin selections[Shown.key[row]] /\ c = made(row, "option_rejected", x)
  BY <1>1, <1>5
<1>6. CASE \E row \in sent : Shown.key[row] \in gaps /\ c = made(row, "gap_accepted", None)
  BY <1>1, <1>6
<1> QED
  BY <1>3, <1>4, <1>5, <1>6

\* The two kinds of decision that close a mandate are sent.
LEMMA DecisionSent ==
    ASSUME Types, candidates # None,
           NEW row \in Shown.rows, Shown.key[row] \in reasons, Decided(Shown.key[row])
    PROVE  \E c \in Choices : c.key = Shown.key[row] /\ c.kind # "option_rejected"
<1> DEFINE k == Shown.key[row]
<1>1. k \in Key
  BY ShownIsEngines
<1>2. CASE k \in gaps
  <2> DEFINE c == [row |-> row, key |-> k, control |-> None, kind |-> "gap_accepted"]
  <2>1. c \in Choices
    BY <1>2 DEF Choices
  <2> QED
    BY <2>1
<1>3. CASE selections[k] # {}
  <2>1. PICK x \in selections[k] : x \in Control
    BY <1>1, <1>3 DEF Types, TypeOK
  <2> DEFINE adoption(r, y) ==
                 IF y \in Shown.compensatory[r] THEN "compensatory_declared" ELSE "option_selected"
             picked == {p \in {r \in Shown.rows : Shown.key[r] \in reasons} \X Control :
                           p[2] \in Picked(p[1])}
             c == [row |-> row, key |-> k, control |-> x, kind |-> adoption(row, x)]
             adopted == {[row |-> p[1], key |-> Shown.key[p[1]], control |-> p[2],
                          kind |-> adoption(p[1], p[2])] : p \in picked}
  <2>2. <<row, x>> \in picked
    BY <2>1 DEF Picked
  <2>3. c \in adopted
    BY <2>2
  <2>4. adopted \subseteq Choices
    BY DEF Choices
  <2>5. c.key = k /\ c.kind # "option_rejected"
    OBVIOUS
  <2> QED
    BY <2>3, <2>4, <2>5
<1> QED
  BY <1>2, <1>3 DEF Decided

\* What is sent holds nothing opposite.
LEMMA ChoicesCoherent ==
    ASSUME Types, GapsUnselected, candidates # None
    PROVE  Coherent(Choices)
<1> SUFFICES ASSUME NEW k \in Key
             PROVE  LET group == {c \in Choices : c.key = k}
                    IN  /\ Controls(group, {"option_selected"})
                              \cap Controls(group, {"option_rejected"}) = {}
                        /\ Controls(group, {"gap_accepted"}) # {} =>
                              Controls(group, {"option_selected", "compensatory_declared"}) = {}
  BY DEF Coherent
<1> DEFINE group == {c \in Choices : c.key = k}
<1>1. ASSUME NEW x \in Controls(group, {"option_selected", "compensatory_declared"})
      PROVE  x \in selections[k]
  BY ChoiceShape DEF Controls
<1>2. ASSUME NEW x \in Controls(group, {"option_selected"}) PROVE x \in selections[k]
  BY ChoiceShape DEF Controls
<1>3. ASSUME NEW x \in Controls(group, {"option_rejected"}) PROVE x \notin selections[k]
  BY ChoiceShape DEF Controls
<1>4. ASSUME NEW x \in Controls(group, {"gap_accepted"}) PROVE selections[k] = {}
  <2>1. k \in gaps
    BY ChoiceShape DEF Controls
  <2> QED
    BY <2>1 DEF GapsUnselected
<1> HIDE DEF group
<1>5. Controls(group, {"option_selected"}) \cap Controls(group, {"option_rejected"}) = {}
  BY <1>2, <1>3
<1>6. Controls(group, {"gap_accepted"}) # {} =>
         Controls(group, {"option_selected", "compensatory_declared"}) = {}
  BY <1>1, <1>4
<1> QED
  BY <1>5, <1>6 DEF group

\* With no blocker left, what is sent closes every mandate of the options, and
\* is nothing only where there was nothing to decide.
LEMMA ChoicesAcceptable ==
    ASSUME Types, candidates # None, Blockers = {}
    PROVE  Acceptable(runs[candidates].profile, Choices)
<1>1. \A c \in Choices : c \in Choice /\ c.row \in Shown.rows /\ c.key = Shown.key[c.row]
  BY ChoiceShape
<1>2. ASSUME NEW row \in Shown.rows, Decided(Shown.key[row])
      PROVE  \E c \in Choices : c.key = Shown.key[row] /\ c.kind # "option_rejected"
  <2>1. Shown.key[row] \in reasons
    BY <1>2 DEF Blockers
  <2> QED
    BY <1>2, <2>1, DecisionSent
<1>3. ASSUME NEW row \in Shown.outstanding
      PROVE  \E c \in Choices : c.key = Shown.key[row] /\ c.kind # "option_rejected"
  <2>1. row \in Shown.rows
    BY ShownIsEngines
  <2>2. Decided(Shown.key[row])
    BY <2>1 DEF Blockers
  <2> QED
    BY <1>2, <2>1, <2>2
<1>4. ASSUME NEW row \in Shown.rows, Shown.contested[row] # {} PROVE Choices # {}
  <2>1. Decided(Shown.key[row])
    BY <1>4 DEF Blockers, Picked, Decided
  <2> QED
    BY <1>2, <2>1
<1> QED
  BY <1>1, <1>3, <1>4 DEF Acceptable, MandatesClosed, NothingToDecide, Shown

-----------------------------------------------------------------------------
(***************************************************************************)
(* Types                                                                   *)
(***************************************************************************)
\* A request nobody listens to is a request.
LEMMA UnheardIsRequest ==
    ASSUME NEW r \in Request
    PROVE  [r EXCEPT !.provider = None] \in Request
<1>1. None \in 0..MaxProviders
  BY BoundAssumption DEF None
<1> QED
  BY <1>1 DEF Request

\* What the operator does keeps the types.
LEMMA OperatorTypes == Types /\ Operator => Types'
<1> SUFFICES ASSUME Types, Operator PROVE Types'
  OBVIOUS
<1> USE DEF Types, TypeOK
<1>0. /\ Len(runs) \in Nat /\ provider \in 0..MaxProviders /\ loaded \in 1..provider
      /\ candidates \in 0..Len(runs) /\ candidates \in 0..MaxRuns
  BY LenProperties, BoundAssumption
<1>1. CASE RunParse
  <2>1. net' \subseteq Request
    <3>1. [kind |-> "parse", provider |-> provider, composition |-> composition,
           profile |-> NoDraft, run |-> None, choices |-> {}, reply |-> "none"] \in Request
      BY <1>0, BoundAssumption DEF Request, None
    <3> QED
      BY <1>1, <3>1 DEF RunParse, Send
  <2> QED
    BY <1>1, <2>1 DEF RunParse, store, mounted, server, history
<1>2. CASE StartManualDraft
  BY <1>0, <1>2 DEF StartManualDraft, mounted, server, None
<1>3. CASE Correct
  BY <1>3 DEF Correct, screen, mounted, server
<1>4. CASE RunCandidates
  <2>1. net' \subseteq Request
    <3>1. draft \in Draft
      BY <1>4, DraftAssumption DEF RunCandidates
    <3>2. [kind |-> "candidates", provider |-> provider, composition |-> composition,
           profile |-> draft, run |-> None, choices |-> {}, reply |-> "none"] \in Request
      BY <1>0, <3>1, BoundAssumption DEF Request, None
    <3> QED
      BY <1>4, <3>2 DEF RunCandidates, Send
  <2> QED
    BY <1>4, <2>1 DEF RunCandidates, store, mounted, server, history
<1>5. ASSUME NEW row \in Row, ToggleGap(row) PROVE Types'
  <2>1. Shown.key[row] \in Key
    BY <1>5, ShownIsEngines DEF ToggleGap, Choosing
  <2>2. selections' \in [Key -> SUBSET Control] /\ gaps' \subseteq Key
    BY <1>5, <2>1 DEF ToggleGap
  <2> QED
    BY <1>5, <2>2 DEF ToggleGap, screen, mounted, server, history
<1>6. ASSUME NEW row \in Row, SetReason(row) PROVE Types'
  <2>1. Shown.key[row] \in Key
    BY <1>6, ShownIsEngines DEF SetReason, Choosing
  <2>2. reasons' \subseteq Key
    BY <1>6, <2>1 DEF SetReason
  <2> QED
    BY <1>6, <2>2 DEF SetReason, screen, mounted, server, history
<1>7. ASSUME NEW row \in Row, NEW c \in Control, ToggleSelection(row, c) PROVE Types'
  <2>1. selections' \in [Key -> SUBSET Control] /\ gaps' \subseteq Key
    BY <1>7 DEF ToggleSelection
  <2> QED
    BY <1>7, <2>1 DEF ToggleSelection, screen, mounted, server, history
<1>8. CASE Sign
  <2>1. net' \subseteq Request
    <3>1. draft \in Draft /\ candidates # None
      BY <1>8, DraftAssumption DEF Sign, Choosing
    <3>2. Choices \in SUBSET Choice
      BY <3>1, ChoiceShape
    <3>3. [kind |-> "sign", provider |-> provider, composition |-> composition,
           profile |-> draft, run |-> candidates, choices |-> Choices, reply |-> "none"] \in Request
      BY <1>0, <3>1, <3>2 DEF Request
    <3> QED
      BY <1>8, <3>3 DEF Sign, Send
  <2> QED
    BY <1>8, <2>1 DEF Sign, store, mounted, server, history
<1>9. ASSUME NewProvider, Clear, net' = net, runs' = runs, baselines' = baselines,
             loaded' = loaded
      PROVE  Types'
  <2>1. provider' \in 1..MaxProviders /\ loaded' \in 1..provider'
    BY <1>0, <1>9, BoundAssumption DEF NewProvider
  <2>2. /\ composition' \in Nat \ {0}
        /\ baselines' \subseteq [run : 1..Len(runs), composition : 1..composition']
    BY <1>9 DEF Clear
  <2>3. /\ draft' \in Draft \cup {NoDraft} /\ selections' \in [Key -> SUBSET Control]
        /\ reasons' \subseteq Key /\ gaps' \subseteq Key
        /\ working' \subseteq {"parsing", "loading", "signing"}
        /\ candidates' \in 0..Len(runs) /\ baseline' \in 0..Len(runs)
        /\ signedBaselineId' \in 0..Len(runs)
    BY <1>0, <1>9 DEF Clear, NewProvider, None
  <2> QED
    BY <1>9, <2>1, <2>2, <2>3
<1>10. CASE Reset
  BY <1>9, <1>10 DEF Reset, server
<1>11. CASE Reload
  <2>1. /\ provider' \in 1..MaxProviders /\ loaded' \in 1..provider'
        /\ working' = {} /\ candidates' = None /\ baseline' = None
        /\ runs' = runs /\ baselines' = baselines /\ net' = Unheard(net)
    BY <1>0, <1>11, BoundAssumption DEF Reload, NewProvider, server
  <2>2. net' \subseteq Request
    BY <2>1, UnheardIsRequest DEF Unheard
  <2>3. /\ draft' \in Draft \cup {NoDraft} /\ selections' \in [Key -> SUBSET Control]
        /\ reasons' \subseteq Key /\ gaps' \subseteq Key
        /\ signedBaselineId' \in 0..Len(runs)
        /\ composition' \in Nat \ {0}
        /\ 1..composition \subseteq 1..composition'
    BY <1>0, <1>11 DEF Reload, Clear, store, None
  <2>4. baselines' \subseteq [run : 1..Len(runs), composition : 1..composition']
    BY <2>1, <2>3
  <2>5. candidates' \in 0..Len(runs) /\ baseline' \in 0..Len(runs)
    BY <1>0, <2>1 DEF None
  <2> HIDE DEF Types, TypeOK
  <2>6. /\ runs \in Seq([profile : Complete, composition : Nat]) /\ Len(runs) <= MaxRuns
        /\ \A i \in 1..Len(runs) : runs[i].profile \in Complete
    BY DEF Types, TypeOK
  <2>7. TypeOK'
    BY <2>1, <2>2, <2>3, <2>4, <2>5, <2>6 DEF TypeOK
  <2> QED
    BY <2>1, <2>3, <2>6, <2>7 DEF Types
<1> QED
  BY <1>1, <1>2, <1>3, <1>4, <1>5, <1>6, <1>7, <1>8, <1>10, <1>11 DEF Operator

\* So do the server and the answers.
LEMMA AnswerTypes ==
    ASSUME Types, NEW r \in net, RequestInv(r), Handle(r) \/ Answer(r) \/ TimeOut(r)
    PROVE  Types'
<1> USE DEF Types, TypeOK
<1>0. Len(runs) \in Nat /\ r \in Request
  BY LenProperties
<1>1. CASE Handle(r)
  <2>1. \A reply \in {"ok", "refused"} : [r EXCEPT !.reply = reply] \in Request
    BY <1>0 DEF Request
  <2>2. net' \subseteq Request
    BY <1>1, <2>1 DEF Handle, Replied
  <2>3. baselines' \subseteq [run : 1..Len(runs), composition : 1..composition]
    BY <1>1 DEF Handle, RequestInv, SignatureInv
  <2> QED
    BY <1>1, <2>2, <2>3 DEF Handle, store, screen, mounted, history
<1>2. CASE Answer(r)
  <2>1. working' \subseteq {"parsing", "loading", "signing"} /\ net' \subseteq Request
    BY <1>2 DEF Answer, Done
  <2>2. CASE Calculated(r)
    <3> DEFINE e == [profile |-> r.profile, composition |-> r.composition]
    <3>1. e \in [profile : Complete, composition : Nat]
      BY <1>0, <2>2 DEF Calculated, RequestInv, Request
    <3>2. runs' = Append(runs, e)
      BY <2>2 DEF Calculated
    <3> HIDE DEF e
    <3>3. /\ runs' \in Seq([profile : Complete, composition : Nat])
          /\ Len(runs') = Len(runs) + 1
      BY <3>1, <3>2, AppendProperties
    <3>4. Len(runs') <= MaxRuns /\ 0..Len(runs) \subseteq 0..Len(runs')
          /\ 1..Len(runs) \subseteq 1..Len(runs')
      BY <1>0, <2>2, <3>3, BoundAssumption DEF Calculated
    <3>5. candidates' \in 0..Len(runs')
      BY <1>0, <2>2, <3>3 DEF Calculated, OnScreen
    <3>6. \A i \in 1..Len(runs') : runs'[i].profile \in Complete
      <4>1. ASSUME NEW i \in 1..Len(runs')
            PROVE  runs'[i] \in [profile : Complete, composition : Nat]
        BY <3>3, ElementOfSeq
      <4> QED
        BY <4>1
    <3>7. baselines' \subseteq [run : 1..Len(runs'), composition : 1..composition]
      BY <1>2, <3>4 DEF Answer
    <3> QED
      BY <1>2, <2>1, <2>2, <3>3, <3>4, <3>5, <3>6, <3>7 DEF Answer, Calculated, mounted
  <2>3. CASE Parsed(r)
    BY <1>0, <1>2, <2>1, <2>3 DEF Answer, Parsed, OnScreen, mounted, None
  <2>4. CASE Signed(r)
    <3>1. r.run \in 0..Len(runs)
      BY <1>0, <2>4 DEF Signed, RequestInv, SignatureInv
    <3> QED
      BY <1>2, <2>1, <2>4, <3>1 DEF Answer, Signed, OnScreen, mounted
  <2>5. CASE Refused(r)
    BY <1>2, <2>1, <2>5 DEF Answer, Refused, mounted
  <2> QED
    BY <1>2, <2>2, <2>3, <2>4, <2>5 DEF Answer
<1>3. CASE TimeOut(r)
  <2>1. working' \subseteq {"parsing", "loading", "signing"}
    BY <1>3 DEF TimeOut, Done
  <2>2. net' \subseteq Request
    BY <1>0, <1>3, UnheardIsRequest DEF TimeOut, Unheard
  <2> QED
    BY <1>3, <2>1, <2>2 DEF TimeOut, store, mounted, server
<1> QED
  BY <1>1, <1>2, <1>3

-----------------------------------------------------------------------------
(***************************************************************************)
(* What a step leaves as it was                                            *)
(***************************************************************************)
\* Runs are only ever added.
RunsKept == \A i \in 1..Len(runs) : i \in 1..Len(runs') /\ runs'[i] = runs[i]

\* A request that is still on its way is what it was.
LEMMA RequestKept ==
    ASSUME NEW r, RequestInv(r), RunsKept, composition \in Nat,
           provider' = provider, loaded' = loaded, composition' = composition,
           discarded \subseteq discarded', unanswered \subseteq unanswered'
    PROVE  RequestInv(r)'
<1>1. r.kind = "sign" => SignatureInv(r)'
  BY DEF RequestInv, SignatureInv, RunsKept
<1> QED
  BY <1>1 DEF RequestInv

\* A signature is where it was, if nothing is known of it that was not.
LEMMA SignedOnceKept ==
    ASSUME NEW c, SignedOnce(c), Pending(c)' = Pending(c), SignedIn(c)' = SignedIn(c),
           c = composition' => /\ composition' = composition
                               /\ "signing" \in working => "signing" \in working'
                               /\ signed => signed'
                               /\ signedBaselineId # None => signedBaselineId' # None
    PROVE  SignedOnce(c)'
BY DEF SignedOnce

\* Nothing that was asked for, answered or signed is touched.
Undisturbed ==
    /\ provider' = provider /\ loaded' = loaded
    /\ runs' = runs /\ baselines' = baselines
    /\ composition' = composition /\ discarded' = discarded /\ unanswered' = unanswered
    /\ baseline' = baseline /\ signedBaselineId' = signedBaselineId

\* Work on the draft or the decisions changes only what is in the store.
LEMMA LocalStep ==
    ASSUME ClientInv, Types', GapsUnselected', Undisturbed, net' = net, working' = working,
           candidates' \in {candidates, None}, writers' \subseteq writers \cup {composition}
    PROVE  ClientInv'
<1>1. ASSUME NEW r \in net' PROVE RequestInv(r)'
  <2>1. RunsKept /\ RequestInv(r) /\ composition \in Nat
    BY DEF Undisturbed, RunsKept, ClientInv, Types
  <2> QED
    BY <2>1, RequestKept DEF Undisturbed
<1>2. ASSUME NEW c \in 1..composition', c \notin unanswered' PROVE SignedOnce(c)'
  <2>1. SignedOnce(c)
    BY <1>2 DEF ClientInv, Undisturbed
  <2>2. Pending(c)' = Pending(c) /\ SignedIn(c)' = SignedIn(c)
    BY DEF Pending, SignedIn, Undisturbed
  <2>3. /\ composition' = composition /\ working' = working /\ signedBaselineId' = signedBaselineId
        /\ signed' <=> signed
    BY DEF Undisturbed, signed
  <2> QED
    BY <2>1, <2>2, <2>3, SignedOnceKept
<1>3. NothingCrossesButLateAnswers'
  BY DEF ClientInv, NothingCrossesButLateAnswers, Undisturbed
<1> QED
  BY <1>1, <1>2, <1>3 DEF ClientInv

\* A request is sent by the provider that is there, for the composition at hand.
LEMMA SendStep ==
    ASSUME ClientInv, Types', Undisturbed, GapsUnselected',
           NEW req, net' = net \cup {req},
           req.provider = provider, req.composition = composition,
           req.kind = "sign" => SignatureInv(req),
           req.kind = "candidates" => req.profile \in Complete,
           req.kind = "sign" => /\ "signing" \in working' \ working
                                /\ ~signed /\ req.reply = "none",
           working \subseteq working', candidates' = candidates, writers' = writers
    PROVE  ClientInv'
<1>0. /\ provider \in loaded..provider /\ provider # None
      /\ composition \in 1..composition /\ composition \in Nat
  BY BoundAssumption DEF ClientInv, Types, TypeOK, None
<1>1. ASSUME NEW r \in net' PROVE RequestInv(r)'
  <2>1. RequestInv(r)
    <3>1. CASE r = req
      BY <1>0, <3>1 DEF RequestInv
    <3>2. CASE r # req
      BY <3>2 DEF ClientInv
    <3> QED
      BY <3>1, <3>2
  <2>2. RunsKept
    BY DEF Undisturbed, RunsKept
  <2> QED
    BY <1>0, <2>1, <2>2, RequestKept DEF Undisturbed
<1>2. ASSUME NEW c \in 1..composition', c \notin unanswered' PROVE SignedOnce(c)'
  <2>1. SignedOnce(c) /\ SignedIn(c)' = SignedIn(c)
    BY <1>2 DEF ClientInv, Undisturbed, SignedIn
  <2>2. CASE ~(req.kind = "sign" /\ c = composition)
    <3>1. Pending(c)' = Pending(c)
      BY <2>2 DEF Pending
    <3>2. /\ composition' = composition /\ working \subseteq working'
          /\ signedBaselineId' = signedBaselineId
          /\ signed' <=> signed
      BY DEF Undisturbed, signed
    <3> QED
      BY <2>1, <3>1, <3>2, SignedOnceKept
  <2>3. CASE req.kind = "sign" /\ c = composition
    <3>1. Pending(c) = {} /\ SignedIn(c) = {}
      BY <2>1, <2>3 DEF SignedOnce
    <3>2. Pending(c)' = {req}
      BY <2>3, <3>1 DEF Pending
    <3> QED
      BY <2>1, <2>3, <3>1, <3>2 DEF SignedOnce
  <2> QED
    BY <2>2, <2>3
<1>3. NothingCrossesButLateAnswers'
  BY DEF ClientInv, NothingCrossesButLateAnswers, Undisturbed
<1> QED
  BY <1>1, <1>2, <1>3 DEF ClientInv

-----------------------------------------------------------------------------
(***************************************************************************)
(* The operator                                                            *)
(***************************************************************************)
\* What the operator does in a composition.
LEMMA ComposingKept ==
    ASSUME ClientInv, Types', Operator, ~Reset, ~Reload
    PROVE  ClientInv'
<1>1. CASE RunParse
  <2> DEFINE req == [kind |-> "parse", provider |-> provider, composition |-> composition,
                     profile |-> NoDraft, run |-> None, choices |-> {}, reply |-> "none"]
  <2>1. /\ net' = net \cup {req} /\ working \subseteq working'
        /\ candidates' = candidates /\ writers' = writers /\ Undisturbed /\ GapsUnselected'
    BY <1>1 DEF RunParse, Send, store, mounted, server, history, Undisturbed, ClientInv,
                GapsUnselected
  <2>2. req.kind = "parse" /\ req.provider = provider /\ req.composition = composition
    OBVIOUS
  <2> HIDE DEF req
  <2> QED
    BY <2>1, <2>2, SendStep
<1>2. CASE RunCandidates
  <2> DEFINE req == [kind |-> "candidates", provider |-> provider, composition |-> composition,
                     profile |-> draft, run |-> None, choices |-> {}, reply |-> "none"]
  <2>1. /\ net' = net \cup {req} /\ working \subseteq working'
        /\ candidates' = candidates /\ writers' = writers /\ Undisturbed /\ GapsUnselected'
    BY <1>2 DEF RunCandidates, Send, store, mounted, server, history, Undisturbed, ClientInv,
                GapsUnselected
  <2>2. /\ req.kind = "candidates" /\ req.provider = provider /\ req.composition = composition
        /\ req.profile \in Complete
    BY <1>2 DEF RunCandidates
  <2> HIDE DEF req
  <2> QED
    BY <2>1, <2>2, SendStep
<1>3. CASE Sign
  <2> DEFINE req == [kind |-> "sign", provider |-> provider, composition |-> composition,
                     profile |-> draft, run |-> candidates, choices |-> Choices, reply |-> "none"]
  <2>1. /\ net' = net \cup {req} /\ working' = working \cup {"signing"}
        /\ candidates' = candidates /\ writers' = writers /\ Undisturbed /\ GapsUnselected'
    BY <1>3 DEF Sign, Send, store, mounted, server, history, Undisturbed, ClientInv,
                GapsUnselected
  <2>2. /\ ~signed /\ draft \in Complete /\ candidates # None /\ Blockers = {}
        /\ "signing" \notin working
    BY <1>3 DEF Sign, Choosing
  <2>3. /\ req.kind = "sign" /\ req.provider = provider /\ req.composition = composition
        /\ req.reply = "none" /\ req.run = candidates /\ req.profile = draft
        /\ req.choices = Choices
    OBVIOUS
  <2>4. SignatureInv(req)
    <3>1. candidates \in 1..Len(runs)
      BY <2>2, ShownIsEngines DEF ClientInv
    <3>2. runs[candidates].composition = composition
      BY <2>2 DEF ClientInv, NothingCrossesButLateAnswers
    <3>3. Coherent(Choices) /\ Acceptable(runs[candidates].profile, Choices)
      BY <2>2, ChoicesCoherent, ChoicesAcceptable DEF ClientInv
    <3> HIDE DEF req
    <3> QED
      BY <2>2, <2>3, <3>1, <3>2, <3>3 DEF SignatureInv
  <2> HIDE DEF req
  <2>5. "signing" \in working' \ working /\ working \subseteq working'
    BY <2>1, <2>2
  <2> QED
    BY <2>1, <2>2, <2>3, <2>4, <2>5, SendStep
<1>4. CASE StartManualDraft \/ Correct
  <2>1. /\ Undisturbed /\ net' = net /\ working' = working /\ GapsUnselected'
        /\ candidates' \in {candidates, None} /\ writers' = writers \cup {composition}
    BY <1>4 DEF StartManualDraft, Correct, screen, mounted, server, Undisturbed, ClientInv,
                GapsUnselected
  <2> QED
    BY <2>1, LocalStep
<1>5. ASSUME NEW row \in Row, ToggleGap(row) \/ SetReason(row) PROVE ClientInv'
  <2>1. /\ Undisturbed /\ net' = net /\ working' = working
        /\ candidates' = candidates /\ writers' = writers
    BY <1>5 DEF ToggleGap, SetReason, screen, mounted, server, history, Undisturbed
  <2>2. GapsUnselected'
    BY <1>5 DEF ToggleGap, SetReason, ClientInv, GapsUnselected, Types, TypeOK
  <2> QED
    BY <2>1, <2>2, LocalStep
<1>6. ASSUME NEW row \in Row, NEW c \in Control, ToggleSelection(row, c) PROVE ClientInv'
  <2>1. /\ Undisturbed /\ net' = net /\ working' = working
        /\ candidates' = candidates /\ writers' = writers
    BY <1>6 DEF ToggleSelection, screen, mounted, server, history, Undisturbed
  <2>2. GapsUnselected'
    BY <1>6 DEF ToggleSelection, ClientInv, GapsUnselected, Types, TypeOK
  <2> QED
    BY <2>1, <2>2, LocalStep
<1> QED
  BY <1>1, <1>2, <1>3, <1>4, <1>5, <1>6 DEF Operator

-----------------------------------------------------------------------------
(***************************************************************************)
(* The server and the answers                                              *)
(***************************************************************************)
\* A request on its way is one of those sent, by this page or one before it.
LEMMA OnItsWay ==
    ASSUME ClientInv, NEW r \in net
    PROVE  /\ r \in Request /\ RequestInv(r)
           /\ r.composition \in 1..composition
           /\ r.provider \in 0..MaxProviders
           /\ r \in Waiting <=> r.provider # None
           /\ r.provider = provider <=> r.composition = composition /\ r.provider # None
<1>1. r \in Request /\ RequestInv(r)
  BY DEF ClientInv, Types, TypeOK
<1>2. loaded \in 1..provider /\ provider \in 1..MaxProviders /\ r.provider \in 0..MaxProviders
  BY <1>1 DEF ClientInv, Types, TypeOK, Request
<1>3. r \in Waiting <=> r.provider # None
  BY <1>1, <1>2, BoundAssumption DEF Waiting, RequestInv, None
<1> QED
  BY <1>1, <1>2, <1>3, BoundAssumption DEF RequestInv, None

\* The server answers a signature, and admits one of a composition.
LEMMA HandleKept ==
    ASSUME ClientInv, Types', NEW r \in net, Handle(r)
    PROVE  ClientInv'
<1> DEFINE answered(reply) == [r EXCEPT !.reply = reply]
<1>1. /\ r.kind = "sign" /\ r.reply = "none"
      /\ provider' = provider /\ loaded' = loaded /\ runs' = runs /\ composition' = composition
      /\ discarded' = discarded /\ unanswered' = unanswered /\ working' = working
      /\ candidates' = candidates /\ baseline' = baseline /\ writers' = writers
      /\ signedBaselineId' = signedBaselineId /\ gaps' = gaps /\ selections' = selections
  BY DEF Handle, store, screen, mounted, history
<1>2. PICK reply \in {"ok", "refused"} :
         /\ net' = IF r.provider = None THEN net \ {r} ELSE (net \ {r}) \cup {answered(reply)}
         /\ \/ /\ reply = "ok"
               /\ baselines' = baselines \cup {[run |-> r.run, composition |-> r.composition]}
            \/ /\ reply = "refused"
               /\ baselines' = baselines
  BY DEF Handle, Replied
<1>3. /\ answered(reply).kind = "sign" /\ answered(reply).composition = r.composition
      /\ answered(reply).provider = r.provider /\ answered(reply).profile = r.profile
      /\ answered(reply).run = r.run /\ answered(reply).choices = r.choices
      /\ answered(reply).reply = reply
  BY <1>1, OnItsWay DEF Request
<1> HIDE DEF answered
<1>4. ASSUME NEW s \in net' PROVE RequestInv(s)'
  <2>1. RequestInv(s)
    <3>1. CASE s = answered(reply)
      <4>1. RequestInv(r)
        BY OnItsWay
      <4> QED
        BY <1>1, <1>3, <3>1, <4>1 DEF RequestInv, SignatureInv
    <3>2. CASE s # answered(reply)
      BY <1>2, <3>2 DEF ClientInv
    <3> QED
      BY <3>1, <3>2
  <2>2. RunsKept /\ composition \in Nat
    BY <1>1 DEF RunsKept, ClientInv, Types
  <2> QED
    BY <1>1, <2>1, <2>2, RequestKept
<1>5. ASSUME NEW c \in 1..composition', c \notin unanswered' PROVE SignedOnce(c)'
  <2>1. SignedOnce(c)
    BY <1>1, <1>5 DEF ClientInv
  <2>2. CASE c # r.composition
    <3>1. Pending(c)' = Pending(c) /\ SignedIn(c)' = SignedIn(c)
      BY <1>1, <1>2, <1>3, <2>2 DEF Pending, SignedIn
    <3>2. signed' <=> signed
      BY <1>1 DEF signed
    <3> QED
      BY <1>1, <2>1, <3>1, <3>2, SignedOnceKept
  <2>3. CASE c = r.composition
    <3>1. r.provider # None
      BY <1>1, <1>5, <2>3, OnItsWay DEF RequestInv
    <3>2. r \in Pending(c)
      BY <1>1, <2>3 DEF Pending
    <3>3. Pending(c) = {r} /\ SignedIn(c) = {}
      BY <1>1, <2>1, <3>2 DEF SignedOnce
    <3>4. Pending(c)' = {answered(reply)}
      BY <1>2, <1>3, <2>3, <3>1, <3>3 DEF Pending
    <3>5. \/ reply = "ok" /\ SignedIn(c)' = {[run |-> r.run, composition |-> r.composition]}
          \/ reply = "refused" /\ SignedIn(c)' = {}
      BY <1>2, <2>3, <3>3 DEF SignedIn
    <3>6. c = composition' => "signing" \in working'
      BY <1>1, <2>1, <3>2 DEF SignedOnce
    <3> QED
      BY <1>3, <3>4, <3>5, <3>6 DEF SignedOnce
  <2> QED
    BY <2>2, <2>3
<1>6. NothingCrossesButLateAnswers'
  BY <1>1 DEF ClientInv, NothingCrossesButLateAnswers
<1>7. GapsUnselected'
  BY <1>1 DEF ClientInv, GapsUnselected
<1> QED
  BY <1>4, <1>5, <1>6, <1>7 DEF ClientInv

\* What an answer brings is of the composition it was asked for in.
LEMMA AnswerCrosses ==
    ASSUME ClientInv, Types', NEW r \in net, Answer(r)
    PROVE  NothingCrossesButLateAnswers' /\ RunsKept
<1>0. /\ NothingCrossesButLateAnswers
      /\ composition' = composition /\ discarded' = discarded /\ provider' = provider
      /\ {candidates, baseline} \subseteq 0..Len(runs) /\ Len(runs) \in Nat
  BY LenProperties DEF ClientInv, Types, TypeOK, Answer, mounted
<1>1. /\ r.provider = provider => r.composition = composition
      /\ r.kind = "sign" => SignatureInv(r)
      /\ r.kind \in {"parse", "sign"} => r.composition \in {composition} \cup discarded
  BY OnItsWay DEF Answer, RequestInv
<1>2. CASE Calculated(r)
  <2> DEFINE e == [profile |-> r.profile, composition |-> r.composition]
  <2>1. /\ runs' = Append(runs, e) /\ baseline' = baseline /\ writers' = writers
        /\ candidates' = OnScreen(r, candidates, Len(runs) + 1)
    BY <1>2 DEF Calculated
  <2>2. e \in [profile : Complete, composition : Nat] /\ e.composition = r.composition
    BY <1>2, OnItsWay DEF Calculated, RequestInv, Request
  <2> HIDE DEF e
  <2>3. RunsKept /\ runs'[Len(runs) + 1] = e
    BY <2>1, <2>2, AppendProperties DEF ClientInv, Types, RunsKept
  <2>4. \A run \in {candidates, baseline} \ {None} : run \in 1..Len(runs)
    BY <1>0 DEF None
  <2>5. ASSUME NEW run \in {candidates', baseline'} \ {None}
        PROVE  runs'[run].composition = composition
    <3>1. CASE run \in {candidates, baseline}
      <4>1. run \in 1..Len(runs)
        BY <2>4, <2>5, <3>1
      <4>2. runs[run].composition = composition
        BY <1>0, <2>5, <3>1 DEF NothingCrossesButLateAnswers
      <4> QED
        BY <2>3, <4>1, <4>2 DEF RunsKept
    <3>2. CASE run \notin {candidates, baseline}
      <4>1. run = Len(runs) + 1 /\ r.provider = provider
        BY <2>1, <2>5, <3>2 DEF OnScreen
      <4> QED
        BY <1>1, <2>2, <2>3, <4>1
    <3> QED
      BY <3>1, <3>2
  <2> QED
    BY <1>0, <2>1, <2>3, <2>5 DEF NothingCrossesButLateAnswers
<1>3. CASE Parsed(r)
  BY <1>0, <1>1, <1>3 DEF Parsed, OnScreen, NothingCrossesButLateAnswers, RunsKept
<1>4. CASE Signed(r)
  BY <1>0, <1>1, <1>4 DEF Signed, OnScreen, SignatureInv, NothingCrossesButLateAnswers, RunsKept
<1>5. CASE Refused(r)
  BY <1>0, <1>5 DEF Refused, NothingCrossesButLateAnswers, RunsKept
<1> QED
  BY <1>2, <1>3, <1>4, <1>5 DEF Answer

\* An answer arrives, wherever the client is by then.
LEMMA AnswerKept ==
    ASSUME ClientInv, Types', NEW r \in net, Answer(r)
    PROVE  ClientInv'
<1>1. /\ net' = net \ {r} /\ provider' = provider /\ loaded' = loaded
      /\ baselines' = baselines /\ composition' = composition
      /\ discarded' = discarded /\ unanswered' = unanswered
      /\ selections' = selections /\ gaps' = gaps
      /\ r.provider # None
  BY OnItsWay DEF Answer, mounted
<1>2. working' = IF r.provider = provider THEN working \ {Flag[r.kind]} ELSE working
  BY DEF Answer, Done
<1>3. Calculated(r) \/ Parsed(r) \/ Signed(r) \/ Refused(r)
  BY DEF Answer
<1>4. NothingCrossesButLateAnswers' /\ RunsKept
  BY AnswerCrosses
<1>5. ASSUME NEW s \in net' PROVE RequestInv(s)'
  BY <1>1, <1>4, <1>5, RequestKept DEF ClientInv, Types
<1>6. ASSUME NEW c \in 1..composition', c \notin unanswered' PROVE SignedOnce(c)'
  <2>1. SignedOnce(c)
    BY <1>1, <1>6 DEF ClientInv
  <2>2. Pending(c)' = Pending(c) \ {r} /\ SignedIn(c)' = SignedIn(c)
    BY <1>1 DEF Pending, SignedIn
  <2>3. CASE c # composition
    BY <1>1, <2>1, <2>2, <2>3 DEF SignedOnce
  <2>4. CASE c = composition /\ ~(r.kind = "sign" /\ r.composition = c)
    <3>1. Pending(c)' = Pending(c)
      BY <2>2, <2>4 DEF Pending
    <3>2. "signing" \in working => "signing" \in working'
      <4>1. r.kind \in {"parse", "candidates", "sign"}
        BY OnItsWay DEF Request
      <4>2. r.kind = "sign" => r.provider # provider
        BY <2>4, OnItsWay
      <4> QED
        BY <1>2, <4>1, <4>2 DEF Flag
    <3>3. /\ signed => signed'
          /\ signedBaselineId # None => signedBaselineId' # None
      <4>1. Signed(r) => r.run # None
        BY OnItsWay DEF Signed, RequestInv, SignatureInv, None
      <4> QED
        BY <1>3, <4>1 DEF Calculated, Parsed, Signed, Refused, OnScreen, signed
    <3> QED
      BY <1>1, <2>1, <2>2, <3>1, <3>2, <3>3, SignedOnceKept
  <2>5. CASE c = composition /\ r.kind = "sign" /\ r.composition = c
    <3>1. r \in Pending(c) /\ Pending(c) = {r}
      BY <2>1, <2>5 DEF SignedOnce, Pending
    <3>2. Pending(c)' = {}
      BY <2>2, <3>1
    <3>3. r.provider = provider
      BY <1>1, <2>5, OnItsWay
    <3>4. SignedIn(c) # {} => signed' /\ signedBaselineId' # None
      <4>1. CASE Refused(r)
        BY <2>1, <2>5, <3>1, <4>1 DEF Refused, SignedOnce
      <4>2. CASE Signed(r)
        <5>1. r.run # None
          BY <2>5, OnItsWay DEF RequestInv, SignatureInv, None
        <5> QED
          BY <3>3, <4>2, <5>1 DEF Signed, OnScreen, signed
      <4> QED
        BY <1>3, <2>5, <4>1, <4>2 DEF Calculated, Parsed
    <3> QED
      BY <2>1, <2>2, <3>2, <3>4 DEF SignedOnce
  <2> QED
    BY <2>3, <2>4, <2>5
<1>7. GapsUnselected'
  BY <1>1 DEF ClientInv, GapsUnselected
<1> QED
  BY <1>4, <1>5, <1>6, <1>7 DEF ClientInv

\* An answer is lost, and with it what the client knows of the signature.
LEMMA TimeOutKept ==
    ASSUME ClientInv, Types', NEW r \in net, TimeOut(r)
    PROVE  ClientInv'
<1> DEFINE unheard == [r EXCEPT !.provider = None]
<1>1. /\ net' = (net \ {r}) \cup Unheard({r}) /\ unanswered' = unanswered \cup {r.composition}
      /\ provider' = provider /\ loaded' = loaded /\ runs' = runs /\ baselines' = baselines
      /\ composition' = composition /\ discarded' = discarded /\ writers' = writers
      /\ candidates' = candidates /\ baseline' = baseline
      /\ signedBaselineId' = signedBaselineId /\ gaps' = gaps /\ selections' = selections
      /\ r.kind = "sign"
      /\ working' = IF r.provider = provider THEN working \ {Flag[r.kind]} ELSE working
  BY DEF TimeOut, Done, store, mounted, server
<1>2. Unheard({r}) \subseteq {unheard}
  BY DEF Unheard
<1>3. /\ unheard.kind = "sign" /\ unheard.composition = r.composition
      /\ unheard.provider = None /\ unheard.profile = r.profile
      /\ unheard.run = r.run /\ unheard.choices = r.choices
  BY <1>1, OnItsWay DEF Request
<1> HIDE DEF unheard
<1>4. RunsKept /\ composition \in Nat
  BY <1>1 DEF RunsKept, ClientInv, Types
<1>5. ASSUME NEW s \in net' PROVE RequestInv(s)'
  <2>1. CASE s = unheard
    <3>1. RequestInv(r)'
      BY <1>1, <1>4, OnItsWay, RequestKept
    <3> QED
      BY <1>1, <1>3, <2>1, <3>1 DEF RequestInv, SignatureInv
  <2>2. CASE s # unheard
    BY <1>1, <1>2, <1>4, <2>2, RequestKept DEF ClientInv
  <2> QED
    BY <2>1, <2>2
<1>6. ASSUME NEW c \in 1..composition', c \notin unanswered' PROVE SignedOnce(c)'
  <2>1. SignedOnce(c) /\ c # r.composition
    BY <1>1, <1>6 DEF ClientInv
  <2>2. Pending(c)' = Pending(c) /\ SignedIn(c)' = SignedIn(c)
    BY <1>1, <1>2, <1>3, <2>1 DEF Pending, SignedIn
  <2>3. c = composition' => working' = working
    BY <1>1, <2>1, OnItsWay
  <2>4. signed' <=> signed
    BY <1>1 DEF signed
  <2> QED
    BY <1>1, <2>1, <2>2, <2>3, <2>4, SignedOnceKept
<1>7. NothingCrossesButLateAnswers'
  BY <1>1 DEF ClientInv, NothingCrossesButLateAnswers
<1>8. GapsUnselected'
  BY <1>1 DEF ClientInv, GapsUnselected
<1> QED
  BY <1>5, <1>6, <1>7, <1>8 DEF ClientInv

-----------------------------------------------------------------------------
(***************************************************************************)
(* New providers                                                           *)
(***************************************************************************)
\* A composition begun anew has sent nothing; the one before it is left with
\* what it was waiting for.
LEMMA ResetKept ==
    ASSUME ClientInv, Types', Reset
    PROVE  ClientInv'
<1>1. /\ provider' = provider + 1 /\ loaded' = loaded /\ composition' = composition + 1
      /\ candidates' = None /\ baseline' = None /\ writers' = {} /\ gaps' = {}
      /\ net' = net /\ runs' = runs /\ baselines' = baselines /\ unanswered' = unanswered
      /\ discarded' = discarded \cup Abandoned({"parse", "sign"})
  BY DEF Reset, NewProvider, Clear, server
<1>2. composition \in Nat \ {0} /\ provider \in Nat /\ loaded \in 1..provider
  BY BoundAssumption DEF ClientInv, Types, TypeOK
<1>3. ASSUME NEW r \in net' PROVE RequestInv(r)'
  <2>1. RequestInv(r) /\ r \in net
    BY <1>1, OnItsWay
  <2>2. r.kind = "sign" => SignatureInv(r)'
    BY <1>1, <2>1 DEF RequestInv, SignatureInv
  <2>3. ASSUME r.provider # None
        PROVE  /\ r.provider \in loaded'..provider'
               /\ r.provider # provider' /\ r.composition # composition'
               /\ r.kind \in {"parse", "sign"} => r.composition \in discarded'
    <3>1. r.provider \in loaded..provider /\ r.composition \in 1..composition /\ r \in Waiting
      BY <2>1, <2>3, OnItsWay DEF RequestInv
    <3>2. r.kind \in {"parse", "sign"} => r.composition \in Abandoned({"parse", "sign"})
      BY <3>1 DEF Abandoned
    <3> QED
      BY <1>1, <1>2, <3>1, <3>2
  <2>4. r.composition \in 1..composition'
    BY <1>1, <1>2, <2>1 DEF RequestInv
  <2> QED
    BY <1>1, <2>1, <2>2, <2>3, <2>4 DEF RequestInv
<1>4. ASSUME NEW c \in 1..composition', c \notin unanswered' PROVE SignedOnce(c)'
  <2>1. Pending(c)' = Pending(c) /\ SignedIn(c)' = SignedIn(c)
    BY <1>1 DEF Pending, SignedIn
  <2>2. CASE c = composition'
    <3>1. \A r \in net : r.composition # c
      BY <1>1, <1>2, <2>2, OnItsWay
    <3>2. \A b \in baselines : b.composition # c
      BY <1>1, <1>2, <2>2 DEF ClientInv, Types, TypeOK
    <3> QED
      BY <2>1, <3>1, <3>2 DEF SignedOnce, Pending, SignedIn
  <2>3. CASE c # composition'
    <3>1. SignedOnce(c)
      BY <1>1, <1>2, <1>4, <2>3 DEF ClientInv
    <3> QED
      BY <2>1, <2>3, <3>1 DEF SignedOnce
  <2> QED
    BY <2>2, <2>3
<1>5. NothingCrossesButLateAnswers'
  BY <1>1 DEF NothingCrossesButLateAnswers
<1>6. GapsUnselected'
  BY <1>1 DEF GapsUnselected
<1> QED
  BY <1>3, <1>4, <1>5, <1>6 DEF ClientInv

\* A page loaded again knows what the store knows: that the composition was
\* signed, unless the answer went with the page before it.
LEMMA ReloadKept ==
    ASSUME ClientInv, Types', Reload
    PROVE  ClientInv'
<1>1. /\ candidates' = None /\ baseline' = None
      /\ net' = Unheard(net) /\ runs' = runs /\ baselines' = baselines
      /\ unanswered' = unanswered \cup Abandoned({"sign"}) /\ discarded' = discarded
  BY DEF Reload, NewProvider, server
<1>2. \/ /\ composition' = composition + 1 /\ writers' = {} /\ gaps' = {}
      \/ /\ signedBaselineId = None
         /\ composition' = composition /\ writers' = writers /\ gaps' = gaps
         /\ selections' = selections
  BY DEF Reload, Clear, store
<1>3. composition \in Nat \ {0} /\ 1..composition \subseteq 1..composition'
  BY <1>2 DEF ClientInv, Types
<1>4. ASSUME NEW r \in net, r.kind = "sign" PROVE r.composition \in unanswered'
  <2>1. CASE r.provider = None
    BY <1>1, <1>4, <2>1, OnItsWay DEF RequestInv
  <2>2. CASE r.provider # None
    <3>1. r \in Waiting
      BY <2>2, OnItsWay
    <3>2. r.composition \in Abandoned({"sign"})
      BY <1>4, <3>1 DEF Abandoned
    <3> QED
      BY <1>1, <3>2
  <2> QED
    BY <2>1, <2>2
<1>5. ASSUME NEW u \in net'
      PROVE  u.kind = "sign" /\ u.composition \in unanswered' /\ RequestInv(u)'
  <2>1. PICK r \in net : r.kind = "sign" /\ u = [r EXCEPT !.provider = None]
    BY <1>1 DEF Unheard
  <2>2. r \in Request /\ RequestInv(r)
    BY OnItsWay
  <2>3. /\ u.kind = "sign" /\ u.composition = r.composition /\ u.provider = None
        /\ u.profile = r.profile /\ u.run = r.run /\ u.choices = r.choices
    BY <2>1, <2>2 DEF Request
  <2>4. SignatureInv(u)' /\ u.composition \in 1..composition'
    BY <1>1, <1>3, <2>1, <2>2, <2>3 DEF RequestInv, SignatureInv
  <2> QED
    BY <1>4, <2>1, <2>3, <2>4 DEF RequestInv
<1>6. ASSUME NEW c \in 1..composition', c \notin unanswered' PROVE SignedOnce(c)'
  <2>1. Pending(c)' = {} /\ SignedIn(c)' = SignedIn(c)
    BY <1>1, <1>5, <1>6 DEF Pending, SignedIn
  <2>2. CASE c \notin 1..composition
    <3>1. SignedIn(c) = {}
      BY <2>2 DEF SignedIn, ClientInv, Types, TypeOK
    <3> QED
      BY <2>1, <3>1 DEF SignedOnce
  <2>3. CASE c \in 1..composition
    <3>1. SignedOnce(c) /\ Pending(c) = {}
      BY <1>1, <1>4, <1>6, <2>3 DEF ClientInv, Pending
    <3>2. c = composition' => SignedIn(c) = {}
      BY <1>2, <1>3, <2>3, <3>1 DEF SignedOnce
    <3> QED
      BY <2>1, <3>1, <3>2 DEF SignedOnce
  <2> QED
    BY <2>2, <2>3
<1>7. NothingCrossesButLateAnswers'
  BY <1>1, <1>2 DEF ClientInv, NothingCrossesButLateAnswers
<1>8. GapsUnselected'
  BY <1>2 DEF ClientInv, GapsUnselected
<1> QED
  BY <1>5, <1>6, <1>7, <1>8 DEF ClientInv

-----------------------------------------------------------------------------
\* The page finds a draft at most.
LEMMA ClientStart == Init => ClientInv
<1> SUFFICES ASSUME Init PROVE ClientInv
  OBVIOUS
<1>1. Len(runs) = 0 /\ runs \in Seq([profile : Complete, composition : Nat])
  BY DEF Init
<1>2. Types
  BY <1>1, BoundAssumption DEF Init, Types, TypeOK, None
<1> QED
  BY <1>2 DEF Init, ClientInv, GapsUnselected, SignedOnce, Pending, SignedIn,
              NothingCrossesButLateAnswers

\* Every step keeps the invariant.
LEMMA ClientStep == ClientInv /\ [Next]_vars => ClientInv'
<1> SUFFICES ASSUME ClientInv, [Next]_vars PROVE ClientInv'
  OBVIOUS
<1>1. CASE Operator
  <2>1. Types'
    BY <1>1, OperatorTypes DEF ClientInv
  <2> QED
    BY <1>1, <2>1, ComposingKept, ResetKept, ReloadKept
<1>2. ASSUME NEW r \in net, Handle(r) \/ Answer(r) \/ TimeOut(r) PROVE ClientInv'
  <2>1. Types'
    BY <1>2, AnswerTypes DEF ClientInv
  <2> QED
    BY <1>2, <2>1, HandleKept, AnswerKept, TimeOutKept
<1>3. CASE UNCHANGED vars
  <2>1. /\ Undisturbed /\ net' = net /\ working' = working /\ candidates' = candidates
        /\ writers' = writers /\ draft' = draft /\ selections' = selections
        /\ reasons' = reasons /\ gaps' = gaps
    BY <1>3 DEF vars, store, screen, mounted, server, history, Undisturbed
  <2>2. Types' /\ GapsUnselected'
    BY <2>1 DEF ClientInv, Types, TypeOK, GapsUnselected, Undisturbed
  <2> QED
    BY <2>1, <2>2, LocalStep
<1> QED
  BY <1>1, <1>2, <1>3 DEF Next

\* The invariant the theorems below are read off.
LEMMA ClientInvariant == Spec => []ClientInv
BY ClientStart, ClientStep, PTL DEF Spec

-----------------------------------------------------------------------------
\* The store, the screen and the requests keep their types.
THEOREM ClientTypeCorrect == Spec => []TypeOK
<1>1. ClientInv => TypeOK
  BY DEF ClientInv, Types
<1> QED
  BY <1>1, ClientInvariant, PTL

\* No signature on its way holds opposite decisions.
THEOREM SignaturesCoherent == Spec => []SentIsCoherent
<1>1. ClientInv => SentIsCoherent
  BY DEF ClientInv, SentIsCoherent, RequestInv, SignatureInv
<1> QED
  BY <1>1, ClientInvariant, PTL

\* The server refuses a signature over another draft or a run that is signed, and
\* otherwise only one with nothing in it or with a decision twice in it.
THEOREM RefusedForAReason == Spec => []RefusedOnlyForKnownReasons
<1>1. ClientInv => RefusedOnlyForKnownReasons
  <2> SUFFICES ASSUME ClientInv, NEW r \in net, r.kind = "sign", ~Admitted(r),
                      runs[r.run].profile = r.profile, ~AlreadySigned(r.run)
               PROVE  \/ r.choices = {} /\ NothingToDecide(r.profile)
                      \/ Repeated(r.choices) /\ RowsShareKey(r.profile)
    BY DEF RefusedOnlyForKnownReasons
  <2>1. /\ Coherent(r.choices) /\ MandatesClosed(r.profile, r.choices)
        /\ r.choices = {} => NothingToDecide(r.profile)
        /\ \A c \in r.choices : /\ c \in Choice /\ c.row \in Engine[r.profile].rows
                                /\ c.key = Engine[r.profile].key[c.row]
    BY DEF ClientInv, RequestInv, SignatureInv, Acceptable
  <2>2. r.choices = {} \/ Repeated(r.choices)
    BY <2>1 DEF Admitted
  <2>3. Repeated(r.choices) => RowsShareKey(r.profile)
    <3> SUFFICES ASSUME NEW c \in r.choices, NEW d \in r.choices, c # d,
                        c.key = d.key, c.kind = d.kind, c.control = d.control
                 PROVE  RowsShareKey(r.profile)
      BY DEF Repeated
    <3>1. c.row # d.row
      BY <2>1 DEF Choice
    <3> QED
      BY <2>1, <3>1 DEF RowsShareKey
  <2> QED
    BY <2>1, <2>2, <2>3
<1> QED
  BY <1>1, ClientInvariant, PTL

\* A composition becomes two baselines only after a signature went unanswered.
THEOREM TwiceOnlyIfUnanswered == Spec => []SignedAgainOnlyIfUnanswered
<1>1. ClientInv => SignedAgainOnlyIfUnanswered
  <2> SUFFICES ASSUME ClientInv, NEW a \in baselines, NEW b \in baselines,
                      a.composition = b.composition, a.composition \notin unanswered
               PROVE  a = b
    BY DEF SignedAgainOnlyIfUnanswered
  <2>1. a.composition \in 1..composition
    BY DEF ClientInv, Types, TypeOK
  <2>2. SignedOnce(a.composition)
    BY <2>1 DEF ClientInv
  <2> QED
    BY <2>2 DEF SignedOnce, SignedIn
<1> QED
  BY <1>1, ClientInvariant, PTL

\* What is shown and kept is of the composition at hand, but for an answer the
\* one before it was left waiting for.
THEOREM NothingElseCrosses == Spec => []NothingCrossesButLateAnswers
<1>1. ClientInv => NothingCrossesButLateAnswers
  BY DEF ClientInv
<1> QED
  BY <1>1, ClientInvariant, PTL
=============================================================================
