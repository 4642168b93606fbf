---------------------------- MODULE ProfileDraft ----------------------------
(***************************************************************************)
(* The draft of an asset profile: what the model proposed, what the        *)
(* operator makes of it click by click (StageAsset.tsx, with the           *)
(* corrections that session.ts records), and its promotion into the        *)
(* profile the core runs on, which exists twice: in the server             *)
(* (parse/completion.py) and, transcribed, in the client (lib/draft.ts).   *)
(*                                                                         *)
(* A zone is found by its id in the corrections, in the list of what is    *)
(* missing and in the engine, and by its index in the forms: adding,       *)
(* removing and renaming zones is where the two part.                      *)
(***************************************************************************)
EXTENDS Naturals, Sequences

CONSTANTS FR,           \* FR_FIELDS
          NatureField,  \* NATURE_FIELDS
          Sector,
          MaxLevel,     \* highest security level
          MaxCase, MaxScale,
          ZoneId,       \* what a zone may be renamed to
          Proposal,     \* the drafts a parse may answer
          MaxEdits      \* bound: what the operator does

ASSUME EditsAssumption == MaxEdits \in Nat
ASSUME LevelAssumption == MaxLevel \in Nat \ {0}
ASSUME ChoiceAssumption == MaxCase \in Nat /\ MaxScale \in Nat
\* Every field of a zone has a name of its own.
ASSUME FieldsAssumption ==
    FR \cap NatureField = {} /\ {"target_sl", "sectors"} \cap (FR \cup NatureField) = {}
ASSUME ZoneIdAssumption == ZoneId \subseteq Nat

\* Nothing stated: null.  Every field of a draft has it as one of its values.
None == 0

\* A text is null, "" or written.  A flag of a nature is null, true or false.
Empty == 1
Written == 2
Text == {None, Empty, Written}
TriState == 0..2

\* Python's and JavaScript's "not text".
Falsy(text) == text \in {None, Empty}

\* Z-1 is 1, and so on.  A zone whose id was deleted has none.
NoId == 0

\* An optional object is a set of at most one.
Vector == [FR -> 0..MaxLevel]
SLVectorDraft == {{}} \cup {{v} : v \in Vector}

ZoneDraft == [id : Nat, target_sl : 0..MaxLevel, nature : [NatureField -> TriState],
              sl_vector : SLVectorDraft, sectors : SUBSET Sector]
ConduitDraft == [id : Nat, endpoints : BOOLEAN, control : Text]
CriticalityDraft == [physical_consequence : Text, threat_model : Text, scale : 0..MaxScale]
AssetProfileDraft == [name : Text, case : 0..MaxCase, sectors : SUBSET Sector,
                      zones : Seq(ZoneDraft), conduits : Seq(ConduitDraft),
                      criticality : CriticalityDraft]

\* A zone the operator adds by hand, with every premise undeclared.
EmptyZone(id) ==
    [id |-> id, target_sl |-> None, nature |-> [f \in NatureField |-> None],
     sl_vector |-> {}, sectors |-> {}]

\* A draft with nothing in it.
Blank(zones) ==
    [name |-> None, case |-> None, sectors |-> {}, zones |-> zones, conduits |-> << >>,
     criticality |-> [physical_consequence |-> None, threat_model |-> None, scale |-> None]]

\* What a parse answers is a draft of the schema.
ASSUME ProposalAssumption == Proposal \subseteq AssetProfileDraft

VARIABLES draft,        \* the draft on the screen
          modelDraft,   \* what the model proposed; a blank one if there was no parse
          corrections,  \* session.ts: path |-> what it was and what it became
          started,      \* a draft was started
          moved,        \* a zone was removed or renamed since (history)
          edits

vars == <<draft, modelDraft, corrections, started, moved, edits>>

-----------------------------------------------------------------------------
(***************************************************************************)
(* Paths                                                                   *)
(***************************************************************************)
\* "criticality.scale", "zones[Z-1].target_sl", "conduits[0].control".
Path(part, id, at, field) == [part |-> part, id |-> id, at |-> at, field |-> field]
Top(field) == Path("draft", NoId, 0, field)

\* What is missing is listed by id, or by index where there is no id.
Listed(part, seq, i, fields) ==
    {Path(part, seq[i].id, IF seq[i].id = NoId THEN i ELSE 0, f) : f \in fields}

\* A field, where there is nothing in it.
Gap(field, missing) == {f \in {field} : missing}

\* A correction is recorded by id alone.
OfZone(i, field) == Path("zones", draft.zones[i].id, 0, field)

-----------------------------------------------------------------------------
(***************************************************************************)
(* The server: completion.py                                               *)
(***************************************************************************)
\* An SL vector is all seven FRs or none.
MissingSLVector(v) == IF \A fr \in FR : v[fr] = None THEN {} ELSE {fr \in FR : v[fr] = None}

MissingInZone(zone) ==
    Gap("target_sl", zone.target_sl = None)
    \cup {f \in NatureField : zone.nature[f] = None}
    \cup UNION {MissingSLVector(v) : v \in zone.sl_vector}

MissingInConduit(conduit) ==
    Gap("endpoints", ~conduit.endpoints) \cup Gap("control", Falsy(conduit.control))

MissingInCriticality(criticality) ==
    {f \in {"physical_consequence", "scale", "threat_model"} : criticality[f] = None}

MissingRequired(d) ==
    {Top(f) : f \in Gap("name", Falsy(d.name)) \cup Gap("case", d.case = None)
                    \cup Gap("sectors", d.sectors = {}) \cup Gap("zones", d.zones = << >>)
                    \cup MissingInCriticality(d.criticality)}
    \cup (UNION {Listed("zones", d.zones, i, MissingInZone(d.zones[i])) : i \in DOMAIN d.zones})
    \cup (UNION {Listed("conduits", d.conduits, i, MissingInConduit(d.conduits[i])) :
                     i \in DOMAIN d.conduits})

\* model_dump(exclude_none=True) of a vector: an object, be it an empty one.
Dumped(v) == [fr \in {x \in FR : v[x] # None} |-> v[fr]]

ToProfile(d) ==
    [d EXCEPT !.zones = [i \in DOMAIN d.zones |->
        [d.zones[i] EXCEPT !.sl_vector = {Dumped(v) : v \in d.zones[i].sl_vector}]]]

\* AssetProfile.model_validate: nothing required is null, a vector has all its FRs.
Valid(profile) ==
    /\ profile.name # None /\ profile.case # None
    /\ MissingInCriticality(profile.criticality) = {}
    /\ \A i \in DOMAIN profile.conduits : profile.conduits[i].control # None
    /\ \A i \in DOMAIN profile.zones :
          LET zone == profile.zones[i] IN
          /\ zone.target_sl # None
          /\ \A f \in NatureField : zone.nature[f] # None
          /\ \A v \in zone.sl_vector : DOMAIN v = FR /\ \A fr \in FR : v[fr] # None

-----------------------------------------------------------------------------
(***************************************************************************)
(* The client: draft.ts                                                    *)
(***************************************************************************)
WholeVector(v) == \A fr \in FR : v[fr] # None

MissingSLVectorAtClient(v) ==
    LET present == {fr \in FR : v[fr] # None}
    IN  IF present = {} THEN {} ELSE FR \ present

MissingInZoneAtClient(zone) ==
    Gap("target_sl", zone.target_sl = None)
    \cup {f \in NatureField : zone.nature[f] = None}
    \cup UNION {MissingSLVectorAtClient(v) : v \in zone.sl_vector}

MissingInConduitAtClient(conduit) ==
    Gap("endpoints", ~conduit.endpoints) \cup Gap("control", Falsy(conduit.control))

MissingAtClient(d) ==
    {Top(f) : f \in Gap("name", Falsy(d.name)) \cup Gap("case", d.case = None)
                    \cup Gap("zones", d.zones = << >>)
                    \cup {f \in DOMAIN d.criticality : d.criticality[f] = None}}
    \cup (UNION {Listed("zones", d.zones, i, MissingInZoneAtClient(d.zones[i])) :
                     i \in DOMAIN d.zones})
    \cup (UNION {Listed("conduits", d.conduits, i, MissingInConduitAtClient(d.conduits[i])) :
                     i \in DOMAIN d.conduits})

\* Faulty variant of ZoneOf: the vector is passed on as it stands in the draft.
ZoneWithDraftVector(zone) == zone

\* A vector that is not whole is left out of the profile.
ZoneOf(zone) == [zone EXCEPT !.sl_vector = {v \in zone.sl_vector : WholeVector(v)}]

ToProfileAtClient(d) ==
    [d EXCEPT !.zones = [i \in DOMAIN d.zones |-> ZoneOf(d.zones[i])]]

\* What the core runs on, while nothing is missing.
Promoted == started /\ MissingAtClient(draft) = {}
profile == ToProfileAtClient(draft)

-----------------------------------------------------------------------------
(***************************************************************************)
(* What the operator does                                                  *)
(***************************************************************************)
Init ==
    /\ draft = Blank(<< >>)
    /\ modelDraft = Blank(<< >>)
    /\ corrections = << >>
    /\ started = FALSE
    /\ moved = FALSE
    /\ edits = 0

Count == edits < MaxEdits /\ edits' = edits + 1

\* A parse is answered, on a screen with or without a draft (startParsed).
StartParsed(proposal) ==
    /\ Count
    /\ draft' = proposal
    /\ modelDraft' = proposal
    /\ corrections' = << >>
    /\ started' = TRUE
    /\ moved' = FALSE

StartManual ==
    /\ Count
    /\ draft' = Blank(<<EmptyZone(1)>>)
    /\ modelDraft' = Blank(<< >>)
    /\ corrections' = << >>
    /\ started' = TRUE
    /\ moved' = FALSE

\* Faulty variant of RecordCorrection: what was put back stays listed.
RecordUndone(path, from, to) ==
    corrections' = [p \in DOMAIN corrections \cup {path} |->
                       IF p = path THEN [from |-> from, to |-> to] ELSE corrections[p]]

\* recordCorrection: one entry per path, and none for what is undone.
RecordCorrection(path, from, to) ==
    LET rest  == DOMAIN corrections \ {path}
        paths == IF from = to THEN rest ELSE rest \cup {path}
    IN  corrections' = [p \in paths |->
                           IF p = path THEN [from |-> from, to |-> to] ELSE corrections[p]]

Patch(next) == started /\ Count /\ draft' = next /\ UNCHANGED <<modelDraft, started>>

\* An edit of a part that has no corrections.
Unrecorded == UNCHANGED <<corrections, moved>>

\* What the model proposed for the zone at an index, if it proposed as many.
Proposed(i) == IF i \in DOMAIN modelDraft.zones THEN modelDraft.zones[i] ELSE EmptyZone(NoId)

AddZone ==
    /\ Patch([draft EXCEPT !.zones = Append(@, EmptyZone(Len(@) + 1))])
    /\ Unrecorded

RemoveZone(i) ==
    /\ Len(draft.zones) > 1
    /\ Patch([draft EXCEPT !.zones = SubSeq(@, 1, i - 1) \o SubSeq(@, i + 1, Len(@))])
    /\ moved' = TRUE
    /\ UNCHANGED corrections

RenameZone(i, id) ==
    /\ Patch([draft EXCEPT !.zones[i].id = id])
    /\ moved' = TRUE
    /\ UNCHANGED corrections

\* 1, 2, ..., and round again.
CorrectTargetSL(i) ==
    LET value == (draft.zones[i].target_sl % MaxLevel) + 1 IN
    /\ Patch([draft EXCEPT !.zones[i].target_sl = value])
    /\ RecordCorrection(OfZone(i, "target_sl"), Proposed(i).target_sl, value)
    /\ UNCHANGED moved

LevelIn(vector, fr) == IF vector = {} THEN None ELSE (CHOOSE v \in vector : TRUE)[fr]

\* 1, 2, ..., then back to not stated, in a vector that stays.
CorrectSL(i, fr) ==
    LET vector == draft.zones[i].sl_vector
        value  == (LevelIn(vector, fr) + 1) % (MaxLevel + 1)
        next   == [x \in FR |-> IF x = fr THEN value ELSE LevelIn(vector, x)] IN
    /\ Patch([draft EXCEPT !.zones[i].sl_vector = {next}])
    /\ RecordCorrection(OfZone(i, fr), LevelIn(Proposed(i).sl_vector, fr), value)
    /\ UNCHANGED moved

\* true, false, then back to not stated.
CorrectNature(i, field) ==
    LET value == (draft.zones[i].nature[field] + 1) % 3 IN
    /\ Patch([draft EXCEPT !.zones[i].nature[field] = value])
    /\ RecordCorrection(OfZone(i, field), Proposed(i).nature[field], value)
    /\ UNCHANGED moved

Toggled(set, x) == (set \ {x}) \cup ({x} \ set)

ToggleZoneSector(i, sector) ==
    LET next == Toggled(draft.zones[i].sectors, sector) IN
    /\ Patch([draft EXCEPT !.zones[i].sectors = next])
    /\ RecordCorrection(OfZone(i, "sectors"), Proposed(i).sectors, next)
    /\ UNCHANGED moved

ToggleSector(sector) ==
    LET next == Toggled(draft.sectors, sector) IN
    /\ Patch([draft EXCEPT !.sectors = next])
    /\ RecordCorrection(Top("sectors"), modelDraft.sectors, next)
    /\ UNCHANGED moved

\* What is typed is stored as null when nothing is left of it.
EditName(text) ==
    /\ Patch([draft EXCEPT !.name = text])
    /\ RecordCorrection(Top("name"), modelDraft.name, text)
    /\ UNCHANGED moved

ChooseCase(value) ==
    /\ Patch([draft EXCEPT !.case = value])
    /\ RecordCorrection(Top("case"), modelDraft.case, value)
    /\ UNCHANGED moved

EditCriticality(field, value) ==
    /\ Patch([draft EXCEPT !.criticality[field] = value])
    /\ RecordCorrection(Top(field), modelDraft.criticality[field], value)
    /\ UNCHANGED moved

AddConduit ==
    /\ Patch([draft EXCEPT !.conduits =
                 Append(@, [id |-> Len(@) + 1, endpoints |-> FALSE, control |-> None])])
    /\ Unrecorded

RemoveConduit(i) ==
    /\ Patch([draft EXCEPT !.conduits = SubSeq(@, 1, i - 1) \o SubSeq(@, i + 1, Len(@))])
    /\ Unrecorded

RenameConduit(i, id) ==
    /\ Patch([draft EXCEPT !.conduits[i].id = id])
    /\ Unrecorded

EditEndpoints(i, given) ==
    /\ Patch([draft EXCEPT !.conduits[i].endpoints = given])
    /\ Unrecorded

EditControl(i, text) ==
    /\ Patch([draft EXCEPT !.conduits[i].control = text])
    /\ Unrecorded

EditZones ==
    \/ AddZone
    \/ \E i \in DOMAIN draft.zones :
          \/ RemoveZone(i)
          \/ \E id \in ZoneId : RenameZone(i, id)
          \/ CorrectTargetSL(i)
          \/ \E fr \in FR : CorrectSL(i, fr)
          \/ \E field \in NatureField : CorrectNature(i, field)
          \/ \E sector \in Sector : ToggleZoneSector(i, sector)

EditAsset ==
    \/ \E sector \in Sector : ToggleSector(sector)
    \/ \E text \in {None, Written} :
          \/ EditName(text)
          \/ \E field \in {"physical_consequence", "threat_model"} : EditCriticality(field, text)
    \/ \E value \in 1..MaxCase : ChooseCase(value)
    \/ \E value \in 1..MaxScale : EditCriticality("scale", value)

EditConduits ==
    \/ AddConduit
    \/ \E i \in DOMAIN draft.conduits :
          \/ RemoveConduit(i)
          \/ \E id \in ZoneId : RenameConduit(i, id)
          \/ \E given \in BOOLEAN : EditEndpoints(i, given)
          \/ \E text \in {None, Written} : EditControl(i, text)

Next ==
    \/ \E proposal \in Proposal : StartParsed(proposal)
    \/ StartManual
    \/ EditZones \/ EditAsset \/ EditConduits

Spec == Init /\ [][Next]_vars

-----------------------------------------------------------------------------
(***************************************************************************)
(* Properties                                                              *)
(***************************************************************************)
\* The draft has the shape of its schema, each value within its bounds.
TypeOK ==
    /\ draft \in AssetProfileDraft
    /\ modelDraft \in Proposal \cup {Blank(<< >>)}
    /\ started \in BOOLEAN /\ moved \in BOOLEAN
    /\ edits \in 0..MaxEdits

\* The list the client keeps while the operator types is the one the server would
\* compute of the same draft, but for the sectors: whatever was added, blanked,
\* half filled in or renamed, neither sees a gap the other does not.
SameList ==
    started => MissingRequired(draft)
                 = MissingAtClient(draft) \cup {p \in {Top("sectors")} : draft.sectors = {}}

\* What the core runs on is a profile the server accepts, and holds what the
\* operator reviewed: no level that was stated is dropped on the way, though
\* ZoneOf leaves out a vector that is not whole and a vector cycled back to
\* nothing stays in the draft; and where the server promotes the draft too, it
\* makes the same profile of it.
SameProfile ==
    Promoted =>
        /\ Valid(profile)
        /\ \A i \in DOMAIN draft.zones, fr \in FR :
              LevelIn(profile.zones[i].sl_vector, fr) = LevelIn(draft.zones[i].sl_vector, fr)
        /\ MissingRequired(draft) = {} /\ Valid(ToProfile(draft)) => ToProfile(draft) = profile

\* What a draft lacks and what becomes of it are written twice, in Python
\* (completion.py) and in TypeScript (draft.ts): through any edits the two agree.
WrittenTwiceAgrees == SameList /\ SameProfile

IdsApart(d) == \A i, j \in DOMAIN d.zones : d.zones[i].id = d.zones[j].id => i = j

\* What a draft says at the paths whose corrections are recorded.
AssetField == {"name", "case", "sectors", "physical_consequence", "threat_model", "scale"}
ZoneField == {"target_sl", "sectors"} \cup NatureField \cup FR

AssetSays(d) ==
    [f \in AssetField |-> IF f \in {"name", "case", "sectors"} THEN d[f] ELSE d.criticality[f]]

ZoneSays(zone) ==
    [f \in ZoneField |-> CASE f \in {"target_sl", "sectors"} -> zone[f]
                           [] f \in NatureField -> zone.nature[f]
                           [] OTHER -> LevelIn(zone.sl_vector, f)]

\* A path is listed if it differs, with both of its values.
Accounted(path, from, to) ==
    /\ path \in DOMAIN corrections <=> from # to
    /\ from # to => corrections[path] = [from |-> from, to |-> to]

\* While no zone was removed or renamed, and no two share an id, the corrections
\* the operator is shown before signing are the differences between the model's
\* draft and theirs: nothing changed goes unlisted, nothing put back is listed,
\* and each says what the model proposed and what is now in the draft
\* (session.ts, recordCorrection).
CorrectionsAreTheDifference ==
    ~moved /\ IdsApart(draft) =>
        /\ \A f \in AssetField : Accounted(Top(f), AssetSays(modelDraft)[f], AssetSays(draft)[f])
        /\ \A i \in DOMAIN draft.zones, f \in ZoneField :
              Accounted(OfZone(i, f), ZoneSays(Proposed(i))[f], ZoneSays(draft.zones[i])[f])
        /\ \A p \in DOMAIN corrections :
              \/ \E f \in AssetField : p = Top(f)
              \/ \E i \in DOMAIN draft.zones, f \in ZoneField : p = OfZone(i, f)

=============================================================================
