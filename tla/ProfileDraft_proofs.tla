------------------------ MODULE ProfileDraft_proofs -------------------------
(***************************************************************************)
(* Proofs about ProfileDraft: what is missing, what is promoted and what   *)
(* was corrected, for any proposals, requirements, levels and edits.       *)
(***************************************************************************)
EXTENDS ProfileDraft, SequenceTheorems, TLAPS

-----------------------------------------------------------------------------
(***************************************************************************)
(* Types                                                                   *)
(***************************************************************************)
LEMMA EmptyZoneIsDraft ==
    ASSUME NEW id \in Nat
    PROVE  EmptyZone(id) \in ZoneDraft /\ <<EmptyZone(id)>> \in Seq(ZoneDraft)
BY LevelAssumption DEF EmptyZone, ZoneDraft, SLVectorDraft, TriState, None

LEMMA BlankIsDraft ==
    ASSUME NEW zones \in Seq(ZoneDraft)
    PROVE  Blank(zones) \in AssetProfileDraft
BY ChoiceAssumption DEF Blank, AssetProfileDraft, CriticalityDraft, Text, None

\* A draft whose zones, or a part of whose asset, are replaced.
LEMMA ZonesReplaced ==
    ASSUME NEW d \in AssetProfileDraft, NEW zones \in Seq(ZoneDraft)
    PROVE  [d EXCEPT !.zones = zones] \in AssetProfileDraft
BY DEF AssetProfileDraft

LEMMA ZoneReplaced ==
    ASSUME NEW d \in AssetProfileDraft, NEW i \in DOMAIN d.zones, NEW zone \in ZoneDraft
    PROVE  /\ [d EXCEPT !.zones[i] = zone] \in AssetProfileDraft
           /\ [d EXCEPT !.zones[i] = zone].zones = [d.zones EXCEPT ![i] = zone]
<1>1. d.zones \in Seq(ZoneDraft)
  BY DEF AssetProfileDraft
<1>2. [d.zones EXCEPT ![i] = zone] \in Seq(ZoneDraft)
  BY <1>1
<1>3. [d EXCEPT !.zones[i] = zone] = [d EXCEPT !.zones = [d.zones EXCEPT ![i] = zone]]
  BY DEF AssetProfileDraft
<1> QED
  BY <1>2, <1>3, ZonesReplaced DEF AssetProfileDraft

LEMMA LevelInRange ==
    ASSUME NEW vector \in SLVectorDraft, NEW fr \in FR
    PROVE  LevelIn(vector, fr) \in 0..MaxLevel
<1>1. CASE vector = {}
  BY <1>1, LevelAssumption DEF LevelIn, None
<1>2. CASE vector # {}
  <2>1. PICK v \in Vector : vector = {v}
    BY <1>2 DEF SLVectorDraft
  <2>2. (CHOOSE w \in vector : TRUE) = v
    BY <2>1
  <2> QED
    BY <1>2, <2>1, <2>2 DEF LevelIn, Vector
<1> QED
  BY <1>1, <1>2

\* The fields that say nothing of a value are the same.
LEMMA ZoneSaysByField ==
    ASSUME NEW zone \in ZoneDraft, NEW f \in ZoneField
    PROVE  /\ f = "target_sl" => ZoneSays(zone)[f] = zone.target_sl
           /\ f = "sectors" => ZoneSays(zone)[f] = zone.sectors
           /\ f \in NatureField => ZoneSays(zone)[f] = zone.nature[f]
           /\ f \in FR => ZoneSays(zone)[f] = LevelIn(zone.sl_vector, f)
BY FieldsAssumption DEF ZoneSays, ZoneField

\* Zones that say nothing say the same, whatever they are called.
LEMMA EmptiesSayTheSame ==
    ASSUME NEW a \in Nat, NEW b \in Nat, NEW f \in ZoneField
    PROVE  ZoneSays(EmptyZone(a))[f] = ZoneSays(EmptyZone(b))[f]
<1>1. /\ EmptyZone(a) \in ZoneDraft /\ EmptyZone(b) \in ZoneDraft
      /\ EmptyZone(a).target_sl = EmptyZone(b).target_sl
      /\ EmptyZone(a).sectors = EmptyZone(b).sectors
      /\ EmptyZone(a).nature = EmptyZone(b).nature
      /\ EmptyZone(a).sl_vector = EmptyZone(b).sl_vector
  BY EmptyZoneIsDraft DEF EmptyZone
<1> QED
  BY <1>1, ZoneSaysByField DEF ZoneField

-----------------------------------------------------------------------------
(***************************************************************************)
(* The invariant                                                           *)
(***************************************************************************)
\* No zone the model proposed is missing unless one was removed.
ZonesKept == ~moved => Len(modelDraft.zones) <= Len(draft.zones)

DraftInv == TypeOK /\ ZonesKept /\ CorrectionsAreTheDifference

\* A correction that is recorded accounts for its path and no other.
LEMMA RecordsOnePath ==
    ASSUME NEW path, NEW from, NEW to, RecordCorrection(path, from, to)
    PROVE  /\ path \in DOMAIN corrections' <=> from # to
           /\ from # to => corrections'[path] = [from |-> from, to |-> to]
           /\ \A q : q # path =>
                 /\ q \in DOMAIN corrections' <=> q \in DOMAIN corrections
                 /\ q \in DOMAIN corrections => corrections'[q] = corrections[q]
<1> DEFINE rest  == DOMAIN corrections \ {path}
           paths == IF from = to THEN rest ELSE rest \cup {path}
<1>1. corrections' = [p \in paths |->
                        IF p = path THEN [from |-> from, to |-> to] ELSE corrections[p]]
  BY DEF RecordCorrection
<1>2. DOMAIN corrections' = paths
  BY <1>1
<1>3. \A p \in paths : corrections'[p] = IF p = path THEN [from |-> from, to |-> to]
                                                     ELSE corrections[p]
  BY <1>1
<1> QED
  BY <1>2, <1>3

\* Paths of different fields, and of zones that are apart, are different.
LEMMA PathsApart ==
    /\ \A f, g : Top(f) = Top(g) => f = g
    /\ \A f, i, g : Top(f) # OfZone(i, g)
    /\ \A i, j, f, g : OfZone(i, f) = OfZone(j, g) => f = g /\ draft.zones[i].id = draft.zones[j].id
BY DEF Top, OfZone, Path

\* What the model proposed is a draft, and so is each zone it is compared with.
LEMMA ModelIsDraft ==
    ASSUME TypeOK
    PROVE  /\ modelDraft \in AssetProfileDraft
           /\ modelDraft.zones \in Seq(ZoneDraft)
           /\ \A i \in Nat : Proposed(i) \in ZoneDraft
<1>1. << >> \in Seq(ZoneDraft)
  OBVIOUS
<1>2. Blank(<< >>) \in AssetProfileDraft
  BY <1>1, BlankIsDraft
<1>3. modelDraft \in AssetProfileDraft
  BY <1>2, ProposalAssumption DEF TypeOK
<1>4. modelDraft.zones \in Seq(ZoneDraft)
  BY <1>3 DEF AssetProfileDraft
<1> QED
  BY <1>3, <1>4, EmptyZoneIsDraft DEF Proposed, NoId

-----------------------------------------------------------------------------
(***************************************************************************)
(* Kinds of edits                                                          *)
(***************************************************************************)
\* What the zones and the asset say is left alone, and so are the corrections.
LEMMA QuietEdit ==
    ASSUME DraftInv, NEW next \in AssetProfileDraft,
           next.zones = draft.zones, AssetSays(next) = AssetSays(draft),
           Patch(next), Unrecorded
    PROVE  DraftInv'
<1>1. TypeOK'
  BY EditsAssumption DEF DraftInv, TypeOK, Patch, Count, Unrecorded
<1>2. ZonesKept'
  BY DEF DraftInv, ZonesKept, Patch, Unrecorded
<1>3. CorrectionsAreTheDifference'
  BY DEF DraftInv, CorrectionsAreTheDifference, Patch, Unrecorded, Accounted, Proposed, IdsApart,
         OfZone
<1> QED
  BY <1>1, <1>2, <1>3 DEF DraftInv

\* One field of the asset is changed, and recorded.
LEMMA AssetEdit ==
    ASSUME DraftInv, NEW next \in AssetProfileDraft, NEW f \in AssetField,
           next.zones = draft.zones,
           \A g \in AssetField \ {f} : AssetSays(next)[g] = AssetSays(draft)[g],
           Patch(next), UNCHANGED moved,
           RecordCorrection(Top(f), AssetSays(modelDraft)[f], AssetSays(next)[f])
    PROVE  DraftInv'
<1>1. TypeOK'
  BY EditsAssumption DEF DraftInv, TypeOK, Patch, Count
<1>2. ZonesKept'
  BY DEF DraftInv, ZonesKept, Patch
<1>3. CorrectionsAreTheDifference'
  <2> SUFFICES ASSUME ~moved', IdsApart(draft')
               PROVE  /\ \A g \in AssetField :
                            Accounted(Top(g), AssetSays(modelDraft)[g], AssetSays(draft)[g])'
                      /\ \A i \in DOMAIN draft'.zones, g \in ZoneField :
                            Accounted(OfZone(i, g), ZoneSays(Proposed(i))[g],
                                      ZoneSays(draft.zones[i])[g])'
                      /\ \A p \in DOMAIN corrections' :
                            \/ \E g \in AssetField : p = Top(g)
                            \/ \E i \in DOMAIN draft'.zones, g \in ZoneField : p = OfZone(i, g)'
    BY DEF CorrectionsAreTheDifference
  <2>1. /\ draft' = next /\ UNCHANGED modelDraft
        /\ \A i : Proposed(i)' = Proposed(i)
        /\ \A i, g : OfZone(i, g)' = OfZone(i, g)
    BY DEF Patch, Proposed, OfZone
  <2>2. ~moved /\ IdsApart(draft)
    BY <2>1 DEF IdsApart
  <2>3. /\ Top(f) \in DOMAIN corrections' <=> AssetSays(modelDraft)[f] # AssetSays(next)[f]
        /\ AssetSays(modelDraft)[f] # AssetSays(next)[f] =>
              corrections'[Top(f)] = [from |-> AssetSays(modelDraft)[f], to |-> AssetSays(next)[f]]
        /\ \A q : q # Top(f) =>
              /\ q \in DOMAIN corrections' <=> q \in DOMAIN corrections
              /\ q \in DOMAIN corrections => corrections'[q] = corrections[q]
    BY RecordsOnePath
  <2>4. ASSUME NEW g \in AssetField
        PROVE  Accounted(Top(g), AssetSays(modelDraft)[g], AssetSays(draft)[g])'
    BY <2>1, <2>2, <2>3, PathsApart DEF DraftInv, CorrectionsAreTheDifference, Accounted
  <2>5. ASSUME NEW i \in DOMAIN draft'.zones, NEW g \in ZoneField
        PROVE  Accounted(OfZone(i, g), ZoneSays(Proposed(i))[g], ZoneSays(draft.zones[i])[g])'
    <3>1. OfZone(i, g) # Top(f)
      BY PathsApart
    <3>2. Accounted(OfZone(i, g), ZoneSays(Proposed(i))[g], ZoneSays(draft.zones[i])[g])
      BY <2>1, <2>2 DEF DraftInv, CorrectionsAreTheDifference
    <3> QED
      BY <2>1, <2>3, <3>1, <3>2 DEF Accounted
  <2>6. ASSUME NEW p \in DOMAIN corrections'
        PROVE  \/ \E g \in AssetField : p = Top(g)
               \/ \E i \in DOMAIN draft'.zones, g \in ZoneField : p = OfZone(i, g)'
    BY <2>1, <2>2, <2>3 DEF DraftInv, CorrectionsAreTheDifference
  <2> QED
    BY <2>4, <2>5, <2>6
<1> QED
  BY <1>1, <1>2, <1>3 DEF DraftInv

\* One field of a zone is changed, and recorded.
LEMMA ZoneEdit ==
    ASSUME DraftInv, NEW i \in DOMAIN draft.zones, NEW zone \in ZoneDraft, NEW f \in ZoneField,
           zone.id = draft.zones[i].id,
           \A g \in ZoneField \ {f} : ZoneSays(zone)[g] = ZoneSays(draft.zones[i])[g],
           Patch([draft EXCEPT !.zones[i] = zone]), UNCHANGED moved,
           RecordCorrection(OfZone(i, f), ZoneSays(Proposed(i))[f], ZoneSays(zone)[f])
    PROVE  DraftInv'
<1>1. TypeOK'
  <2>1. draft' \in AssetProfileDraft
    BY ZoneReplaced DEF DraftInv, TypeOK, Patch
  <2> QED
    BY <2>1, EditsAssumption DEF DraftInv, TypeOK, Patch, Count
<1>2. /\ draft'.zones = [draft.zones EXCEPT ![i] = zone]
      /\ UNCHANGED modelDraft
      /\ \A j \in DOMAIN draft.zones : draft'.zones[j] = IF j = i THEN zone ELSE draft.zones[j]
      /\ DOMAIN draft'.zones = DOMAIN draft.zones
      /\ AssetSays(draft)' = AssetSays(draft)
  <2>1. draft'.zones = [draft.zones EXCEPT ![i] = zone]
    BY ZoneReplaced DEF DraftInv, TypeOK, Patch
  <2>2. AssetSays(draft)' = AssetSays(draft)
    BY DEF AssetSays, AssetField, DraftInv, TypeOK, Patch, AssetProfileDraft
  <2>3. draft.zones \in Seq(ZoneDraft)
    BY DEF DraftInv, TypeOK, AssetProfileDraft
  <2> QED
    BY <2>1, <2>2, <2>3 DEF Patch
<1>3. \A j \in DOMAIN draft.zones : draft'.zones[j].id = draft.zones[j].id
  BY <1>2
<1>4. ZonesKept'
  <2>1. draft.zones \in Seq(ZoneDraft)
    BY DEF DraftInv, TypeOK, AssetProfileDraft
  <2>2. Len(draft'.zones) = Len(draft.zones)
    BY <1>2, <2>1
  <2> QED
    BY <1>2, <2>2 DEF DraftInv, ZonesKept
<1>5. CorrectionsAreTheDifference'
  <2> SUFFICES ASSUME ~moved', IdsApart(draft')
               PROVE  /\ \A g \in AssetField :
                            Accounted(Top(g), AssetSays(modelDraft)[g], AssetSays(draft)[g])'
                      /\ \A j \in DOMAIN draft'.zones, g \in ZoneField :
                            Accounted(OfZone(j, g), ZoneSays(Proposed(j))[g],
                                      ZoneSays(draft.zones[j])[g])'
                      /\ \A p \in DOMAIN corrections' :
                            \/ \E g \in AssetField : p = Top(g)
                            \/ \E j \in DOMAIN draft'.zones, g \in ZoneField : p = OfZone(j, g)'
    BY DEF CorrectionsAreTheDifference
  <2>1. /\ \A j : Proposed(j)' = Proposed(j)
        /\ \A j \in DOMAIN draft.zones : \A g : OfZone(j, g)' = OfZone(j, g)
    BY <1>2, <1>3 DEF Proposed, OfZone
  <2>2. ~moved /\ IdsApart(draft)
    BY <1>2, <1>3 DEF IdsApart
  <2>3. /\ OfZone(i, f) \in DOMAIN corrections' <=> ZoneSays(Proposed(i))[f] # ZoneSays(zone)[f]
        /\ ZoneSays(Proposed(i))[f] # ZoneSays(zone)[f] =>
              corrections'[OfZone(i, f)] = [from |-> ZoneSays(Proposed(i))[f],
                                            to |-> ZoneSays(zone)[f]]
        /\ \A q : q # OfZone(i, f) =>
              /\ q \in DOMAIN corrections' <=> q \in DOMAIN corrections
              /\ q \in DOMAIN corrections => corrections'[q] = corrections[q]
    BY RecordsOnePath
  <2>4. ASSUME NEW g \in AssetField
        PROVE  Accounted(Top(g), AssetSays(modelDraft)[g], AssetSays(draft)[g])'
    <3>1. Accounted(Top(g), AssetSays(modelDraft)[g], AssetSays(draft)[g])
      BY <2>2 DEF DraftInv, CorrectionsAreTheDifference
    <3>2. Top(g) # OfZone(i, f)
      BY PathsApart
    <3> QED
      BY <1>2, <2>3, <3>1, <3>2 DEF Accounted
  <2>5. ASSUME NEW j \in DOMAIN draft'.zones, NEW g \in ZoneField
        PROVE  Accounted(OfZone(j, g), ZoneSays(Proposed(j))[g], ZoneSays(draft.zones[j])[g])'
    <3>1. Accounted(OfZone(j, g), ZoneSays(Proposed(j))[g], ZoneSays(draft.zones[j])[g])
      BY <1>2, <2>2 DEF DraftInv, CorrectionsAreTheDifference
    <3>2. CASE j = i /\ g = f
      BY <1>2, <2>1, <2>3, <3>2 DEF Accounted
    <3>3. CASE ~(j = i /\ g = f)
      <4>1. OfZone(j, g) # OfZone(i, f)
        BY <1>2, <2>2, <3>3, PathsApart DEF IdsApart
      <4>2. ZoneSays(draft'.zones[j])[g] = ZoneSays(draft.zones[j])[g]
        BY <1>2, <3>3
      <4>3. OfZone(j, g)' = OfZone(j, g)
        BY <1>2, <2>1
      <4> QED
        BY <2>1, <2>3, <3>1, <4>1, <4>2, <4>3 DEF Accounted
    <3> QED
      BY <3>2, <3>3
  <2>6. ASSUME NEW p \in DOMAIN corrections'
        PROVE  \/ \E g \in AssetField : p = Top(g)
               \/ \E j \in DOMAIN draft'.zones, g \in ZoneField : p = OfZone(j, g)'
    <3>1. CASE p = OfZone(i, f)
      BY <1>2, <2>1, <3>1
    <3>2. CASE p # OfZone(i, f)
      <4>1. \/ \E g \in AssetField : p = Top(g)
            \/ \E j \in DOMAIN draft.zones, g \in ZoneField : p = OfZone(j, g)
        BY <2>2, <2>3, <3>2 DEF DraftInv, CorrectionsAreTheDifference
      <4> QED
        BY <1>2, <2>1, <4>1
    <3> QED
      BY <3>1, <3>2
  <2> QED
    BY <2>4, <2>5, <2>6
<1> QED
  BY <1>1, <1>4, <1>5 DEF DraftInv

-----------------------------------------------------------------------------
(***************************************************************************)
(* Steps                                                                   *)
(***************************************************************************)
LEMMA StartStep ==
    ASSUME DraftInv,
           \/ \E proposal \in Proposal : StartParsed(proposal)
           \/ StartManual
    PROVE  DraftInv'
<1>1. Blank(<<EmptyZone(1)>>) \in AssetProfileDraft /\ Blank(<< >>) \in AssetProfileDraft
  <2>1. << >> \in Seq(ZoneDraft)
    OBVIOUS
  <2>2. <<EmptyZone(1)>> \in Seq(ZoneDraft)
    BY EmptyZoneIsDraft
  <2> QED
    BY <2>1, <2>2, BlankIsDraft
<1>2. CASE \E proposal \in Proposal : StartParsed(proposal)
  <2>1. PICK proposal \in Proposal : StartParsed(proposal)
    BY <1>2
  <2>2. /\ draft' = proposal /\ modelDraft' = proposal /\ corrections' = << >>
        /\ DOMAIN corrections' = {} /\ proposal \in AssetProfileDraft
        /\ started' = TRUE /\ moved' = FALSE
    BY <2>1, ProposalAssumption DEF StartParsed
  <2>3. proposal.zones \in Seq(ZoneDraft)
    BY <2>2 DEF AssetProfileDraft
  <2>4. edits' \in 0..MaxEdits
    BY <2>1, EditsAssumption DEF DraftInv, TypeOK, StartParsed, Count
  <2>5. TypeOK'
    BY <2>2, <2>4 DEF TypeOK
  <2>6. ZonesKept'
    BY <2>2, <2>3 DEF ZonesKept
  <2>7. \A i \in DOMAIN draft'.zones : Proposed(i)' = draft'.zones[i]
    BY <2>2 DEF Proposed
  <2>8. CorrectionsAreTheDifference'
    BY <2>2, <2>7 DEF CorrectionsAreTheDifference, Accounted
  <2> QED
    BY <2>5, <2>6, <2>8 DEF DraftInv
<1>3. CASE StartManual
  <2>1. /\ draft' = Blank(<<EmptyZone(1)>>) /\ modelDraft' = Blank(<< >>)
        /\ DOMAIN corrections' = {} /\ started' = TRUE /\ moved' = FALSE
    BY <1>3 DEF StartManual
  <2>2. draft'.zones = <<EmptyZone(1)>> /\ modelDraft'.zones = << >>
    BY <2>1 DEF Blank
  <2>3. edits' \in 0..MaxEdits
    BY <1>3, EditsAssumption DEF DraftInv, TypeOK, StartManual, Count
  <2>4. TypeOK'
    BY <1>1, <2>1, <2>3 DEF TypeOK
  <2>5. ZonesKept'
    BY <2>2 DEF ZonesKept
  <2>6. \A f \in AssetField : AssetSays(modelDraft)'[f] = AssetSays(draft)'[f]
    <3>1. \A zones, more : /\ Blank(zones).name = Blank(more).name
                           /\ Blank(zones).case = Blank(more).case
                           /\ Blank(zones).sectors = Blank(more).sectors
                           /\ Blank(zones).criticality = Blank(more).criticality
      BY DEF Blank
    <3>2. \A f \in {"name", "case", "sectors"} : draft'[f] = modelDraft'[f]
      BY <2>1, <3>1
    <3>3. draft'.criticality = modelDraft'.criticality
      BY <2>1, <3>1
    <3> QED
      BY <3>2, <3>3 DEF AssetSays
  <2>7. ASSUME NEW i \in DOMAIN draft'.zones, NEW f \in ZoneField
        PROVE  ZoneSays(Proposed(i))'[f] = ZoneSays(draft.zones[i])'[f]
    <3>1. draft'.zones[i] = EmptyZone(1) /\ Proposed(i)' = EmptyZone(NoId)
      BY <2>2 DEF Proposed
    <3>2. ZoneSays(EmptyZone(NoId))[f] = ZoneSays(EmptyZone(1))[f]
      BY EmptiesSayTheSame DEF NoId
    <3> QED
      BY <3>1, <3>2
  <2>8. CorrectionsAreTheDifference'
    BY <2>1, <2>6, <2>7 DEF CorrectionsAreTheDifference, Accounted
  <2> QED
    BY <2>4, <2>5, <2>8 DEF DraftInv
<1> QED
  BY <1>2, <1>3

\* A zone of a draft, with one of its fields changed.
LEMMA CorrectStep ==
    ASSUME DraftInv, NEW i \in DOMAIN draft.zones,
           \/ CorrectTargetSL(i)
           \/ \E fr \in FR : CorrectSL(i, fr)
           \/ \E field \in NatureField : CorrectNature(i, field)
           \/ \E sector \in Sector : ToggleZoneSector(i, sector)
    PROVE  DraftInv'
<1> DEFINE zone == draft.zones[i]
<1>1. zone \in ZoneDraft /\ draft \in AssetProfileDraft
  BY DEF DraftInv, TypeOK, AssetProfileDraft
<1>2. Proposed(i) \in ZoneDraft
  <2>1. i \in Nat
    BY DEF DraftInv, TypeOK, AssetProfileDraft
  <2> QED
    BY <2>1, ModelIsDraft DEF DraftInv
<1>3. CASE CorrectTargetSL(i)
  <2> DEFINE value == (zone.target_sl % MaxLevel) + 1
             next  == [zone EXCEPT !.target_sl = value]
  <2>1. value \in 0..MaxLevel
    BY <1>1, LevelAssumption DEF ZoneDraft
  <2>2. next \in ZoneDraft
    BY <1>1, <2>1 DEF ZoneDraft
  <2>3. [draft EXCEPT !.zones[i].target_sl = value] = [draft EXCEPT !.zones[i] = next]
    BY <1>1 DEF AssetProfileDraft
  <2>4. \A g \in ZoneField \ {"target_sl"} : ZoneSays(next)[g] = ZoneSays(zone)[g]
    BY <1>1, <2>2 DEF ZoneSays, ZoneDraft
  <2>5. "target_sl" \in ZoneField /\ next.id = zone.id /\ next.target_sl = value
    BY <1>1 DEF ZoneField, ZoneDraft
  <2>6. /\ ZoneSays(Proposed(i))["target_sl"] = Proposed(i).target_sl
        /\ ZoneSays(next)["target_sl"] = value
    BY <1>2, <2>2, <2>5, ZoneSaysByField
  <2>7. /\ Patch([draft EXCEPT !.zones[i] = next]) /\ UNCHANGED moved
        /\ RecordCorrection(OfZone(i, "target_sl"), Proposed(i).target_sl, value)
    BY <1>3, <2>3 DEF CorrectTargetSL
  <2> HIDE DEF next, value
  <2> QED
    BY <2>2, <2>4, <2>5, <2>6, <2>7, ZoneEdit
<1>4. ASSUME NEW fr \in FR, CorrectSL(i, fr) PROVE DraftInv'
  <2> DEFINE value  == (LevelIn(zone.sl_vector, fr) + 1) % (MaxLevel + 1)
             vector == [x \in FR |-> IF x = fr THEN value ELSE LevelIn(zone.sl_vector, x)]
             next   == [zone EXCEPT !.sl_vector = {vector}]
  <2>1. \A x \in FR : LevelIn(zone.sl_vector, x) \in 0..MaxLevel
    BY <1>1, LevelInRange DEF ZoneDraft
  <2>2. value \in 0..MaxLevel
    BY <2>1, LevelAssumption
  <2>3. vector \in Vector
    BY <2>1, <2>2 DEF Vector
  <2>4. next \in ZoneDraft
    BY <1>1, <2>3 DEF ZoneDraft, SLVectorDraft
  <2>5. [draft EXCEPT !.zones[i].sl_vector = {vector}] = [draft EXCEPT !.zones[i] = next]
    BY <1>1 DEF AssetProfileDraft
  <2>6. \A x \in FR : LevelIn({vector}, x) = vector[x]
    <3> HIDE DEF vector
    <3> QED BY DEF LevelIn
  <2>7. next.sl_vector = {vector} /\ next.id = zone.id /\ fr \in ZoneField
    BY <1>1 DEF ZoneDraft, ZoneField
  <2>8. ZoneSays(next)[fr] = value
    <3>1. vector[fr] = value
      OBVIOUS
    <3> HIDE DEF next, vector, value
    <3>2. ZoneSays(next)[fr] = LevelIn(next.sl_vector, fr)
      BY <2>4, <2>7, ZoneSaysByField
    <3>3. LevelIn(next.sl_vector, fr) = vector[fr]
      BY <2>6, <2>7
    <3> QED
      BY <3>1, <3>2, <3>3
  <2>9. ZoneSays(Proposed(i))[fr] = LevelIn(Proposed(i).sl_vector, fr)
    BY <1>2, <2>7, ZoneSaysByField
  <2>10. ASSUME NEW g \in ZoneField \ {fr} PROVE ZoneSays(next)[g] = ZoneSays(zone)[g]
    <3>1. CASE g \in FR
      <4>1. vector[g] = LevelIn(zone.sl_vector, g)
        BY <3>1, <2>10
      <4> HIDE DEF vector, next, zone
      <4>2. ZoneSays(next)[g] = LevelIn(next.sl_vector, g)
        BY <2>4, <3>1, ZoneSaysByField
      <4>3. ZoneSays(zone)[g] = LevelIn(zone.sl_vector, g)
        BY <1>1, <3>1, ZoneSaysByField
      <4> QED
        BY <2>6, <2>7, <3>1, <4>1, <4>2, <4>3
    <3>2. CASE g \notin FR
      <4>1. /\ next.target_sl = zone.target_sl /\ next.sectors = zone.sectors
            /\ next.nature = zone.nature
        BY <1>1 DEF ZoneDraft
      <4>2. g \in {"target_sl", "sectors"} \/ g \in NatureField
        BY <3>2 DEF ZoneField
      <4> HIDE DEF next
      <4> QED
        BY <1>1, <2>4, <4>1, <4>2, ZoneSaysByField
    <3> QED
      BY <3>1, <3>2
  <2>11. /\ Patch([draft EXCEPT !.zones[i] = next]) /\ UNCHANGED moved
         /\ RecordCorrection(OfZone(i, fr), LevelIn(Proposed(i).sl_vector, fr), value)
    BY <1>4, <2>5 DEF CorrectSL
  <2> HIDE DEF next, value, vector
  <2> QED
    BY <2>4, <2>7, <2>8, <2>9, <2>10, <2>11, ZoneEdit
<1>5. ASSUME NEW field \in NatureField, CorrectNature(i, field) PROVE DraftInv'
  <2> DEFINE value == (zone.nature[field] + 1) % 3
             next  == [zone EXCEPT !.nature = [zone.nature EXCEPT ![field] = value]]
  <2>1. value \in TriState
    BY <1>1 DEF ZoneDraft, TriState
  <2>2. next \in ZoneDraft
    BY <1>1, <2>1 DEF ZoneDraft
  <2>3. [draft EXCEPT !.zones[i].nature[field] = value] = [draft EXCEPT !.zones[i] = next]
    BY <1>1 DEF AssetProfileDraft
  <2>4. /\ next.id = zone.id /\ next.target_sl = zone.target_sl /\ next.sectors = zone.sectors
        /\ next.sl_vector = zone.sl_vector /\ field \in ZoneField
        /\ \A g \in NatureField : next.nature[g] = IF g = field THEN value ELSE zone.nature[g]
    BY <1>1 DEF ZoneDraft, ZoneField
  <2>5. ASSUME NEW g \in ZoneField \ {field} PROVE ZoneSays(next)[g] = ZoneSays(zone)[g]
    <3> HIDE DEF next
    <3> QED
      BY <1>1, <2>2, <2>4, <2>5, ZoneSaysByField DEF ZoneField
  <2>6. /\ ZoneSays(Proposed(i))[field] = Proposed(i).nature[field]
        /\ ZoneSays(next)[field] = value
    BY <1>2, <2>2, <2>4, ZoneSaysByField
  <2>7. /\ Patch([draft EXCEPT !.zones[i] = next]) /\ UNCHANGED moved
        /\ RecordCorrection(OfZone(i, field), Proposed(i).nature[field], value)
    BY <1>5, <2>3 DEF CorrectNature
  <2> HIDE DEF next, value
  <2> QED
    BY <2>2, <2>4, <2>5, <2>6, <2>7, ZoneEdit
<1>6. ASSUME NEW sector \in Sector, ToggleZoneSector(i, sector) PROVE DraftInv'
  <2> DEFINE value == Toggled(zone.sectors, sector)
             next  == [zone EXCEPT !.sectors = value]
  <2>1. value \in SUBSET Sector
    BY <1>1 DEF ZoneDraft, Toggled
  <2>2. next \in ZoneDraft
    BY <1>1, <2>1 DEF ZoneDraft
  <2>3. [draft EXCEPT !.zones[i].sectors = value] = [draft EXCEPT !.zones[i] = next]
    BY <1>1 DEF AssetProfileDraft
  <2>4. \A g \in ZoneField \ {"sectors"} : ZoneSays(next)[g] = ZoneSays(zone)[g]
    BY <1>1, <2>2 DEF ZoneSays, ZoneDraft
  <2>5. "sectors" \in ZoneField /\ next.id = zone.id /\ next.sectors = value
    BY <1>1 DEF ZoneField, ZoneDraft
  <2>6. /\ ZoneSays(Proposed(i))["sectors"] = Proposed(i).sectors
        /\ ZoneSays(next)["sectors"] = value
    BY <1>2, <2>2, <2>5, ZoneSaysByField
  <2>7. /\ Patch([draft EXCEPT !.zones[i] = next]) /\ UNCHANGED moved
        /\ RecordCorrection(OfZone(i, "sectors"), Proposed(i).sectors, value)
    BY <1>6, <2>3 DEF ToggleZoneSector
  <2> HIDE DEF next, value
  <2> QED
    BY <2>2, <2>4, <2>5, <2>6, <2>7, ZoneEdit
<1> QED
  BY <1>3, <1>4, <1>5, <1>6

\* A zone the operator adds says nothing, and the model proposed none there.
LEMMA AddStep ==
    ASSUME DraftInv, AddZone
    PROVE  DraftInv'
<1> SUFFICES ASSUME NEW n, n = Len(draft.zones) + 1
             PROVE  DraftInv'
  OBVIOUS
<1> DEFINE new == EmptyZone(n)
<1>1. /\ draft \in AssetProfileDraft /\ draft.zones \in Seq(ZoneDraft) /\ n \in Nat
      /\ DOMAIN draft.zones = 1..Len(draft.zones)
  BY DEF DraftInv, TypeOK, AssetProfileDraft
<1>2. new \in ZoneDraft
  BY <1>1, EmptyZoneIsDraft
<1> HIDE DEF new
<1>3. /\ draft' = [draft EXCEPT !.zones = Append(draft.zones, new)]
      /\ UNCHANGED <<modelDraft, started, moved, corrections>>
  BY DEF AddZone, Patch, Unrecorded, new
<1>4. /\ draft'.zones = Append(draft.zones, new)
      /\ draft'.zones \in Seq(ZoneDraft)
      /\ AssetSays(draft)' = AssetSays(draft)
  <2> DEFINE zones == Append(draft.zones, new)
  <2>1. zones \in Seq(ZoneDraft)
    BY <1>1, <1>2
  <2>2. draft' = [draft EXCEPT !.zones = zones]
    BY <1>3
  <2> HIDE DEF zones
  <2>3. draft'.zones = zones /\ AssetSays(draft)' = AssetSays(draft)
    BY <1>1, <2>2 DEF AssetProfileDraft, AssetSays, AssetField
  <2> QED
    BY <2>1, <2>3 DEF zones
<1>5. /\ DOMAIN draft'.zones = DOMAIN draft.zones \cup {n}
      /\ n \notin DOMAIN draft.zones /\ Len(draft'.zones) = n
      /\ \A j \in DOMAIN draft.zones : draft'.zones[j] = draft.zones[j]
      /\ draft'.zones[n] = new
  BY <1>1, <1>2, <1>4
<1>6. TypeOK'
  <2>1. draft' \in AssetProfileDraft
    BY <1>1, <1>3, <1>4, ZonesReplaced
  <2> QED
    BY <1>3, <2>1, EditsAssumption DEF DraftInv, TypeOK, AddZone, Patch, Count
<1>7. ZonesKept'
  <2>1. modelDraft.zones \in Seq(ZoneDraft)
    BY ModelIsDraft DEF DraftInv
  <2> QED
    BY <1>1, <1>3, <1>5, <2>1 DEF DraftInv, ZonesKept
<1>8. CorrectionsAreTheDifference'
  <2> SUFFICES ASSUME ~moved', IdsApart(draft')
               PROVE  /\ \A g \in AssetField :
                            Accounted(Top(g), AssetSays(modelDraft)[g], AssetSays(draft)[g])'
                      /\ \A j \in DOMAIN draft'.zones, g \in ZoneField :
                            Accounted(OfZone(j, g), ZoneSays(Proposed(j))[g],
                                      ZoneSays(draft.zones[j])[g])'
                      /\ \A p \in DOMAIN corrections' :
                            \/ \E g \in AssetField : p = Top(g)
                            \/ \E j \in DOMAIN draft'.zones, g \in ZoneField : p = OfZone(j, g)'
    BY DEF CorrectionsAreTheDifference
  <2>1. /\ \A j : Proposed(j)' = Proposed(j)
        /\ \A j \in DOMAIN draft.zones : \A g : OfZone(j, g)' = OfZone(j, g)
    BY <1>3, <1>5 DEF Proposed, OfZone
  <2>2. ~moved /\ IdsApart(draft)
    BY <1>3, <1>5 DEF IdsApart
  <2>3. ASSUME NEW g \in AssetField
        PROVE  Accounted(Top(g), AssetSays(modelDraft)[g], AssetSays(draft)[g])'
    BY <1>3, <1>4, <2>2 DEF DraftInv, CorrectionsAreTheDifference, Accounted
  <2>4. ASSUME NEW j \in DOMAIN draft.zones, NEW g \in ZoneField
        PROVE  Accounted(OfZone(j, g), ZoneSays(Proposed(j))[g], ZoneSays(draft.zones[j])[g])'
    <3>1. Accounted(OfZone(j, g), ZoneSays(Proposed(j))[g], ZoneSays(draft.zones[j])[g])
      BY <2>2 DEF DraftInv, CorrectionsAreTheDifference
    <3> QED
      BY <1>3, <1>5, <2>1, <3>1 DEF Accounted
  <2>5. ASSUME NEW g \in ZoneField
        PROVE  Accounted(OfZone(n, g), ZoneSays(Proposed(n))[g], ZoneSays(draft.zones[n])[g])'
    <3>1. n \notin DOMAIN modelDraft.zones
      <4>1. modelDraft.zones \in Seq(ZoneDraft)
        BY ModelIsDraft DEF DraftInv
      <4> QED
        BY <1>1, <2>2, <4>1 DEF DraftInv, ZonesKept
    <3>2. ZoneSays(Proposed(n))[g] = ZoneSays(new)[g]
      BY <1>1, <3>1, EmptiesSayTheSame DEF Proposed, NoId, new
    <3>3. OfZone(n, g)' \notin DOMAIN corrections
      <4>1. ASSUME NEW j \in DOMAIN draft.zones, NEW f PROVE OfZone(n, g)' # OfZone(j, f)
        <5>1. draft'.zones[n].id # draft.zones[j].id
          BY <1>5 DEF IdsApart
        <5>2. OfZone(n, g)' = Path("zones", draft'.zones[n].id, 0, g)
          BY DEF OfZone
        <5>3. OfZone(j, f) = Path("zones", draft.zones[j].id, 0, f)
          BY DEF OfZone
        <5> QED
          BY <5>1, <5>2, <5>3 DEF Path
      <4>2. \A f : OfZone(n, g)' # Top(f)
        BY DEF OfZone, Top, Path
      <4> QED
        BY <2>2, <4>1, <4>2 DEF DraftInv, CorrectionsAreTheDifference
    <3>4. ZoneSays(Proposed(n))'[g] = ZoneSays(draft.zones[n])'[g]
      BY <1>5, <2>1, <3>2
    <3> QED
      BY <1>3, <3>3, <3>4 DEF Accounted
  <2>6. ASSUME NEW p \in DOMAIN corrections'
        PROVE  \/ \E g \in AssetField : p = Top(g)
               \/ \E j \in DOMAIN draft'.zones, g \in ZoneField : p = OfZone(j, g)'
    <3>1. \/ \E g \in AssetField : p = Top(g)
          \/ \E j \in DOMAIN draft.zones, g \in ZoneField : p = OfZone(j, g)
      BY <1>3, <2>2 DEF DraftInv, CorrectionsAreTheDifference
    <3> QED
      BY <1>5, <2>1, <3>1
  <2> QED
    BY <1>5, <2>3, <2>4, <2>5, <2>6
<1> QED
  BY <1>6, <1>7, <1>8 DEF DraftInv

\* What is left of a sequence without one of its elements.
LEMMA WithoutOne ==
    ASSUME NEW S, NEW s \in Seq(S), NEW i \in DOMAIN s
    PROVE  SubSeq(s, 1, i - 1) \o SubSeq(s, i + 1, Len(s)) \in Seq(S)
<1>1. i \in 1..Len(s) /\ Len(s) \in Nat
  OBVIOUS
<1>2. SubSeq(s, 1, i - 1) \in Seq(S)
  BY <1>1, SubSeqProperties
<1>3. SubSeq(s, i + 1, Len(s)) \in Seq(S)
  BY <1>1, SubSeqProperties
<1> QED
  BY <1>2, <1>3

\* A zone that is removed or renamed takes the corrections out of step.
LEMMA MoveStep ==
    ASSUME DraftInv, NEW i \in DOMAIN draft.zones,
           RemoveZone(i) \/ \E id \in ZoneId : RenameZone(i, id)
    PROVE  DraftInv'
<1>1. draft \in AssetProfileDraft /\ draft.zones \in Seq(ZoneDraft) /\ draft.zones[i] \in ZoneDraft
  BY DEF DraftInv, TypeOK, AssetProfileDraft
<1>2. draft' \in AssetProfileDraft
  <2>1. CASE RemoveZone(i)
    <3>1. draft' = [draft EXCEPT !.zones = SubSeq(draft.zones, 1, i - 1)
                                             \o SubSeq(draft.zones, i + 1, Len(draft.zones))]
      BY <2>1 DEF RemoveZone, Patch
    <3> QED
      BY <1>1, <3>1, WithoutOne, ZonesReplaced
  <2>2. ASSUME NEW id \in ZoneId, RenameZone(i, id) PROVE draft' \in AssetProfileDraft
    <3> DEFINE zone == [draft.zones[i] EXCEPT !.id = id]
    <3>1. zone \in ZoneDraft
      BY <1>1, ZoneIdAssumption DEF ZoneDraft
    <3>2. draft' = [draft EXCEPT !.zones[i] = zone]
      BY <1>1, <2>2 DEF RenameZone, Patch, AssetProfileDraft
    <3> HIDE DEF zone
    <3> QED
      BY <1>1, <3>1, <3>2, ZoneReplaced
  <2> QED
    BY <2>1, <2>2
<1>3. /\ moved' = TRUE /\ UNCHANGED <<modelDraft, started>>
      /\ edits' = edits + 1 /\ edits < MaxEdits
  BY DEF RemoveZone, RenameZone, Patch, Count
<1> QED
  BY <1>2, <1>3, EditsAssumption DEF DraftInv, TypeOK, ZonesKept, CorrectionsAreTheDifference

\* What the asset says of each of its fields.
LEMMA AssetSaysByField ==
    ASSUME NEW d \in AssetProfileDraft
    PROVE  /\ \A f \in {"name", "case", "sectors"} : AssetSays(d)[f] = d[f]
           /\ \A f \in {"physical_consequence", "threat_model", "scale"} :
                 AssetSays(d)[f] = d.criticality[f]
BY DEF AssetSays, AssetField

LEMMA AssetStep ==
    ASSUME DraftInv, EditAsset
    PROVE  DraftInv'
<1>1. draft \in AssetProfileDraft /\ modelDraft \in AssetProfileDraft
  BY ModelIsDraft DEF DraftInv, TypeOK
<1>2. ASSUME NEW sector \in Sector, ToggleSector(sector) PROVE DraftInv'
  <2> DEFINE next == [draft EXCEPT !.sectors = Toggled(draft.sectors, sector)]
  <2>1. next \in AssetProfileDraft
    BY <1>1 DEF AssetProfileDraft, Toggled
  <2>2. /\ next.zones = draft.zones /\ next.sectors = Toggled(draft.sectors, sector)
        /\ next.name = draft.name /\ next.case = draft.case
        /\ next.criticality = draft.criticality
    BY <1>1 DEF AssetProfileDraft
  <2>3. \A g \in AssetField \ {"sectors"} : AssetSays(next)[g] = AssetSays(draft)[g]
    <3> HIDE DEF next
    <3> QED BY <1>1, <2>1, <2>2, AssetSaysByField DEF AssetField
  <2>4. /\ AssetSays(next)["sectors"] = Toggled(draft.sectors, sector)
        /\ AssetSays(modelDraft)["sectors"] = modelDraft.sectors
        /\ "sectors" \in AssetField
    BY <2>2 DEF AssetSays, AssetField
  <2>5. /\ Patch(next) /\ UNCHANGED moved
        /\ RecordCorrection(Top("sectors"), modelDraft.sectors, Toggled(draft.sectors, sector))
    BY <1>2 DEF ToggleSector
  <2> HIDE DEF next
  <2> QED
    BY <2>1, <2>2, <2>3, <2>4, <2>5, AssetEdit
<1>3. ASSUME NEW text \in {None, Written}, EditName(text) PROVE DraftInv'
  <2> DEFINE next == [draft EXCEPT !.name = text]
  <2>1. next \in AssetProfileDraft
    BY <1>1 DEF AssetProfileDraft, Text
  <2>2. /\ next.zones = draft.zones /\ next.name = text
        /\ next.sectors = draft.sectors /\ next.case = draft.case
        /\ next.criticality = draft.criticality
    BY <1>1 DEF AssetProfileDraft
  <2>3. \A g \in AssetField \ {"name"} : AssetSays(next)[g] = AssetSays(draft)[g]
    <3> HIDE DEF next
    <3> QED BY <1>1, <2>1, <2>2, AssetSaysByField DEF AssetField
  <2>4. /\ AssetSays(next)["name"] = text /\ AssetSays(modelDraft)["name"] = modelDraft.name
        /\ "name" \in AssetField
    BY <2>2 DEF AssetSays, AssetField
  <2>5. /\ Patch(next) /\ UNCHANGED moved
        /\ RecordCorrection(Top("name"), modelDraft.name, text)
    BY <1>3 DEF EditName
  <2> HIDE DEF next
  <2> QED
    BY <2>1, <2>2, <2>3, <2>4, <2>5, AssetEdit
<1>4. ASSUME NEW value \in 1..MaxCase, ChooseCase(value) PROVE DraftInv'
  <2> DEFINE next == [draft EXCEPT !.case = value]
  <2>1. next \in AssetProfileDraft
    <3>1. value \in 0..MaxCase
      BY ChoiceAssumption
    <3> QED
      BY <1>1, <3>1 DEF AssetProfileDraft
  <2>2. /\ next.zones = draft.zones /\ next.name = draft.name
        /\ next.sectors = draft.sectors /\ next.case = value
        /\ next.criticality = draft.criticality
    BY <1>1 DEF AssetProfileDraft
  <2>3. \A g \in AssetField \ {"case"} : AssetSays(next)[g] = AssetSays(draft)[g]
    <3> HIDE DEF next
    <3> QED BY <1>1, <2>1, <2>2, AssetSaysByField DEF AssetField
  <2>4. /\ AssetSays(next)["case"] = value /\ AssetSays(modelDraft)["case"] = modelDraft.case
        /\ "case" \in AssetField
    BY <2>2 DEF AssetSays, AssetField
  <2>5. /\ Patch(next) /\ UNCHANGED moved
        /\ RecordCorrection(Top("case"), modelDraft.case, value)
    BY <1>4 DEF ChooseCase
  <2> HIDE DEF next
  <2> QED
    BY <2>1, <2>2, <2>3, <2>4, <2>5, AssetEdit
<1>5. ASSUME NEW field \in {"physical_consequence", "threat_model", "scale"}, NEW value,
             EditCriticality(field, value),
             [draft.criticality EXCEPT ![field] = value] \in CriticalityDraft
      PROVE  DraftInv'
  <2> DEFINE criticality == [draft.criticality EXCEPT ![field] = value]
             next        == [draft EXCEPT !.criticality = criticality]
  <2>1. next \in AssetProfileDraft
    BY <1>1, <1>5 DEF AssetProfileDraft
  <2>2. /\ next.zones = draft.zones /\ next.name = draft.name
        /\ next.sectors = draft.sectors /\ next.case = draft.case
        /\ next.criticality = criticality
    BY <1>1 DEF AssetProfileDraft
  <2>3. \A g \in {"physical_consequence", "threat_model", "scale"} :
           criticality[g] = IF g = field THEN value ELSE draft.criticality[g]
    BY <1>1 DEF AssetProfileDraft, CriticalityDraft
  <2>4. /\ AssetSays(next)[field] = value
        /\ AssetSays(modelDraft)[field] = modelDraft.criticality[field]
        /\ field \in AssetField
    <3> HIDE DEF criticality, next
    <3> QED
      BY <1>1, <2>1, <2>2, <2>3, AssetSaysByField DEF AssetField
  <2>5. \A g \in AssetField \ {field} : AssetSays(next)[g] = AssetSays(draft)[g]
    <3> HIDE DEF criticality, next
    <3> QED
      BY <1>1, <2>1, <2>2, <2>3, AssetSaysByField DEF AssetField
  <2>6. [draft EXCEPT !.criticality[field] = value] = next
    BY <1>1 DEF AssetProfileDraft
  <2>7. /\ Patch(next) /\ UNCHANGED moved
        /\ RecordCorrection(Top(field), modelDraft.criticality[field], value)
    BY <1>5, <2>6 DEF EditCriticality
  <2> HIDE DEF next, criticality
  <2> QED
    BY <2>1, <2>2, <2>4, <2>5, <2>7, AssetEdit
<1>6. ASSUME NEW text \in {None, Written},
             NEW field \in {"physical_consequence", "threat_model"},
             EditCriticality(field, text)
      PROVE  DraftInv'
  <2>1. [draft.criticality EXCEPT ![field] = text] \in CriticalityDraft
    BY <1>1 DEF AssetProfileDraft, CriticalityDraft, Text
  <2> QED
    BY <1>5, <1>6, <2>1
<1>7. ASSUME NEW value \in 1..MaxScale, EditCriticality("scale", value) PROVE DraftInv'
  <2>1. [draft.criticality EXCEPT !["scale"] = value] \in CriticalityDraft
    <3>1. value \in 0..MaxScale
      BY ChoiceAssumption
    <3> QED
      BY <1>1, <3>1 DEF AssetProfileDraft, CriticalityDraft
  <2> QED
    BY <1>5, <1>7, <2>1
<1> QED
  BY <1>2, <1>3, <1>4, <1>6, <1>7 DEF EditAsset

\* Conduits have no corrections.
LEMMA ConduitStep ==
    ASSUME DraftInv, EditConduits
    PROVE  DraftInv'
<1>1. draft \in AssetProfileDraft /\ draft.conduits \in Seq(ConduitDraft)
  BY DEF DraftInv, TypeOK, AssetProfileDraft
<1>2. ASSUME NEW conduits \in Seq(ConduitDraft), Patch([draft EXCEPT !.conduits = conduits]),
             Unrecorded
      PROVE  DraftInv'
  <2> DEFINE next == [draft EXCEPT !.conduits = conduits]
  <2>1. next \in AssetProfileDraft /\ next.zones = draft.zones
    BY <1>1 DEF AssetProfileDraft
  <2>2. AssetSays(next) = AssetSays(draft)
    BY <1>1 DEF AssetProfileDraft, AssetSays, AssetField
  <2>3. Patch(next)
    BY <1>2
  <2> HIDE DEF next
  <2> QED
    BY <1>2, <2>1, <2>2, <2>3, QuietEdit
<1>3. ASSUME NEW i \in DOMAIN draft.conduits, NEW conduit \in ConduitDraft,
             Patch([draft EXCEPT !.conduits[i] = conduit]), Unrecorded
      PROVE  DraftInv'
  <2>1. [draft.conduits EXCEPT ![i] = conduit] \in Seq(ConduitDraft)
    BY <1>1
  <2>2. [draft EXCEPT !.conduits[i] = conduit]
          = [draft EXCEPT !.conduits = [draft.conduits EXCEPT ![i] = conduit]]
    BY <1>1 DEF AssetProfileDraft
  <2>3. Patch([draft EXCEPT !.conduits = [draft.conduits EXCEPT ![i] = conduit]])
    BY <1>3, <2>2
  <2> QED
    BY <1>2, <1>3, <2>1, <2>3
<1>4. CASE AddConduit
  <2> DEFINE conduit  == [id |-> Len(draft.conduits) + 1, endpoints |-> FALSE, control |-> None]
             conduits == Append(draft.conduits, conduit)
  <2>1. conduit \in ConduitDraft
    BY <1>1 DEF ConduitDraft, Text
  <2>2. conduits \in Seq(ConduitDraft)
    BY <1>1, <2>1
  <2>3. Patch([draft EXCEPT !.conduits = conduits]) /\ Unrecorded
    BY <1>4 DEF AddConduit
  <2> HIDE DEF conduits
  <2> QED
    BY <1>2, <2>2, <2>3
<1>5. ASSUME NEW i \in DOMAIN draft.conduits, RemoveConduit(i) PROVE DraftInv'
  <2> DEFINE conduits == SubSeq(draft.conduits, 1, i - 1)
                           \o SubSeq(draft.conduits, i + 1, Len(draft.conduits))
  <2>1. conduits \in Seq(ConduitDraft)
    BY <1>1, WithoutOne
  <2>2. Patch([draft EXCEPT !.conduits = conduits]) /\ Unrecorded
    BY <1>5 DEF RemoveConduit
  <2> HIDE DEF conduits
  <2> QED
    BY <1>2, <2>1, <2>2
<1>6. ASSUME NEW i \in DOMAIN draft.conduits,
             \/ \E id \in ZoneId : RenameConduit(i, id)
             \/ \E given \in BOOLEAN : EditEndpoints(i, given)
             \/ \E text \in {None, Written} : EditControl(i, text)
      PROVE  DraftInv'
  <2> DEFINE conduit == draft.conduits[i]
  <2>1. conduit \in ConduitDraft
    BY <1>1
  <2>2. ASSUME NEW id \in ZoneId, RenameConduit(i, id) PROVE DraftInv'
    <3>1. [conduit EXCEPT !.id = id] \in ConduitDraft
      BY <2>1, ZoneIdAssumption DEF ConduitDraft
    <3>2. [draft EXCEPT !.conduits[i].id = id]
            = [draft EXCEPT !.conduits[i] = [conduit EXCEPT !.id = id]]
      BY <1>1 DEF AssetProfileDraft
    <3>3. Patch([draft EXCEPT !.conduits[i] = [conduit EXCEPT !.id = id]]) /\ Unrecorded
      BY <2>2, <3>2 DEF RenameConduit
    <3> QED
      BY <1>3, <3>1, <3>3
  <2>3. ASSUME NEW given \in BOOLEAN, EditEndpoints(i, given) PROVE DraftInv'
    <3>1. [conduit EXCEPT !.endpoints = given] \in ConduitDraft
      BY <2>1 DEF ConduitDraft
    <3>2. [draft EXCEPT !.conduits[i].endpoints = given]
            = [draft EXCEPT !.conduits[i] = [conduit EXCEPT !.endpoints = given]]
      BY <1>1 DEF AssetProfileDraft
    <3>3. Patch([draft EXCEPT !.conduits[i] = [conduit EXCEPT !.endpoints = given]]) /\ Unrecorded
      BY <2>3, <3>2 DEF EditEndpoints
    <3> QED
      BY <1>3, <3>1, <3>3
  <2>4. ASSUME NEW text \in {None, Written}, EditControl(i, text) PROVE DraftInv'
    <3>1. [conduit EXCEPT !.control = text] \in ConduitDraft
      BY <2>1 DEF ConduitDraft, Text
    <3>2. [draft EXCEPT !.conduits[i].control = text]
            = [draft EXCEPT !.conduits[i] = [conduit EXCEPT !.control = text]]
      BY <1>1 DEF AssetProfileDraft
    <3>3. Patch([draft EXCEPT !.conduits[i] = [conduit EXCEPT !.control = text]]) /\ Unrecorded
      BY <2>4, <3>2 DEF EditControl
    <3> QED
      BY <1>3, <3>1, <3>3
  <2> QED
    BY <1>6, <2>2, <2>3, <2>4
<1> QED
  BY <1>4, <1>5, <1>6 DEF EditConduits

LEMMA DraftInitially == Init => DraftInv
<1> SUFFICES ASSUME Init PROVE DraftInv
  OBVIOUS
<1>1. << >> \in Seq(ZoneDraft)
  OBVIOUS
<1>2. Blank(<< >>) \in AssetProfileDraft /\ Blank(<< >>).zones = << >>
  BY <1>1, BlankIsDraft DEF Blank
<1>3. TypeOK
  <2>1. edits \in 0..MaxEdits
    BY EditsAssumption DEF Init
  <2>2. draft = Blank(<< >>) /\ modelDraft = Blank(<< >>) /\ started = FALSE /\ moved = FALSE
    BY DEF Init
  <2> QED
    BY <1>2, <2>1, <2>2 DEF TypeOK
<1>4. ZonesKept
  BY <1>2 DEF Init, ZonesKept
<1>5. CorrectionsAreTheDifference
  BY <1>2 DEF Init, CorrectionsAreTheDifference, Accounted
<1> QED
  BY <1>3, <1>4, <1>5 DEF DraftInv

LEMMA DraftStep == DraftInv /\ [Next]_vars => DraftInv'
<1> SUFFICES ASSUME DraftInv, [Next]_vars PROVE DraftInv'
  OBVIOUS
<1>1. CASE UNCHANGED vars
  BY <1>1 DEF vars, DraftInv, TypeOK, ZonesKept, CorrectionsAreTheDifference, IdsApart,
         Accounted, OfZone, Proposed
<1>2. CASE (\E proposal \in Proposal : StartParsed(proposal)) \/ StartManual
  BY <1>2, StartStep
<1>3. CASE EditZones
  <2>1. CASE AddZone
    BY <2>1, AddStep
  <2>2. ASSUME NEW i \in DOMAIN draft.zones,
               RemoveZone(i) \/ \E id \in ZoneId : RenameZone(i, id)
        PROVE  DraftInv'
    BY <2>2, MoveStep
  <2>3. ASSUME NEW i \in DOMAIN draft.zones,
               \/ CorrectTargetSL(i)
               \/ \E fr \in FR : CorrectSL(i, fr)
               \/ \E field \in NatureField : CorrectNature(i, field)
               \/ \E sector \in Sector : ToggleZoneSector(i, sector)
        PROVE  DraftInv'
    BY <2>3, CorrectStep
  <2> QED
    BY <1>3, <2>1, <2>2, <2>3 DEF EditZones
<1>4. CASE EditAsset
  BY <1>4, AssetStep
<1>5. CASE EditConduits
  BY <1>5, ConduitStep
<1> QED
  BY <1>1, <1>2, <1>3, <1>4, <1>5 DEF Next

LEMMA DraftAlways == Spec => []DraftInv
BY DraftInitially, DraftStep, PTL DEF Spec

\* The draft keeps the shape of its schema through any edits.
THEOREM DraftTypeCorrect == Spec => []TypeOK
<1>1. DraftInv => TypeOK
  BY DEF DraftInv
<1> QED
  BY <1>1, DraftAlways, PTL

\* For any proposal, any sectors, requirements and levels, and any edits, the
\* corrections shown before signing are what the operator changed (session.ts).
THEOREM CorrectionsTell == Spec => []CorrectionsAreTheDifference
<1>1. DraftInv => CorrectionsAreTheDifference
  BY DEF DraftInv
<1> QED
  BY <1>1, DraftAlways, PTL

-----------------------------------------------------------------------------
(***************************************************************************)
(* Written twice                                                           *)
(***************************************************************************)
\* A vector lacks the same requirements on both sides, and is of no use or whole.
LEMMA VectorsLackTheSame ==
    ASSUME NEW v \in Vector
    PROVE  /\ MissingSLVector(v) = MissingSLVectorAtClient(v)
           /\ MissingSLVectorAtClient(v) = {} => WholeVector(v) \/ \A fr \in FR : v[fr] = None
BY DEF MissingSLVector, MissingSLVectorAtClient, WholeVector

LEMMA ZonesLackTheSame ==
    ASSUME NEW zone \in ZoneDraft
    PROVE  MissingInZone(zone) = MissingInZoneAtClient(zone)
<1>1. \A v \in zone.sl_vector : MissingSLVector(v) = MissingSLVectorAtClient(v)
  BY VectorsLackTheSame DEF ZoneDraft, SLVectorDraft
<1> QED
  BY <1>1 DEF MissingInZone, MissingInZoneAtClient

\* The criticality lacks the same on both sides.
LEMMA CriticalitiesLackTheSame ==
    ASSUME NEW d \in AssetProfileDraft
    PROVE  MissingInCriticality(d.criticality) = {f \in DOMAIN d.criticality : d.criticality[f] = None}
<1>1. DOMAIN d.criticality = {"physical_consequence", "scale", "threat_model"}
  BY DEF AssetProfileDraft, CriticalityDraft
<1> QED
  BY <1>1 DEF MissingInCriticality

LEMMA ListsAgree == TypeOK => SameList
<1> SUFFICES ASSUME TypeOK
             PROVE  MissingRequired(draft)
                      = MissingAtClient(draft) \cup {p \in {Top("sectors")} : draft.sectors = {}}
  BY DEF SameList
<1> DEFINE atServer == Gap("name", Falsy(draft.name)) \cup Gap("case", draft.case = None)
                         \cup Gap("sectors", draft.sectors = {})
                         \cup Gap("zones", draft.zones = << >>)
                         \cup MissingInCriticality(draft.criticality)
           atClient == Gap("name", Falsy(draft.name)) \cup Gap("case", draft.case = None)
                         \cup Gap("zones", draft.zones = << >>)
                         \cup {f \in DOMAIN draft.criticality : draft.criticality[f] = None}
           zonesAtServer == UNION {Listed("zones", draft.zones, i, MissingInZone(draft.zones[i])) :
                                      i \in DOMAIN draft.zones}
           zonesAtClient == UNION {Listed("zones", draft.zones, i,
                                          MissingInZoneAtClient(draft.zones[i])) :
                                      i \in DOMAIN draft.zones}
           conduitsAtServer == UNION {Listed("conduits", draft.conduits, i,
                                             MissingInConduit(draft.conduits[i])) :
                                         i \in DOMAIN draft.conduits}
           conduitsAtClient == UNION {Listed("conduits", draft.conduits, i,
                                             MissingInConduitAtClient(draft.conduits[i])) :
                                         i \in DOMAIN draft.conduits}
<1>1. atServer = atClient \cup Gap("sectors", draft.sectors = {})
  BY CriticalitiesLackTheSame DEF TypeOK
<1>2. zonesAtServer = zonesAtClient
  <2>1. \A i \in DOMAIN draft.zones :
           MissingInZone(draft.zones[i]) = MissingInZoneAtClient(draft.zones[i])
    BY ZonesLackTheSame DEF TypeOK, AssetProfileDraft
  <2> QED
    BY <2>1
<1>3. conduitsAtServer = conduitsAtClient
  BY DEF MissingInConduit, MissingInConduitAtClient
<1>4. /\ MissingRequired(draft) = {Top(f) : f \in atServer} \cup zonesAtServer
                                    \cup conduitsAtServer
      /\ MissingAtClient(draft) = {Top(f) : f \in atClient} \cup zonesAtClient
                                    \cup conduitsAtClient
  BY DEF MissingRequired, MissingAtClient
<1> HIDE DEF atServer, atClient, zonesAtServer, zonesAtClient, conduitsAtServer, conduitsAtClient
<1> QED
  BY <1>1, <1>2, <1>3, <1>4 DEF Gap

\* A draft of which the client misses nothing.
LEMMA NothingMissing ==
    ASSUME TypeOK, MissingAtClient(draft) = {}
    PROVE  /\ ~Falsy(draft.name) /\ draft.case # None
           /\ \A f \in DOMAIN draft.criticality : draft.criticality[f] # None
           /\ \A i \in DOMAIN draft.zones : MissingInZoneAtClient(draft.zones[i]) = {}
           /\ \A i \in DOMAIN draft.conduits : ~Falsy(draft.conduits[i].control)
<1>1. Gap("name", Falsy(draft.name)) \cup Gap("case", draft.case = None)
        \cup Gap("zones", draft.zones = << >>)
        \cup {f \in DOMAIN draft.criticality : draft.criticality[f] = None} = {}
  BY DEF MissingAtClient
<1>2. ~Falsy(draft.name) /\ draft.case # None
  BY <1>1 DEF Gap
<1>3. \A f \in DOMAIN draft.criticality : draft.criticality[f] # None
  BY <1>1
<1>4. ASSUME NEW i \in DOMAIN draft.zones PROVE MissingInZoneAtClient(draft.zones[i]) = {}
  <2>1. Listed("zones", draft.zones, i, MissingInZoneAtClient(draft.zones[i])) = {}
    BY DEF MissingAtClient
  <2> QED
    BY <2>1 DEF Listed
<1>5. ASSUME NEW i \in DOMAIN draft.conduits PROVE ~Falsy(draft.conduits[i].control)
  <2>1. Listed("conduits", draft.conduits, i, MissingInConduitAtClient(draft.conduits[i])) = {}
    BY DEF MissingAtClient
  <2>2. MissingInConduitAtClient(draft.conduits[i]) = {}
    BY <2>1 DEF Listed
  <2> QED
    BY <2>2 DEF MissingInConduitAtClient, Gap
<1> QED
  BY <1>2, <1>3, <1>4, <1>5

\* A zone of which the client misses nothing: it is accepted as it is promoted, no
\* level is lost, and where its dump is accepted it is the same zone.
LEMMA ZonePromoted ==
    ASSUME NEW zone \in ZoneDraft, MissingInZoneAtClient(zone) = {}
    PROVE  /\ zone.target_sl # None
           /\ \A f \in NatureField : zone.nature[f] # None
           /\ ZoneOf(zone) = [zone EXCEPT !.sl_vector = {v \in zone.sl_vector : WholeVector(v)}]
           /\ ZoneOf(zone).target_sl = zone.target_sl /\ ZoneOf(zone).nature = zone.nature
           /\ ZoneOf(zone).sl_vector = {v \in zone.sl_vector : WholeVector(v)}
           /\ \A v \in zone.sl_vector :
                 WholeVector(v) \/ \A fr \in FR : v[fr] = None
           /\ \A fr \in FR : LevelIn(ZoneOf(zone).sl_vector, fr) = LevelIn(zone.sl_vector, fr)
<1>1. zone.target_sl # None /\ \A f \in NatureField : zone.nature[f] # None
  BY DEF MissingInZoneAtClient, Gap
<1>2. /\ ZoneOf(zone).target_sl = zone.target_sl /\ ZoneOf(zone).nature = zone.nature
      /\ ZoneOf(zone).sl_vector = {v \in zone.sl_vector : WholeVector(v)}
  BY DEF ZoneOf, ZoneDraft
<1>3. ASSUME NEW v \in zone.sl_vector PROVE WholeVector(v) \/ \A fr \in FR : v[fr] = None
  <2>1. MissingSLVectorAtClient(v) = {}
    BY DEF MissingInZoneAtClient
  <2>2. v \in Vector
    BY DEF ZoneDraft, SLVectorDraft
  <2> QED
    BY <2>1, <2>2, VectorsLackTheSame
<1>4. ASSUME NEW fr \in FR
      PROVE  LevelIn(ZoneOf(zone).sl_vector, fr) = LevelIn(zone.sl_vector, fr)
  <2>1. CASE zone.sl_vector = {}
    BY <1>2, <2>1 DEF LevelIn
  <2>2. CASE zone.sl_vector # {}
    <3>1. PICK v \in Vector : zone.sl_vector = {v}
      BY <2>2 DEF ZoneDraft, SLVectorDraft
    <3>2. LevelIn({v}, fr) = v[fr]
      BY DEF LevelIn
    <3>3. CASE WholeVector(v)
      BY <1>2, <3>1, <3>3
    <3>4. CASE ~WholeVector(v)
      <4>1. v[fr] = None
        BY <1>3, <3>1, <3>4
      <4>2. ZoneOf(zone).sl_vector = {}
        BY <1>2, <3>1, <3>4
      <4> QED
        BY <3>1, <3>2, <4>1, <4>2 DEF LevelIn
    <3> QED
      BY <3>3, <3>4
  <2> QED
    BY <2>1, <2>2
<1> QED
  BY <1>1, <1>2, <1>3, <1>4 DEF ZoneOf

LEMMA ProfilesAgree == TypeOK => SameProfile
<1> SUFFICES ASSUME TypeOK, Promoted
             PROVE  /\ Valid(profile)
                    /\ \A i \in DOMAIN draft.zones, fr \in FR :
                          LevelIn(profile.zones[i].sl_vector, fr)
                            = LevelIn(draft.zones[i].sl_vector, fr)
                    /\ MissingRequired(draft) = {} /\ Valid(ToProfile(draft)) =>
                          ToProfile(draft) = profile
  BY DEF SameProfile
<1>1. /\ draft \in AssetProfileDraft /\ draft.zones \in Seq(ZoneDraft)
      /\ \A i \in DOMAIN draft.zones : draft.zones[i] \in ZoneDraft
  BY DEF TypeOK, AssetProfileDraft
<1>2. /\ ~Falsy(draft.name) /\ draft.case # None
      /\ \A f \in DOMAIN draft.criticality : draft.criticality[f] # None
      /\ \A i \in DOMAIN draft.zones : MissingInZoneAtClient(draft.zones[i]) = {}
      /\ \A i \in DOMAIN draft.conduits : ~Falsy(draft.conduits[i].control)
  BY NothingMissing DEF Promoted
<1>3. /\ profile.name = draft.name /\ profile.case = draft.case
      /\ profile.criticality = draft.criticality /\ profile.conduits = draft.conduits
      /\ profile.zones = [i \in DOMAIN draft.zones |-> ZoneOf(draft.zones[i])]
  BY <1>1 DEF profile, ToProfileAtClient, AssetProfileDraft
<1>4. Valid(profile)
  <2>1. profile.name # None /\ \A i \in DOMAIN profile.conduits : profile.conduits[i].control # None
    BY <1>2, <1>3 DEF Falsy
  <2>2. MissingInCriticality(profile.criticality) = {}
    <3>1. DOMAIN draft.criticality = {"physical_consequence", "scale", "threat_model"}
      BY <1>1 DEF AssetProfileDraft, CriticalityDraft
    <3> QED
      BY <1>2, <1>3, <3>1 DEF MissingInCriticality
  <2>3. ASSUME NEW i \in DOMAIN profile.zones
        PROVE  /\ profile.zones[i].target_sl # None
               /\ \A f \in NatureField : profile.zones[i].nature[f] # None
               /\ \A v \in profile.zones[i].sl_vector :
                     DOMAIN v = FR /\ \A fr \in FR : v[fr] # None
    <3> DEFINE zone == draft.zones[i]
    <3>1. /\ profile.zones[i] = ZoneOf(zone)
          /\ zone \in ZoneDraft /\ MissingInZoneAtClient(zone) = {}
      BY <1>1, <1>2, <1>3
    <3>2. \A v \in zone.sl_vector : DOMAIN v = FR
      BY <3>1 DEF ZoneDraft, SLVectorDraft, Vector
    <3> HIDE DEF zone
    <3>3. /\ zone.target_sl # None
          /\ \A f \in NatureField : zone.nature[f] # None
          /\ ZoneOf(zone).target_sl = zone.target_sl /\ ZoneOf(zone).nature = zone.nature
          /\ ZoneOf(zone).sl_vector = {v \in zone.sl_vector : WholeVector(v)}
      BY <3>1, ZonePromoted
    <3>4. \A v \in ZoneOf(zone).sl_vector : DOMAIN v = FR /\ \A fr \in FR : v[fr] # None
      BY <3>2, <3>3 DEF WholeVector
    <3> QED
      BY <3>1, <3>3, <3>4
  <2> QED
    BY <1>2, <1>3, <2>1, <2>2, <2>3 DEF Valid
<1>5. ASSUME NEW i \in DOMAIN draft.zones, NEW fr \in FR
      PROVE  LevelIn(profile.zones[i].sl_vector, fr) = LevelIn(draft.zones[i].sl_vector, fr)
  <2>1. profile.zones[i] = ZoneOf(draft.zones[i])
    BY <1>3
  <2>2. draft.zones[i] \in ZoneDraft /\ MissingInZoneAtClient(draft.zones[i]) = {}
    BY <1>1, <1>2
  <2>3. LevelIn(ZoneOf(draft.zones[i]).sl_vector, fr) = LevelIn(draft.zones[i].sl_vector, fr)
    BY <2>2, ZonePromoted
  <2> QED
    BY <2>1, <2>3
<1>6. ASSUME Valid(ToProfile(draft)) PROVE ToProfile(draft) = profile
  <2> DEFINE dumped(zone) == [zone EXCEPT !.sl_vector = {Dumped(v) : v \in zone.sl_vector}]
  <2>1. ToProfile(draft).zones = [i \in DOMAIN draft.zones |-> dumped(draft.zones[i])]
    BY <1>1 DEF ToProfile, AssetProfileDraft
  <2>2. ASSUME NEW i \in DOMAIN draft.zones PROVE dumped(draft.zones[i]) = ZoneOf(draft.zones[i])
    <3> DEFINE zone == draft.zones[i]
    <3>1. dumped(zone).sl_vector = {Dumped(v) : v \in zone.sl_vector}
      BY <1>1 DEF ZoneDraft
    <3>2. \A w \in dumped(zone).sl_vector : DOMAIN w = FR
      BY <1>6, <2>1 DEF Valid
    <3>3. ASSUME NEW v \in zone.sl_vector PROVE WholeVector(v) /\ Dumped(v) = v
      <4>1. DOMAIN Dumped(v) = FR
        BY <3>1, <3>2
      <4>2. \A fr \in FR : v[fr] # None
        BY <4>1 DEF Dumped
      <4>3. v \in Vector
        <5>1. zone.sl_vector \in SLVectorDraft
          BY <1>1 DEF ZoneDraft
        <5> QED
          BY <5>1 DEF SLVectorDraft
      <4>4. Dumped(v) = [fr \in FR |-> v[fr]]
        BY <4>2 DEF Dumped
      <4> QED
        BY <4>2, <4>3, <4>4 DEF WholeVector, Vector
    <3>4. {Dumped(v) : v \in zone.sl_vector} = {v \in zone.sl_vector : WholeVector(v)}
      BY <3>3
    <3> QED
      BY <3>4 DEF ZoneOf
  <2>3. [i \in DOMAIN draft.zones |-> dumped(draft.zones[i])]
          = [i \in DOMAIN draft.zones |-> ZoneOf(draft.zones[i])]
    BY <2>2
  <2>4. /\ ToProfile(draft) = [draft EXCEPT !.zones =
                                 [i \in DOMAIN draft.zones |-> dumped(draft.zones[i])]]
        /\ profile = [draft EXCEPT !.zones =
                        [i \in DOMAIN draft.zones |-> ZoneOf(draft.zones[i])]]
    BY DEF ToProfile, profile, ToProfileAtClient
  <2> QED
    BY <2>3, <2>4
<1> QED
  BY <1>4, <1>5, <1>6

\* What completion.py and draft.ts make of a draft agrees, for any draft the
\* operator can arrive at: neither sees a gap the other does not, and where both
\* promote it they make the same profile of it.
THEOREM WrittenTwiceAlwaysAgrees == Spec => []WrittenTwiceAgrees
<1>1. DraftInv => WrittenTwiceAgrees
  BY ListsAgree, ProfilesAgree DEF DraftInv, WrittenTwiceAgrees
<1> QED
  BY <1>1, DraftAlways, PTL

=============================================================================
