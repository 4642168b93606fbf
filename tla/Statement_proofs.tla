-------------------------- MODULE Statement_proofs --------------------------
(***************************************************************************)
(* Proofs about Statement: what the declaration of applicability says of a *)
(* signed composition, for any controls, capabilities and decisions.       *)
(*                                                                         *)
(* The argument.  What is signed is what was checked (StatementInv), and a *)
(* trail has its choices by position first, then what is ratified, then    *)
(* the signature (SignedTrail).  So an entry that names a mechanism is a   *)
(* choice about it or ratifies it (NamedByChoiceOrRatified), never both,   *)
(* and the last such entry, which is what the statement reads, exists      *)
(* because positions are natural numbers (LastOne).  The six properties    *)
(* follow from which mechanisms that leaves in force.                      *)
(***************************************************************************)
EXTENDS Oscal, FiniteSetTheorems, SequenceTheorems, TLAPS

\* Sets of positions have a last one.
LEMMA LastOne ==
    ASSUME NEW n \in Nat, NEW S \in SUBSET (1..n), S # {}
    PROVE  /\ Max(S) \in S
           /\ \A i \in S : i <= Max(S)
<1> DEFINE T == {n - i : i \in S}
<1>1. T \subseteq Nat /\ T # {}
  <2>1. \A i \in S : n - i \in Nat
    OBVIOUS
  <2>2. PICK i \in S : TRUE
    OBVIOUS
  <2>3. n - i \in T
    OBVIOUS
  <2> QED
    BY <2>1, <2>3
<1>2. PICK x \in T : \A y \in T : ~ (<<y, x>> \in OpToRel(<, Nat))
  <2> HIDE DEF T
  <2> QED BY <1>1, NatLessThanWellFounded, WFMin, Zenon
<1>3. \A y \in T : ~(y < x)
  BY <1>1, <1>2 DEF OpToRel
<1>4. PICK m \in S : x = n - m
  OBVIOUS
<1>5. \A i \in S : m >= i
  <2> TAKE i \in S
  <2>1. n - i \in T
    OBVIOUS
  <2> QED
    BY <2>1, <1>3, <1>4
<1>6. \E w \in S : \A i \in S : w >= i
  BY <1>5
<1> QED
  BY <1>6, Zenon DEF Max

\* SetToSeq lists a finite set, all of it.
LEMMA ListsTheSet ==
    ASSUME NEW S, IsFiniteSet(S)
    PROVE  /\ SetToSeq(S) \in Seq(S)
           /\ \A x \in S : \E i \in DOMAIN SetToSeq(S) : SetToSeq(S)[i] = x
<1> DEFINE n == Cardinality(S)
           s == SetToSeq(S)
<1>1. n \in Nat /\ ExistsBijection(1..n, S)
  BY FS_CardinalityType
<1>2. \E f \in [1..n -> S] : IsInjective(f)
  <2>1. PICK f \in Bijection(1..n, S) : TRUE
    BY <1>1 DEF ExistsBijection
  <2> QED
    BY <2>1 DEF Bijection, Injection, IsInjective
<1>3. s \in [1..n -> S] /\ IsInjective(s)
  BY <1>2, Zenon DEF SetToSeq
<1>4. s \in Injection(1..n, S)
  BY <1>3 DEF Injection, IsInjective
<1>5. Cardinality(1..n) = n /\ IsFiniteSet(1..n)
  BY <1>1, FS_Interval
<1>6. s \in Surjection(1..n, S)
  BY <1>4, <1>5, FS_Injection
<1>7. \A x \in S : \E i \in 1..n : s[i] = x
  BY <1>6 DEF Surjection
<1>8. s \in Seq(S) /\ DOMAIN s = 1..n
  BY <1>1, <1>3
<1> QED
  BY <1>7, <1>8

\* What is ratified, and the entries of it.
RatifiedKeys == {k \in Key : IsRatified(k)}
RatifiedEntries == {RatifiedEntry(k) : k \in RatifiedKeys}

LEMMA RatifiedEntriesFinite == IsFiniteSet(RatifiedEntries)
<1> DEFINE f == [k \in RatifiedKeys |-> RatifiedEntry(k)]
<1>1. IsFiniteSet(RatifiedKeys)
  BY KeyAssumption, FS_Subset DEF RatifiedKeys
<1>2. f \in Surjection(RatifiedKeys, RatifiedEntries)
  BY DEF Surjection, RatifiedEntries
<1> QED
  BY <1>1, <1>2, FS_Surjection

\* The entries of a trail by position: the choices first, then one entry for
\* everything that is ratified, the signature last.
LEMMA TrailPositions ==
    ASSUME choices \in Seq(CompositionChoice)
    PROVE  \E m \in Nat : \E q \in [1..m -> RatifiedEntries] :
             LET n == Len(choices)
                 t == TrailForComposition
             IN  /\ DOMAIN t = 1..(n + m + 1)
                 /\ \A i \in 1..n : t[i] = ChoiceEntry(choices[i])
                 /\ \A i \in 1..m : t[n + i] = q[i]
                 /\ t[n + m + 1] = SignedEntry
                 /\ \A e \in RatifiedEntries : \E i \in 1..m : q[i] = e
<1> DEFINE n == Len(choices)
           c == [i \in DOMAIN choices |-> ChoiceEntry(choices[i])]
           q == SetToSeq(RatifiedEntries)
           m == Len(q)
<1>1. /\ q \in Seq(RatifiedEntries)
      /\ \A e \in RatifiedEntries : \E i \in DOMAIN q : q[i] = e
  BY RatifiedEntriesFinite, ListsTheSet
<1>2. n \in Nat /\ DOMAIN choices = 1..n
  OBVIOUS
<1>3. c \in Seq({c[i] : i \in 1..n}) /\ Len(c) = n /\ \A i \in 1..n : c[i] = ChoiceEntry(choices[i])
  BY <1>2
<1>4. m \in Nat /\ DOMAIN q = 1..m /\ q \in [1..m -> RatifiedEntries]
  BY <1>1
<1>5. TrailForComposition = c \o q \o <<SignedEntry>>
  BY DEF TrailForComposition, RatifiedEntries, RatifiedKeys
<1> DEFINE t == c \o q \o <<SignedEntry>>
<1> HIDE DEF c, q, m, n
<1>6. /\ DOMAIN t = 1..(n + m + 1)
      /\ \A i \in 1..n : t[i] = c[i]
      /\ \A i \in 1..m : t[n + i] = q[i]
      /\ t[n + m + 1] = SignedEntry
  <2> DEFINE U == {c[i] : i \in 1..n} \cup RatifiedEntries \cup {SignedEntry}
             ab == c \o q
  <2>1. c \in Seq(U) /\ q \in Seq(U) /\ <<SignedEntry>> \in Seq(U)
    BY <1>1, <1>3
  <2> HIDE DEF U
  <2>2. /\ ab \in Seq(U)
        /\ Len(ab) = n + m
        /\ \A i \in 1..(n + m) : ab[i] = IF i <= n THEN c[i] ELSE q[i - n]
    BY <2>1, <1>3, ConcatProperties DEF m
  <2> HIDE DEF ab
  <2>3. /\ t \in Seq(U)
        /\ Len(t) = n + m + 1
        /\ \A i \in 1..(n + m + 1) :
              t[i] = IF i <= n + m THEN ab[i] ELSE <<SignedEntry>>[i - (n + m)]
    <3>1. t = ab \o <<SignedEntry>>
      BY DEF ab
    <3>2. Len(<<SignedEntry>>) = 1
      OBVIOUS
    <3> HIDE DEF t
    <3> QED
      BY <2>1, <2>2, <3>1, <3>2, ConcatProperties
  <2> HIDE DEF t
  <2> QED
    BY <2>2, <2>3, <1>2, <1>4
<1>7. t = TrailForComposition
  BY <1>5
<1> HIDE DEF t
<1>8. \A i \in 1..n : t[i] = ChoiceEntry(choices[i])
  BY <1>6, <1>3
<1>9. \A e \in RatifiedEntries : \E i \in 1..m : q[i] = e
  BY <1>1, <1>4
<1> QED
  BY <1>4, <1>6, <1>7, <1>8, <1>9 DEF n

-----------------------------------------------------------------------------
(***************************************************************************)
(* The inductive invariant: what is signed is what was checked.            *)
(***************************************************************************)
StatementInv ==
    /\ choices \in Seq(CompositionChoice)
    /\ \A k \in Key : options[k] \in Readings[k]
    /\ Signed => Admissible /\ trail = TrailForComposition

\* The checks and the trail depend on what the request and the engine say alone.
LEMMA SameChoicesSameTrail ==
    ASSUME UNCHANGED <<tier, options, choices>>
    PROVE  /\ Admissible' <=> Admissible
           /\ TrailForComposition' = TrailForComposition
<1>1. Made' = Made
  BY DEF Made
<1>2. \A kind, k : Controls(kind, k)' = Controls(kind, k)
  BY <1>1 DEF Controls
<1>3. \A k : /\ Selected(k)' = Selected(k)
            /\ Rejected(k)' = Rejected(k)
            /\ Declared(k)' = Declared(k)
  BY <1>2 DEF Selected, Rejected, Declared
<1>4. \A k : (Coherent(k)' <=> Coherent(k)) /\ (IsRatified(k)' <=> IsRatified(k))
  BY <1>2, <1>3 DEF Coherent, IsRatified, DecidedByHuman, GapAccepted
<1>5. \A k : MandateClosed(k)' <=> MandateClosed(k)
  BY <1>1 DEF MandateClosed
<1>6. Admissible' <=> Admissible
  BY <1>4, <1>5 DEF Admissible
<1>7. \A c : ChoiceEntry(c)' = ChoiceEntry(c)
  BY DEF ChoiceEntry, GatingExcluded
<1>8. \A k : RatifiedEntry(k)' = RatifiedEntry(k)
  BY DEF RatifiedEntry
<1>9. {RatifiedEntry(k) : k \in {k \in Key : IsRatified(k)}}'
         = {RatifiedEntry(k) : k \in {k \in Key : IsRatified(k)}}
  BY <1>4, <1>8
<1>10. [i \in DOMAIN choices |-> ChoiceEntry(choices[i])]'
         = [i \in DOMAIN choices |-> ChoiceEntry(choices[i])]
  BY <1>7
<1>11. TrailForComposition' = TrailForComposition
  BY <1>9, <1>10, Zenon DEF TrailForComposition, SignedEntry
<1> QED
  BY <1>6, <1>11

\* What is signed is what the checks of the composition let through, as its
\* trail lists it.
THEOREM SignedAsChecked == Spec => []StatementInv
<1>1. Init => StatementInv
  BY DEF Init, StatementInv, Signed
<1>2. StatementInv /\ [Next]_vars => StatementInv'
  <2> SUFFICES ASSUME StatementInv, [Next]_vars PROVE StatementInv'
    OBVIOUS
  <2>1. CASE Compose
    BY <2>1, SameChoicesSameTrail DEF StatementInv, Compose, Signed
  <2>2. ASSUME NEW c \in CompositionChoice, Decide(c) PROVE StatementInv'
    BY <2>2 DEF StatementInv, Decide, Signed
  <2>3. CASE UNCHANGED vars
    BY <2>3, SameChoicesSameTrail DEF StatementInv, vars, Signed
  <2> QED
    BY <2>1, <2>2, <2>3 DEF Next
<1> QED
  BY <1>1, <1>2, PTL DEF Spec

\* The signed trail by position.
LEMMA SignedTrail ==
    ASSUME StatementInv, Signed
    PROVE  \E top \in Nat :
             LET n == Len(choices)
             IN  /\ DOMAIN trail = 1..top
                 /\ n \in Nat
                 /\ n <= top
                 /\ DOMAIN choices = 1..n
                 /\ \A i \in 1..n : /\ choices[i] \in CompositionChoice
                                    /\ trail[i] = ChoiceEntry(choices[i])
                 /\ \A i \in 1..top : i > n =>
                       \/ trail[i] = SignedEntry
                       \/ \E k \in Key : IsRatified(k) /\ trail[i] = RatifiedEntry(k)
                 /\ \A k \in Key : IsRatified(k) =>
                       \E i \in 1..top : i > n /\ trail[i] = RatifiedEntry(k)
<1> DEFINE n == Len(choices)
<1>1. choices \in Seq(CompositionChoice) /\ trail = TrailForComposition
  BY DEF StatementInv
<1>10. PICK m \in Nat : \E q \in [1..m -> RatifiedEntries] :
         /\ DOMAIN trail = 1..(n + m + 1)
         /\ \A i \in 1..n : trail[i] = ChoiceEntry(choices[i])
         /\ \A i \in 1..m : trail[n + i] = q[i]
         /\ trail[n + m + 1] = SignedEntry
         /\ \A e \in RatifiedEntries : \E i \in 1..m : q[i] = e
  BY <1>1, TrailPositions
<1>2. PICK q \in [1..m -> RatifiedEntries] :
         /\ DOMAIN trail = 1..(n + m + 1)
         /\ \A i \in 1..n : trail[i] = ChoiceEntry(choices[i])
         /\ \A i \in 1..m : trail[n + i] = q[i]
         /\ trail[n + m + 1] = SignedEntry
         /\ \A e \in RatifiedEntries : \E i \in 1..m : q[i] = e
  BY <1>10
<1>3. n \in Nat /\ DOMAIN choices = 1..n /\ \A i \in 1..n : choices[i] \in CompositionChoice
  BY <1>1
<1> DEFINE top == n + m + 1
<1> HIDE DEF n
<1>4. \A i \in 1..top : i > n => trail[i] = SignedEntry \/ trail[i] \in RatifiedEntries
  <2> TAKE i \in 1..top
  <2> HAVE i > n
  <2>1. i = n + m + 1 \/ (i - n) \in 1..m
    BY <1>3
  <2>2. CASE (i - n) \in 1..m
    <3>1. trail[n + (i - n)] = q[i - n]
      BY <2>2, <1>2
    <3> QED
      BY <3>1, <2>2, <1>3
  <2> QED
    BY <2>1, <2>2, <1>2
<1>5. \A k \in Key : IsRatified(k) => \E i \in 1..top : i > n /\ trail[i] = RatifiedEntry(k)
  <2> SUFFICES ASSUME NEW k \in Key, IsRatified(k)
               PROVE  \E i \in 1..top : i > n /\ trail[i] = RatifiedEntry(k)
    OBVIOUS
  <2>1. PICK i \in 1..m : q[i] = RatifiedEntry(k)
    BY <1>2 DEF RatifiedEntries, RatifiedKeys
  <2>2. trail[n + i] = RatifiedEntry(k) /\ n + i \in 1..top /\ n + i > n
    BY <2>1, <1>2, <1>3
  <2> QED
    BY <2>2
<1>6. \A i \in 1..top : i > n =>
         \/ trail[i] = SignedEntry
         \/ \E k \in Key : IsRatified(k) /\ trail[i] = RatifiedEntry(k)
  BY <1>4 DEF RatifiedEntries, RatifiedKeys
<1>7. top \in Nat /\ n <= top /\ DOMAIN trail = 1..top
  BY <1>2, <1>3
<1> QED
  BY <1>2, <1>3, <1>5, <1>6, <1>7 DEF n

-----------------------------------------------------------------------------
(***************************************************************************)
(* What an entry says of a mechanism                                       *)
(***************************************************************************)
\* The controls of a kind are those of the choices of that kind.
LEMMA ControlsByPosition ==
    ASSUME NEW kind, NEW k, NEW c
    PROVE  c \in Controls(kind, k) <=>
              \E i \in DOMAIN choices :
                 choices[i].kind = kind /\ choices[i].key = k /\ choices[i].control = c
BY DEF Controls, Made

\* An entry that names a mechanism is a choice about it, or ratifies it.
LEMMA NamedByChoiceOrRatified ==
    ASSUME StatementInv, Signed, NEW k \in Key, NEW c, NEW i \in Named(k, c)
    PROVE  \/ /\ i \in DOMAIN choices
              /\ choices[i].key = k
              /\ choices[i].control = c
              /\ choices[i].kind \in ChoiceKind \ {"gap_accepted"}
              /\ trail[i].type = choices[i].kind
              /\ trail[i].despite_gating <=> GatingExcluded(k, c)
           \/ /\ i > Len(choices)
              /\ IsRatified(k)
              /\ c \in Retained(options[k])
              /\ trail[i].type = "mechanism_ratified"
<1> DEFINE n == Len(choices)
<1>1. PICK top \in Nat :
         /\ DOMAIN trail = 1..top
         /\ n \in Nat
         /\ n <= top
         /\ DOMAIN choices = 1..n
         /\ \A j \in 1..n : choices[j] \in CompositionChoice /\ trail[j] = ChoiceEntry(choices[j])
         /\ \A j \in 1..top : j > n =>
               \/ trail[j] = SignedEntry
               \/ \E l \in Key : IsRatified(l) /\ trail[j] = RatifiedEntry(l)
  BY SignedTrail
<1> HIDE DEF n
<1>2. i \in 1..top /\ trail[i].key = k /\ c \in trail[i].controls
  BY <1>1 DEF Named
<1>3. CASE i \in 1..n
  <2>1. trail[i] = ChoiceEntry(choices[i]) /\ choices[i] \in CompositionChoice
    BY <1>1, <1>3
  <2>2. /\ choices[i].key = k
        /\ c = choices[i].control
        /\ c # None
        /\ trail[i].type = choices[i].kind
        /\ trail[i].despite_gating = GatingExcluded(choices[i].key, choices[i].control)
    BY <1>2, <2>1 DEF ChoiceEntry
  <2>3. choices[i].kind \in ChoiceKind \ {"gap_accepted"}
    BY <2>1, <2>2 DEF CompositionChoice
  <2> QED
    BY <1>1, <1>3, <2>2, <2>3
<1>4. CASE i > n
  <2>1. trail[i] # SignedEntry
    BY <1>2 DEF SignedEntry
  <2>2. PICK l \in Key : IsRatified(l) /\ trail[i] = RatifiedEntry(l)
    BY <1>1, <1>2, <1>4, <2>1
  <2>3. l = k /\ c \in Retained(options[l]) /\ trail[i].type = "mechanism_ratified"
    BY <1>2, <2>2 DEF RatifiedEntry
  <2> QED
    BY <1>4, <2>2, <2>3 DEF n
<1> QED
  BY <1>1, <1>2, <1>3, <1>4

\* Of the entries that name a mechanism there is a last one.
LEMMA LastWord ==
    ASSUME StatementInv, Signed, NEW k, NEW c, Named(k, c) # {}
    PROVE  /\ Max(Named(k, c)) \in Named(k, c)
           /\ \A i \in Named(k, c) : i <= Max(Named(k, c))
<1>1. PICK top \in Nat : DOMAIN trail = 1..top
  BY SignedTrail
<1>2. Named(k, c) \in SUBSET (1..top)
  BY <1>1 DEF Named
<1> QED
  BY <1>1, <1>2, LastOne

\* A choice of a mechanism names it in the trail, at the same place.
LEMMA ChoiceNames ==
    ASSUME StatementInv, Signed, NEW i \in DOMAIN choices, choices[i].control # None
    PROVE  /\ i \in Named(choices[i].key, choices[i].control)
           /\ i <= Len(choices)
           /\ trail[i].type = choices[i].kind
<1> DEFINE n == Len(choices)
<1>1. /\ n \in Nat
      /\ DOMAIN choices = 1..n
      /\ i \in DOMAIN trail
      /\ trail[i] = ChoiceEntry(choices[i])
  BY SignedTrail
<1> QED
  BY <1>1 DEF Named, ChoiceEntry

-----------------------------------------------------------------------------
(***************************************************************************)
(* What is in force                                                        *)
(***************************************************************************)
LEMMA IncludedIsAdoptedOrRatified ==
    ASSUME StatementInv, Signed, NEW k \in Key, NEW c \in Included(k)
    PROVE  \/ /\ c \in Selected(k) \cup Declared(k)
              /\ GatingExcluded(k, c) => DespiteGating(k, c)
           \/ IsRatified(k) /\ c \in Retained(options[k])
<1>1. CASE Named(k, c) = {}
  <2>1. Disposition(k, c) \in INCLUDED_DISPOSITIONS
    BY DEF Included
  <2>2. GatingExcluded(k, c) /\ options[k][c].excluded \in INCLUDED_DISPOSITIONS
    BY <1>1, <2>1 DEF Disposition, INCLUDED_DISPOSITIONS
  <2>3. AreOptions(options[k])
    BY ReadingsAssumption DEF StatementInv
  <2>4. options[k][c] \in CandidateOption
    BY <2>2, <2>3 DEF AreOptions, GatingExcluded
  <2>5. options[k][c].excluded \in GatingOutcome \cup {None}
    BY <2>4 DEF CandidateOption
  <2> QED
    BY <2>2, <2>5 DEF GatingOutcome, None, INCLUDED_DISPOSITIONS
<1>2. CASE Named(k, c) # {}
  <2> DEFINE m == Max(Named(k, c))
  <2>1. m \in Named(k, c)
    BY <1>2, LastWord
  <2>2. trail[m].type \in INCLUDED_DISPOSITIONS
    BY <1>2 DEF Included, Disposition
  <2> HIDE DEF m
  <2>3. CASE /\ m \in DOMAIN choices
             /\ choices[m].key = k
             /\ choices[m].control = c
             /\ choices[m].kind \in ChoiceKind \ {"gap_accepted"}
             /\ trail[m].type = choices[m].kind
             /\ trail[m].despite_gating <=> GatingExcluded(k, c)
    <3>1. choices[m].kind \in {"option_selected", "compensatory_declared"}
      BY <2>2, <2>3 DEF INCLUDED_DISPOSITIONS, ChoiceKind
    <3>2. c \in Selected(k) \cup Declared(k)
      BY <2>3, <3>1, ControlsByPosition DEF Selected, Declared
    <3>3. GatingExcluded(k, c) => DespiteGating(k, c)
      BY <2>1, <2>3 DEF DespiteGating
    <3> QED
      BY <3>2, <3>3
  <2> QED
    BY <2>1, <2>3, NamedByChoiceOrRatified
<1> QED
  BY <1>1, <1>2

LEMMA AdoptedIsIncluded ==
    ASSUME StatementInv, Signed, NEW k \in Key, NEW c \in Selected(k) \cup Declared(k),
           c \notin Rejected(k)
    PROVE  /\ c \in Included(k)
           /\ Disposition(k, c) \in {"option_selected", "compensatory_declared"}
<1>1. PICK i \in DOMAIN choices : /\ choices[i].kind \in {"option_selected", "compensatory_declared"}
                                  /\ choices[i].key = k
                                  /\ choices[i].control = c
  BY ControlsByPosition DEF Selected, Declared
<1>2. choices[i] \in CompositionChoice
  BY <1>1, SignedTrail
<1>3. c # None /\ c \in Control
  BY <1>1, <1>2 DEF CompositionChoice
<1>4. i \in Named(k, c)
  BY <1>1, <1>3, ChoiceNames
<1> DEFINE m == Max(Named(k, c))
<1>5. m \in Named(k, c)
  BY <1>4, LastWord
<1>6. Disposition(k, c) = trail[m].type
  BY <1>4 DEF Disposition
<1> HIDE DEF m
<1>7. ~IsRatified(k)
  BY DEF IsRatified, DecidedByHuman
<1>8. /\ m \in DOMAIN choices
      /\ choices[m].key = k
      /\ choices[m].control = c
      /\ choices[m].kind \in ChoiceKind \ {"gap_accepted"}
      /\ trail[m].type = choices[m].kind
  BY <1>5, <1>7, NamedByChoiceOrRatified
<1>9. choices[m].kind # "option_rejected"
  BY <1>8, ControlsByPosition DEF Rejected
<1>10. trail[m].type \in {"option_selected", "compensatory_declared"}
  BY <1>8, <1>9 DEF ChoiceKind
<1>11. c \in Mechanisms(k)
  BY <1>3, <1>4 DEF Mechanisms
<1> QED
  BY <1>6, <1>10, <1>11 DEF Included, INCLUDED_DISPOSITIONS

LEMMA RatifiedIsIncluded ==
    ASSUME StatementInv, Signed, NEW k \in Key, IsRatified(k), NEW c \in Retained(options[k])
    PROVE  /\ c \in Included(k)
           /\ Disposition(k, c) = "mechanism_ratified"
<1> DEFINE n == Len(choices)
           m == Max(Named(k, c))
<1>1. PICK i \in DOMAIN trail : i > n /\ trail[i] = RatifiedEntry(k)
  BY SignedTrail
<1>2. i \in Named(k, c)
  BY <1>1 DEF Named, RatifiedEntry
<1>3. m \in Named(k, c) /\ i <= m
  BY <1>2, LastWord
<1>4. Disposition(k, c) = trail[m].type
  BY <1>2 DEF Disposition
<1>5. m \notin DOMAIN choices
  <2>1. n \in Nat /\ DOMAIN choices = 1..n /\ i \in Nat /\ m \in Nat
    BY <1>3, SignedTrail DEF Named
  <2> HIDE DEF m, n
  <2> QED
    BY <1>1, <1>3, <2>1
<1>6. trail[m].type = "mechanism_ratified"
  <2> HIDE DEF m
  <2> QED
    BY <1>3, <1>5, NamedByChoiceOrRatified
<1>7. c \in DOMAIN options[k]
  BY DEF Retained, Available
<1> QED
  BY <1>4, <1>6, <1>7 DEF Included, Mechanisms, INCLUDED_DISPOSITIONS

-----------------------------------------------------------------------------
(***************************************************************************)
(* The properties                                                          *)
(***************************************************************************)
LEMMA NamesEveryMandate == StatementInv => MandateInSomeonesName
<1> SUFFICES ASSUME StatementInv, Signed, NEW k \in Mandatory
             PROVE  \E i \in DOMAIN trail : trail[i].key = k /\ trail[i].type # "option_rejected"
  BY DEF MandateInSomeonesName
<1>1. k \in Key /\ tier[k] = "tier_0"
  BY DEF Mandatory
<1>2. CASE IsRatified(k)
  <2>1. PICK i \in DOMAIN trail : trail[i] = RatifiedEntry(k)
    BY <1>1, <1>2, SignedTrail
  <2> QED
    BY <2>1 DEF RatifiedEntry
<1>3. CASE DecidedByHuman(k)
  <2>1. PICK kind \in CLOSING_KINDS : Controls(kind, k) # {}
    BY <1>3 DEF DecidedByHuman, Selected, Declared, GapAccepted, CLOSING_KINDS, ChoiceKind
  <2>2. PICK i \in DOMAIN choices : choices[i].kind = kind /\ choices[i].key = k
    BY <2>1, ControlsByPosition
  <2>3. i \in DOMAIN trail /\ trail[i] = ChoiceEntry(choices[i])
    BY SignedTrail
  <2> QED
    BY <2>2, <2>3 DEF ChoiceEntry, CLOSING_KINDS
<1> QED
  BY <1>1, <1>2, <1>3 DEF IsRatified

LEMMA ReadsWhatIsInForce == StatementInv => StatementAgrees
<1> SUFFICES ASSUME StatementInv, Signed, NEW k \in Key, Declared(k) \cap Rejected(k) = {}
             PROVE  Included(k) = InBaseline(k)
  BY DEF StatementAgrees
<1>1. Selected(k) \cap Rejected(k) = {}
  BY DEF StatementInv, Admissible, Coherent
<1>2. ASSUME NEW c \in Included(k) PROVE c \in InBaseline(k)
  BY IncludedIsAdoptedOrRatified DEF InBaseline
<1>3. ASSUME NEW c \in InBaseline(k) PROVE c \in Included(k)
  <2>1. CASE c \in Selected(k) \cup Declared(k)
    BY <2>1, <1>1, AdoptedIsIncluded
  <2>2. CASE IsRatified(k) /\ c \in Retained(options[k])
    BY <2>2, RatifiedIsIncluded
  <2> QED
    BY <2>1, <2>2 DEF InBaseline
<1> QED
  BY <1>2, <1>3

LEMMA ExcludedOnlyOnWord == StatementInv => NothingExcludedSilently
<1> SUFFICES ASSUME StatementInv, Signed, NEW k \in Key, NEW c \in Included(k),
                    GatingExcluded(k, c)
             PROVE  DespiteGating(k, c) /\ c \in Selected(k) \cup Declared(k)
  BY DEF NothingExcludedSilently
<1>1. c \notin Retained(options[k])
  BY DEF GatingExcluded, Retained, Available
<1> QED
  BY <1>1, IncludedIsAdoptedOrRatified

LEMMA AcceptedGapIsRead ==
    ASSUME StatementInv, Signed, NEW k \in Key, GapAccepted(k)
    PROVE  GapIsAccepted(k)
<1>1. PICK i \in DOMAIN choices : choices[i].kind = "gap_accepted" /\ choices[i].key = k
  BY ControlsByPosition DEF GapAccepted
<1>2. i \in DOMAIN trail /\ trail[i] = ChoiceEntry(choices[i])
  BY SignedTrail
<1> QED
  BY <1>1, <1>2 DEF GapIsAccepted, ChoiceEntry

\* What the outcome of a mandate says when it is one of the two that leave it
\* uncovered.
LEMMA OutcomeOfMandate ==
    ASSUME StatementInv, Signed, NEW k \in Mandatory
    PROVE  /\ Outcome(k) \in {"open_gap", "compensated"} => ~GapIsAccepted(k)
           /\ Outcome(k) = "open_gap" =>
                 Included(k) = {} /\ CapabilityStatus(options[k]) = "covered_by_mechanism"
           /\ Outcome(k) = "compensated" =>
                 \/ \E c \in Mechanisms(k) : Disposition(k, c) = "compensatory_declared"
                 \/ Included(k) = {} /\ CapabilityStatus(options[k]) = "compensatory_required"
<1>1. InSignedBaseline(k)
  BY DEF Mandatory, InSignedBaseline
<1>2. CapabilityStatus(options[k]) \in
         {"covered_by_mechanism", "deferred_to_organizational_layer", "compensatory_required"}
  BY DEF CapabilityStatus
<1>3. CASE GapIsAccepted(k)
  <2>1. Outcome(k) = "accepted_gap"
    BY <1>1, <1>3 DEF Outcome
  <2> QED
    BY <2>1
<1>4. CASE ~GapIsAccepted(k)
  <2>1. Outcome(k) =
           IF \E c \in Mechanisms(k) : Disposition(k, c) = "compensatory_declared"
           THEN "compensated"
           ELSE IF Included(k) # {} THEN "implemented"
           ELSE IF CapabilityStatus(options[k]) = "deferred_to_organizational_layer" THEN "deferred"
           ELSE IF CapabilityStatus(options[k]) = "compensatory_required" THEN "compensated"
           ELSE "open_gap"
    BY <1>1, <1>4 DEF Outcome
  <2> QED
    BY <1>2, <1>4, <2>1
<1> QED
  BY <1>3, <1>4

\* A mechanism that was adopted and is not in force was rejected afterwards.
LEMMA LaterRejection ==
    ASSUME StatementInv, Signed, NEW k \in Key, NEW c \in Declared(k), c \notin Included(k)
    PROVE  Before("compensatory_declared", "option_rejected", k, c)
<1>1. PICK i \in DOMAIN choices : /\ choices[i].kind = "compensatory_declared"
                                  /\ choices[i].key = k
                                  /\ choices[i].control = c
  BY ControlsByPosition DEF Declared
<1>2. choices[i] \in CompositionChoice
  BY SignedTrail
<1>3. c # None /\ c \in Control
  BY <1>1, <1>2 DEF CompositionChoice
<1>4. i \in Named(k, c)
  BY <1>1, <1>3, ChoiceNames
<1> DEFINE m == Max(Named(k, c))
<1>5. m \in Named(k, c) /\ i <= m
  BY <1>4, LastWord
<1>6. trail[m].type \notin INCLUDED_DISPOSITIONS
  BY <1>3, <1>4 DEF Included, Mechanisms, Disposition
<1> HIDE DEF m
<1>7. ~IsRatified(k)
  BY DEF IsRatified, DecidedByHuman
<1>8. /\ m \in DOMAIN choices
      /\ choices[m].key = k
      /\ choices[m].control = c
      /\ choices[m].kind \in ChoiceKind \ {"gap_accepted"}
      /\ trail[m].type = choices[m].kind
  BY <1>5, <1>7, NamedByChoiceOrRatified
<1>9. choices[m].kind = "option_rejected"
  BY <1>6, <1>8 DEF ChoiceKind, INCLUDED_DISPOSITIONS
<1>10. i < m
  <2>1. i # m
    BY <1>1, <1>9
  <2>2. i \in Nat /\ m \in Nat
    BY <1>8, SignedTrail
  <2> QED
    BY <1>5, <2>1, <2>2
<1>11. /\ choices[i] = [kind |-> "compensatory_declared", key |-> k, control |-> c]
       /\ choices[m] = [kind |-> "option_rejected", key |-> k, control |-> c]
  <2>1. choices[m] \in CompositionChoice
    BY <1>8, SignedTrail
  <2> QED
    BY <1>1, <1>2, <1>8, <1>9, <2>1 DEF CompositionChoice
<1> QED
  BY <1>8, <1>10, <1>11 DEF Before

LEMMA OpenGapTakesARejection == StatementInv => OpenGapOnlyByLaterRejection
<1> SUFFICES ASSUME StatementInv, Signed, NEW k \in Mandatory, Outcome(k) = "open_gap"
             PROVE  /\ Declared(k) # {}
                    /\ \A c \in Declared(k) :
                          Before("compensatory_declared", "option_rejected", k, c)
  BY DEF OpenGapOnlyByLaterRejection
<1>1. /\ ~GapIsAccepted(k)
      /\ Included(k) = {}
      /\ CapabilityStatus(options[k]) = "covered_by_mechanism"
  BY OutcomeOfMandate
<1>2. k \in Key /\ tier[k] = "tier_0"
  BY DEF Mandatory
<1>3. Retained(options[k]) # {}
  BY <1>1 DEF CapabilityStatus
<1>4. ~IsRatified(k)
  BY <1>1, <1>2, <1>3, RatifiedIsIncluded
<1>5. ~GapAccepted(k)
  BY <1>1, <1>2, AcceptedGapIsRead
<1>6. Selected(k) = {}
  <2>1. Selected(k) \cap Rejected(k) = {}
    BY <1>2 DEF StatementInv, Admissible, Coherent
  <2> QED
    BY <1>1, <1>2, <2>1, AdoptedIsIncluded
<1>7. Declared(k) # {}
  BY <1>2, <1>4, <1>5, <1>6 DEF IsRatified, DecidedByHuman
<1>8. ASSUME NEW c \in Declared(k)
      PROVE  Before("compensatory_declared", "option_rejected", k, c)
  BY <1>1, <1>2, LaterRejection
<1> QED
  BY <1>7, <1>8

LEMMA CompensatedTakesADeclaration == StatementInv => CompensatedByDeclaration
<1> SUFFICES ASSUME StatementInv, Signed, NEW k \in Mandatory, Outcome(k) = "compensated"
             PROVE  Declared(k) # {}
  BY DEF CompensatedByDeclaration
<1>1. k \in Key /\ tier[k] = "tier_0"
  BY DEF Mandatory
<1>2. CASE \E c \in Mechanisms(k) : Disposition(k, c) = "compensatory_declared"
  <2>1. PICK c \in Mechanisms(k) : Disposition(k, c) = "compensatory_declared"
    BY <1>2
  <2>2. Named(k, c) # {}
    <3>1. SUFFICES ASSUME Named(k, c) = {} PROVE FALSE
      OBVIOUS
    <3>2. GatingExcluded(k, c) /\ options[k][c].excluded = "compensatory_declared"
      BY <2>1, <3>1 DEF Disposition
    <3>3. options[k][c] \in CandidateOption
      BY <1>1, <3>2, ReadingsAssumption DEF StatementInv, AreOptions, GatingExcluded
    <3> QED
      BY <3>2, <3>3 DEF CandidateOption, GatingOutcome, None
  <2> DEFINE m == Max(Named(k, c))
  <2>3. m \in Named(k, c) /\ trail[m].type = "compensatory_declared"
    BY <2>1, <2>2, LastWord DEF Disposition
  <2> HIDE DEF m
  <2>4. /\ m \in DOMAIN choices
        /\ choices[m].key = k
        /\ choices[m].kind = "compensatory_declared"
        /\ choices[m].control = c
    BY <1>1, <2>3, NamedByChoiceOrRatified
  <2> QED
    BY <2>4, ControlsByPosition DEF Declared
<1>3. CASE /\ Included(k) = {}
           /\ CapabilityStatus(options[k]) = "compensatory_required"
  <2>1. IsOutstanding(tier[k], options[k])
    BY <1>1, <1>3 DEF IsOutstanding
  <2>2. MandateClosed(k) /\ Selected(k) \cap Rejected(k) = {}
    BY <1>1 DEF StatementInv, Admissible, Coherent
  <2>3. PICK i \in DOMAIN choices : choices[i].key = k /\ choices[i].kind \in CLOSING_KINDS
    BY <2>1, <2>2 DEF MandateClosed, Made
  <2>4. choices[i].kind # "gap_accepted"
    <3>1. ~GapIsAccepted(k)
      BY OutcomeOfMandate
    <3> QED
      BY <1>1, <2>3, <3>1, AcceptedGapIsRead, ControlsByPosition DEF GapAccepted
  <2>5. choices[i].kind # "option_selected"
    <3>1. SUFFICES ASSUME choices[i].kind = "option_selected" PROVE FALSE
      OBVIOUS
    <3>2. choices[i].control \in Selected(k)
      BY <2>3, <3>1, ControlsByPosition DEF Selected
    <3> QED
      BY <1>1, <1>3, <2>2, <3>2, AdoptedIsIncluded
  <2>6. choices[i].kind = "compensatory_declared"
    BY <2>3, <2>4, <2>5 DEF CLOSING_KINDS, ChoiceKind
  <2>7. choices[i].control \in Declared(k)
    BY <2>3, <2>6, ControlsByPosition DEF Declared
  <2> QED
    BY <2>7
<1> QED
  BY <1>2, <1>3, OutcomeOfMandate

-----------------------------------------------------------------------------
(***************************************************************************)
(* The export to OSCAL                                                     *)
(***************************************************************************)
\* A requirement answers for the zone of a key with what that key became.
LEMMA AnswerOfKey ==
    ASSUME NEW layout \in Layouts, NEW k \in Key
    PROVE  SystemSecurityPlan(layout).implemented_requirements[layout[k].capability][layout[k].zone]
              = ByComponent(k)
<1> DEFINE capability == layout[k].capability
           zone == layout[k].zone
           of == {l \in Key : layout[l].capability = capability}
<1>1. \A l \in of : layout[l].zone = zone => l = k
  BY LayoutsAssumption
<1>2. k \in of /\ layout[k].zone = zone
  OBVIOUS
<1>3. (CHOOSE l \in of : layout[l].zone = zone) = k
  <2> HIDE DEF of, zone
  <2> QED BY <1>1, <1>2
<1>4. ImplementedRequirement(layout, capability)[zone]
         = ByComponent(CHOOSE l \in of : layout[l].zone = zone)
  <2>1. zone \in {layout[l].zone : l \in of}
    BY <1>2
  <2> QED
    BY <2>1 DEF ImplementedRequirement
<1>5. SystemSecurityPlan(layout).implemented_requirements[capability]
         = ImplementedRequirement(layout, capability)
  <2>1. capability \in {layout[l].capability : l \in Key}
    OBVIOUS
  <2> QED
    BY <2>1 DEF SystemSecurityPlan
<1> QED
  BY <1>3, <1>4, <1>5

\* A capability outside the signed baseline, or whose gap is accepted, has
\* nothing in force.
LEMMA NothingInForce ==
    ASSUME StatementInv, Signed, NEW k \in Key, ~InSignedBaseline(k) \/ GapIsAccepted(k)
    PROVE  Included(k) = {}
<1>1. ~IsRatified(k) /\ Selected(k) \cup Declared(k) = {}
  <2>1. CASE ~InSignedBaseline(k)
    <3>1. ~IsRatified(k)
      BY <2>1 DEF InSignedBaseline, IsRatified
    <3>2. ASSUME NEW i \in DOMAIN choices, choices[i].key = k PROVE FALSE
      <4>1. i \in DOMAIN trail /\ trail[i] = ChoiceEntry(choices[i])
        BY SignedTrail
      <4> QED
        BY <2>1, <3>2, <4>1 DEF InSignedBaseline, ChoiceEntry
    <3> QED
      BY <3>1, <3>2, ControlsByPosition DEF Selected, Declared
  <2>2. CASE GapIsAccepted(k)
    <3>1. PICK i \in DOMAIN trail : trail[i].key = k /\ trail[i].type = "gap_accepted"
      BY <2>2 DEF GapIsAccepted
    <3>2. i \in DOMAIN choices /\ trail[i] = ChoiceEntry(choices[i])
      <4>1. PICK top \in Nat :
               /\ DOMAIN trail = 1..top
               /\ Len(choices) \in Nat
               /\ DOMAIN choices = 1..Len(choices)
               /\ \A j \in 1..Len(choices) : trail[j] = ChoiceEntry(choices[j])
               /\ \A j \in 1..top : j > Len(choices) =>
                     \/ trail[j] = SignedEntry
                     \/ \E l \in Key : IsRatified(l) /\ trail[j] = RatifiedEntry(l)
        BY SignedTrail
      <4>2. ~(i > Len(choices))
        BY <3>1, <4>1 DEF SignedEntry, RatifiedEntry
      <4> QED
        BY <4>1, <4>2
    <3>3. choices[i].kind = "gap_accepted" /\ choices[i].key = k
      BY <3>1, <3>2 DEF ChoiceEntry
    <3>4. choices[i].control \in Controls("gap_accepted", k)
      BY <3>2, <3>3, ControlsByPosition
    <3>5. GapAccepted(k)
      BY <3>4 DEF GapAccepted
    <3> QED
      BY <3>5 DEF StatementInv, Admissible, Coherent, IsRatified, DecidedByHuman
  <2> QED
    BY <2>1, <2>2
<1> QED
  BY <1>1, IncludedIsAdoptedOrRatified

\* The outcomes that go with nothing in force, and the one that takes something.
LEMMA InForceByOutcome ==
    ASSUME StatementInv, Signed, NEW k \in Key
    PROVE  /\ Outcome(k) \in {"implemented", "compensated", "deferred", "accepted_gap",
                              "open_gap", "roadmap"}
           /\ Outcome(k) = "implemented" => Included(k) # {}
           /\ Outcome(k) \in {"deferred", "accepted_gap", "open_gap", "roadmap"} =>
                 Included(k) = {}
           /\ Outcome(k) = "accepted_gap" => GapIsAccepted(k)
           /\ Outcome(k) = "open_gap" => ~GapIsAccepted(k)
<1>1. CASE ~InSignedBaseline(k)
  <2>1. Outcome(k) = "roadmap"
    BY <1>1 DEF Outcome
  <2> QED
    BY <1>1, <2>1, NothingInForce
<1>2. CASE InSignedBaseline(k) /\ GapIsAccepted(k)
  <2>1. Outcome(k) = "accepted_gap"
    BY <1>2 DEF Outcome
  <2> QED
    BY <1>2, <2>1, NothingInForce
<1>3. CASE InSignedBaseline(k) /\ ~GapIsAccepted(k)
  <2>1. Outcome(k) =
           IF \E c \in Mechanisms(k) : Disposition(k, c) = "compensatory_declared"
           THEN "compensated"
           ELSE IF Included(k) # {} THEN "implemented"
           ELSE IF CapabilityStatus(options[k]) = "deferred_to_organizational_layer" THEN "deferred"
           ELSE IF CapabilityStatus(options[k]) = "compensatory_required" THEN "compensated"
           ELSE "open_gap"
    BY <1>3 DEF Outcome
  <2> QED
    BY <1>3, <2>1
<1> QED
  BY <1>1, <1>2, <1>3

\* A capability reads as compensated because a declared control is in force, or
\* because gating left nothing of it and nothing is.
LEMMA OutcomeCompensated ==
    ASSUME StatementInv, Signed, NEW k \in Key, Outcome(k) = "compensated"
    PROVE  /\ InSignedBaseline(k) /\ ~GapIsAccepted(k)
           /\ \/ \E c \in Mechanisms(k) : Disposition(k, c) = "compensatory_declared"
              \/ Included(k) = {} /\ CapabilityStatus(options[k]) = "compensatory_required"
<1>1. CASE ~InSignedBaseline(k) \/ GapIsAccepted(k)
  <2>1. Outcome(k) \in {"roadmap", "accepted_gap"}
    BY <1>1 DEF Outcome
  <2> QED
    BY <2>1
<1>2. CASE InSignedBaseline(k) /\ ~GapIsAccepted(k)
  <2>1. Outcome(k) =
           IF \E c \in Mechanisms(k) : Disposition(k, c) = "compensatory_declared"
           THEN "compensated"
           ELSE IF Included(k) # {} THEN "implemented"
           ELSE IF CapabilityStatus(options[k]) = "deferred_to_organizational_layer" THEN "deferred"
           ELSE IF CapabilityStatus(options[k]) = "compensatory_required" THEN "compensated"
           ELSE "open_gap"
    BY <1>2 DEF Outcome
  <2> QED
    BY <1>2, <2>1
<1> QED
  BY <1>1, <1>2

\* What the statement reads as declared to compensate, the operator declared.
LEMMA DeclaredByDisposition ==
    ASSUME StatementInv, Signed, NEW k \in Key, NEW c \in Mechanisms(k),
           Disposition(k, c) = "compensatory_declared"
    PROVE  c \in Declared(k) /\ c \in Included(k)
<1>1. Named(k, c) # {}
  <2>1. SUFFICES ASSUME Named(k, c) = {} PROVE FALSE
    OBVIOUS
  <2>2. GatingExcluded(k, c) /\ options[k][c].excluded = "compensatory_declared"
    BY <2>1 DEF Disposition
  <2>3. options[k][c] \in CandidateOption
    BY <2>2, ReadingsAssumption DEF StatementInv, AreOptions, GatingExcluded
  <2> QED
    BY <2>2, <2>3 DEF CandidateOption, GatingOutcome, None
<1> DEFINE m == Max(Named(k, c))
<1>2. m \in Named(k, c) /\ trail[m].type = "compensatory_declared"
  BY <1>1, LastWord DEF Disposition
<1> HIDE DEF m
<1>3. /\ m \in DOMAIN choices
      /\ choices[m].key = k
      /\ choices[m].kind = "compensatory_declared"
      /\ choices[m].control = c
  BY <1>2, NamedByChoiceOrRatified
<1> QED
  BY <1>3, ControlsByPosition DEF Declared, Included, INCLUDED_DISPOSITIONS

\* A capability that is compensated with nothing in force: all the operator did
\* about it is reject.
LEMMA CompensatedByNothing ==
    ASSUME StatementInv, Signed, NEW k \in Key, Outcome(k) = "compensated",
           Included(k) = {}
    PROVE  OnlyRejected(k)
<1>1. /\ InSignedBaseline(k) /\ ~GapIsAccepted(k)
      /\ CapabilityStatus(options[k]) = "compensatory_required"
  BY OutcomeCompensated, DeclaredByDisposition
<1>2. Selected(k) = {}
  <2>1. Selected(k) \cap Rejected(k) = {}
    BY DEF StatementInv, Admissible, Coherent
  <2> QED
    BY <2>1, AdoptedIsIncluded
<1>3. Declared(k) \subseteq Rejected(k)
  BY AdoptedIsIncluded
<1>4. tier[k] = "tier_0" => Declared(k) # {}
  BY CompensatedTakesADeclaration DEF CompensatedByDeclaration, Mandatory
<1>5. Rejected(k) # {}
  <2>1. CASE Declared(k) # {}
    BY <1>3, <2>1
  <2>2. CASE Declared(k) = {}
    <3>1. PICK i \in DOMAIN trail : trail[i].key = k
      BY <1>1, <1>4, <2>2 DEF InSignedBaseline
    <3>2. i \in DOMAIN choices /\ trail[i] = ChoiceEntry(choices[i])
      <4>1. PICK top \in Nat :
               /\ DOMAIN trail = 1..top
               /\ Len(choices) \in Nat
               /\ DOMAIN choices = 1..Len(choices)
               /\ \A j \in 1..Len(choices) : trail[j] = ChoiceEntry(choices[j])
               /\ \A j \in 1..top : j > Len(choices) =>
                     \/ trail[j] = SignedEntry
                     \/ \E l \in Key : IsRatified(l) /\ trail[j] = RatifiedEntry(l)
        BY SignedTrail
      <4>2. ~IsRatified(k)
        BY <1>4, <2>2 DEF IsRatified
      <4>3. trail[i] # SignedEntry
        BY <3>1, KeyAssumption DEF SignedEntry
      <4>4. ~(i > Len(choices))
        BY <3>1, <4>1, <4>2, <4>3 DEF RatifiedEntry
      <4> QED
        BY <4>1, <4>4
    <3>3. choices[i] \in CompositionChoice /\ choices[i].key = k
      BY <3>1, <3>2, SignedTrail DEF ChoiceEntry
    <3>4. choices[i].control \in Controls(choices[i].kind, k)
      BY <3>2, <3>3, ControlsByPosition
    <3>5. choices[i].kind # "gap_accepted"
      BY <1>1, <3>4, AcceptedGapIsRead DEF GapAccepted
    <3>6. choices[i].kind \in ChoiceKind
      BY <3>3 DEF CompositionChoice
    <3> QED
      BY <1>2, <2>2, <3>4, <3>5, <3>6 DEF Selected, Declared, Rejected, ChoiceKind
  <2> QED
    BY <2>1, <2>2
<1> QED
  BY <1>1, <1>2, <1>3, <1>4, <1>5 DEF OnlyRejected

\* An answer's state says no more of a key than its row in the statement.
LEMMA ComponentSaysNoMore ==
    ASSUME StatementInv, Signed, NEW k \in Key
    PROVE  AnswerSaysNoMore(k, ByComponent(k))
<1>1. Included(k) \cap ExcludedControls(k) = {}
  BY DEF Included, ExcludedControls, INCLUDED_DISPOSITIONS, GatingOutcome
<1>2. STATE_BY_OUTCOME[Outcome(k)] = "implemented" => Included(k) # {}
  BY InForceByOutcome DEF STATE_BY_OUTCOME
<1>3. STATE_BY_OUTCOME[Outcome(k)] \in {"partial", "planned", "not-applicable"} =>
         Included(k) = {}
  BY InForceByOutcome DEF STATE_BY_OUTCOME
<1>4. ASSUME STATE_BY_OUTCOME[Outcome(k)] = "alternative"
      PROVE  Included(k) \cap Declared(k) # {} \/ (Included(k) = {} /\ OnlyRejected(k))
  <2>1. Outcome(k) = "compensated"
    BY <1>4, InForceByOutcome DEF STATE_BY_OUTCOME
  <2> QED
    BY <2>1, OutcomeCompensated, DeclaredByDisposition, CompensatedByNothing
<1> HIDE DEF STATE_BY_OUTCOME
<1> QED
  BY <1>1, <1>2, <1>3, <1>4 DEF AnswerSaysNoMore, ByComponent

\* A partial answer nobody accepted is an open gap.
LEMMA UnmetIsOpen ==
    ASSUME StatementInv, Signed, NEW k \in Key
    PROVE  IsUnmet(ByComponent(k)) <=> tier[k] = "tier_0" /\ Outcome(k) = "open_gap"
<1>1. STATE_BY_OUTCOME[Outcome(k)] = "partial" /\ ~GapIsAccepted(k) <=> Outcome(k) = "open_gap"
  BY InForceByOutcome DEF STATE_BY_OUTCOME
<1>2. IsUnmet(ByComponent(k)) <=>
         tier[k] = "tier_0" /\ STATE_BY_OUTCOME[Outcome(k)] = "partial" /\ ~GapIsAccepted(k)
  BY Zenon DEF IsUnmet, ByComponent
<1> QED
  BY <1>1, <1>2

LEMMA StatesSayWhatWasSigned == StatementInv => StatesDoNotMislead
<1> SUFFICES ASSUME StatementInv, Signed, NEW layout \in Layouts
             PROVE  LET plan == SystemSecurityPlan(layout)
                        answer(k) == plan.implemented_requirements[layout[k].capability][layout[k].zone]
                    IN  /\ \A k \in Key : AnswerSaysNoMore(k, answer(k))
                        /\ \A zone \in DOMAIN plan.components :
                              plan.components[zone].status = "operational" <=>
                                  ~ \E k \in Key : layout[k].zone = zone /\ IsUnmet(answer(k))
  BY Zenon DEF StatesDoNotMislead
<1> DEFINE plan == SystemSecurityPlan(layout)
           answer(k) == plan.implemented_requirements[layout[k].capability][layout[k].zone]
<1>1. \A k \in Key : answer(k) = ByComponent(k)
  BY AnswerOfKey
<1>2. ASSUME NEW zone \in DOMAIN plan.components
      PROVE  plan.components[zone].status = "operational" <=> ZoneIsComplete(layout, zone)
  BY <1>2 DEF SystemSecurityPlan, Component
<1> HIDE DEF plan, answer
<1>3. \A k \in Key : AnswerSaysNoMore(k, answer(k))
  BY <1>1, ComponentSaysNoMore, Zenon
<1>4. ASSUME NEW zone \in DOMAIN plan.components
      PROVE  plan.components[zone].status = "operational" <=>
                 ~ \E k \in Key : layout[k].zone = zone /\ IsUnmet(answer(k))
  <2>1. \A k \in Key : IsUnmet(answer(k)) <=> tier[k] = "tier_0" /\ Outcome(k) = "open_gap"
    BY <1>1, UnmetIsOpen, Zenon
  <2> QED
    BY <1>2, <1>4, <2>1, Zenon DEF ZoneIsComplete
<1> QED
  BY <1>3, <1>4, Zenon DEF answer, plan

-----------------------------------------------------------------------------
\* In a signed baseline every mandate is in someone's name.
THEOREM EveryMandateInSomeonesName == Spec => []MandateInSomeonesName
BY SignedAsChecked, NamesEveryMandate, PTL

\* What the statement reads off the ledger is what the baseline put in force,
\* but for a mechanism that was both declared and rejected.
THEOREM StatementReadsBaseline == Spec => []StatementAgrees
BY SignedAsChecked, ReadsWhatIsInForce, PTL

\* A mandate reads as open only where what compensated it was rejected later.
THEOREM OpenOnlyByLaterRejection == Spec => []OpenGapOnlyByLaterRejection
BY SignedAsChecked, OpenGapTakesARejection, PTL

\* A mandate that reads as compensated was declared so.
THEOREM CompensatedOnlyByDeclaration == Spec => []CompensatedByDeclaration
BY SignedAsChecked, CompensatedTakesADeclaration, PTL

\* What gating excluded is in force on the operator's word only, and flagged.
THEOREM ExcludedNeverSilently == Spec => []NothingExcludedSilently
BY SignedAsChecked, ExcludedOnlyOnWord, PTL

\* Read by the states of OSCAL alone, the export says no more than was signed, but
\* for one reading: met another way, where all the operator said of it was to reject.
THEOREM ExportNeverMisleads == Spec => []StatesDoNotMislead
BY SignedAsChecked, StatesSayWhatWasSigned, PTL
=============================================================================
