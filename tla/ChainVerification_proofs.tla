---------------------- MODULE ChainVerification_proofs ----------------------
(***************************************************************************)
(* Proofs about ChainVerification: what the program alone wrote verifies,  *)
(* and a walk that passes a hash somebody kept vouches for all that the    *)
(* hash was chained onto, in the whole ledger and in a slice of it,        *)
(* whoever takes which digests again.                                      *)
(*                                                                         *)
(* The argument.  Until the file is damaged the ledger is the one of       *)
(* AuditLedger, whose invariant says more than a walk checks.  After that, *)
(* two rows that carry their own digests and the same hash are the same    *)
(* row, because a digest determines what it is taken over, the hash of the *)
(* row before included.  So two ledgers that agree on the hash of one      *)
(* event a walk passes agree on the event before it, and of the events     *)
(* they differ in there is no last.                                        *)
(***************************************************************************)
EXTENDS ChainVerification, AuditLedger_proofs, WellFoundedInduction

\* The UNIQUE indices of a table.
Indexed(table) ==
    \A r, s \in table : r.sequence = s.sequence \/ r.event_hash = s.event_hash => r = s

\* The inductive invariant.
Taken == recorded \cup resealed
OwnDigestsTaken == \A s \in Taken : OwnDigest(s)
HashesWereTaken == \A r \in rows : \E s \in Taken : s.event_hash = r.event_hash

ChainInv ==
    /\ TypeOK
    /\ walked \subseteq AuditEvent
    /\ Taken \subseteq AuditEvent
    /\ damage \in Nat
    /\ damage = 0 => LedgerInv
    /\ Indexed(rows)
    /\ Indexed(walked)
    /\ OwnDigestsTaken
    /\ HashesWereTaken

-----------------------------------------------------------------------------
\* A step of the program keeps the types, on any file, and writes only rows
\* that carry their own digest.
LEMMA ProgramStep ==
    ASSUME TypeOK, Next
    PROVE  /\ TypeOK'
           /\ \A e \in rows' \ rows : e \in AuditEvent /\ OwnDigest(e)
           /\ rows \subseteq rows'
<1>1. ASSUME NEW a \in Appender, NEW b \in Batch, ReadHead(a, b)
      PROVE  TypeOK' /\ rows' = rows
  <2>1. PICK h \in Heads : head' = [head EXCEPT ![a] = h]
    BY <1>1 DEF ReadHead
  <2> QED
    BY <1>1, <2>1, HeadsAreRows DEF ReadHead, TypeOK
<1>2. ASSUME NEW a \in Appender, Commit(a)
      PROVE  /\ TypeOK'
             /\ \A e \in rows' \ rows : e \in AuditEvent /\ OwnDigest(e)
             /\ rows \subseteq rows'
  <2> DEFINE new == Chained(head[a], batch[a])
  <2>1. head[a] \in Position /\ batch[a] \in Seq(Entry)
    BY <1>2, BatchAssumption DEF Commit, TypeOK, Appending
  <2>2. \A e \in new : e \in AuditEvent /\ OwnDigest(e)
    BY <2>1, ChainedRows DEF OwnDigest
  <2>3. rows' = rows \cup new
    BY <1>2 DEF Commit
  <2> HIDE DEF new
  <2>4. TypeOK'
    BY <1>2, <2>2, <2>3, EmptyIsPosition DEF Commit, TypeOK
  <2> QED
    BY <2>2, <2>3, <2>4
<1>3. ASSUME NEW a \in Appender, Refuse(a) \/ Abort(a)
      PROVE  TypeOK' /\ rows' = rows
  BY <1>3, EmptyIsPosition DEF Refuse, Abort, TypeOK
<1>4. CASE Restart
  BY <1>4, EmptyIsPosition DEF Restart, TypeOK
<1> QED
  BY <1>1, <1>2, <1>3, <1>4 DEF Next

\* An edited row still has the type of a row, and a hash that was taken.
LEMMA EditedRows ==
    ASSUME ChainInv, NEW r \in rows, NEW e \in Edits(r)
    PROVE  e \in AuditEvent /\ \E s \in Taken : s.event_hash = e.event_hash
<1>1. r \in AuditEvent /\ \E s \in Taken : s.event_hash = r.event_hash
  BY DEF ChainInv, TypeOK, HashesWereTaken
<1>2. CASE \E x \in Entry : e = [r EXCEPT !.entry = x]
  BY <1>1, <1>2 DEF AuditEvent
<1>3. CASE \E i \in 1..MaxEvents : e = [r EXCEPT !.sequence = i]
  <2>1. PICK i \in 1..MaxEvents : e = [r EXCEPT !.sequence = i]
    BY <1>3
  <2>2. i \in Nat
    BY <2>1, MaxEventsAssumption
  <2> QED
    BY <1>1, <2>1, <2>2 DEF AuditEvent
<1>4. KnownHashes \subseteq Hash /\ \A h \in KnownHashes : \E s \in Taken : s.event_hash = h
  BY DEF KnownHashes, Taken, ChainInv, AuditEvent
<1>5. CASE \E h \in KnownHashes : e = [r EXCEPT !.prev_hash = h]
  BY <1>1, <1>4, <1>5 DEF AuditEvent
<1>6. CASE \E h \in KnownHashes : e = [r EXCEPT !.event_hash = h]
  BY <1>1, <1>4, <1>6 DEF AuditEvent
<1> QED
  BY <1>2, <1>3, <1>5, <1>6 DEF Edits

LEMMA ResealedRow ==
    ASSUME NEW e \in AuditEvent
    PROVE  Resealed(e) \in AuditEvent /\ OwnDigest(Resealed(e))
<1>1. /\ e.sequence \in Nat /\ e.entry \in Entry /\ e.prev_hash \in Hash
      /\ <<e.sequence, e.entry>> \in Content
  BY DEF AuditEvent, Content
<1>2. EventDigest(e.sequence, e.entry, e.prev_hash) \in Hash
  BY <1>1, AppendProperties DEF EventDigest, Hash
<1> HIDE DEF EventDigest
<1> QED
  BY <1>2 DEF Resealed, OwnDigest, AuditEvent

\* A row put into the file keeps the invariant, with the hashes taken until then.
LEMMA PutStep ==
    ASSUME ChainInv, NEW r \in rows, NEW e \in AuditEvent, Put(r, e),
           resealed \subseteq resealed', resealed' \subseteq AuditEvent,
           \A s \in resealed' \ resealed : OwnDigest(s),
           \E s \in recorded \cup resealed' : s.event_hash = e.event_hash
    PROVE  ChainInv'
<1>1. PICK rest \in {rows, rows \ {r}} : Unique(rest, {e}) /\ rows' = rest \cup {e}
  BY DEF Put
<1>2. UNCHANGED <<head, batch, walked, recorded>> /\ damage' \in Nat /\ damage' # 0
  BY DEF Put, ChainInv
<1>3. rest \subseteq rows
  BY <1>1
<1>4. TypeOK'
  BY <1>1, <1>2, <1>3 DEF ChainInv, TypeOK
<1>5. Indexed(rows)'
  BY <1>1, <1>3 DEF ChainInv, Indexed, Unique
<1>6. Indexed(walked)'
  BY <1>2 DEF ChainInv, Indexed
<1>7. Taken' \subseteq AuditEvent /\ Taken \subseteq Taken'
  BY <1>2 DEF ChainInv, Taken
<1>8. OwnDigestsTaken'
  BY <1>2 DEF ChainInv, OwnDigestsTaken, Taken, OwnDigest
<1>9. HashesWereTaken'
  BY <1>1, <1>2, <1>3, <1>7 DEF ChainInv, HashesWereTaken, Taken
<1> QED
  BY <1>2, <1>4, <1>5, <1>6, <1>7, <1>8, <1>9 DEF ChainInv

LEMMA ChainStart == ChainInit => ChainInv
BY LedgerInit
   DEF ChainInit, Init, ChainInv, LedgerInv, Indexed, Taken, OwnDigestsTaken, HashesWereTaken

\* The program's own step: its commits respect the indices.
LEMMA ProgramKeepsIndices ==
    ASSUME TypeOK, Indexed(rows), Next
    PROVE  Indexed(rows)'
<1>1. ASSUME NEW a \in Appender, Commit(a)
      PROVE  Indexed(rows)'
  <2> DEFINE new == Chained(head[a], batch[a])
  <2>1. head[a] \in Position /\ batch[a] \in Seq(Entry)
    BY <1>1, BatchAssumption DEF Commit, TypeOK, Appending
  <2>2. rows' = rows \cup new /\ Unique(rows, new)
    BY <1>1 DEF Commit
  <2>3. \A e, f \in new : e.sequence = f.sequence \/ e.event_hash = f.event_hash => e = f
    <3>1. \A e, f \in new : e.event_hash = f.event_hash => e.sequence = f.sequence
      BY <2>1, ChainedRows, HashDecidesPosition
    <3>2. \A e, f \in new : e.sequence = f.sequence => e = f
      <4> SUFFICES ASSUME NEW i \in 1..Len(batch[a]), NEW j \in 1..Len(batch[a]),
                          head[a].sequence + i = head[a].sequence + j
                   PROVE  i = j
        BY DEF Chained
      <4>1. head[a].sequence \in Nat /\ Len(batch[a]) \in Nat
        BY <2>1, LenProperties DEF Position
      <4> QED
        BY <4>1
    <3> QED
      BY <3>1, <3>2
  <2> HIDE DEF new
  <2> QED
    BY <2>2, <2>3 DEF Indexed, Unique
<1>2. CASE rows' = rows
  BY <1>2 DEF Indexed
<1> QED
  BY <1>1, <1>2 DEF Next, ReadHead, Refuse, Abort, Restart

LEMMA ChainStep == ChainInv /\ [ChainNext]_chainVars => ChainInv'
<1> SUFFICES ASSUME ChainInv, [ChainNext]_chainVars
             PROVE  ChainInv'
  OBVIOUS
<1>1. ASSUME Next, recorded' = recorded \cup (rows' \ rows), UNCHANGED <<walked, resealed, damage>>
      PROVE  ChainInv'
  <2>1. /\ TypeOK'
        /\ \A e \in rows' \ rows : e \in AuditEvent /\ OwnDigest(e)
        /\ rows \subseteq rows'
    BY <1>1, ProgramStep DEF ChainInv
  <2>2. damage' = 0 => LedgerInv'
    BY <1>1, LedgerStep DEF ChainInv
  <2>3. Taken' = Taken \cup (rows' \ rows)
    BY <1>1 DEF Taken
  <2>4. Taken' \subseteq AuditEvent
    BY <2>1, <2>3 DEF ChainInv
  <2>5. OwnDigestsTaken'
    BY <2>1, <2>3 DEF ChainInv, OwnDigestsTaken, OwnDigest
  <2>6. HashesWereTaken'
    BY <2>1, <2>3 DEF ChainInv, HashesWereTaken
  <2>7. Indexed(rows)' /\ Indexed(walked)'
    BY <1>1, ProgramKeepsIndices DEF ChainInv, Indexed
  <2> QED
    BY <1>1, <2>1, <2>2, <2>4, <2>5, <2>6, <2>7 DEF ChainInv
<1>2. ASSUME NEW r \in rows, Alter(r)
      PROVE  ChainInv'
  <2>1. PICK e \in Edits(r) : Put(r, e) /\ UNCHANGED resealed
    BY <1>2 DEF Alter
  <2>2. e \in AuditEvent /\ \E s \in recorded \cup resealed : s.event_hash = e.event_hash
    BY EditedRows DEF Taken
  <2> QED
    BY <2>1, <2>2, PutStep DEF ChainInv, Taken
<1>3. ASSUME NEW r \in rows, Reseal(r)
      PROVE  ChainInv'
  <2>1. PICK e \in Edits(r) : Put(r, Resealed(e)) /\ resealed' = resealed \cup {Resealed(e)}
    BY <1>3 DEF Reseal
  <2>2. Resealed(e) \in AuditEvent /\ OwnDigest(Resealed(e))
    BY EditedRows, ResealedRow
  <2> QED
    BY <2>1, <2>2, PutStep DEF ChainInv, Taken
<1>4. ASSUME NEW r \in rows, Lose(r)
      PROVE  ChainInv'
  <2>1. /\ rows' = rows \ {r}
        /\ UNCHANGED <<head, batch, walked, recorded, resealed>>
        /\ damage' \in Nat /\ damage' # 0
    BY <1>4 DEF Lose, ChainInv
  <2>2. TypeOK'
    BY <2>1 DEF ChainInv, TypeOK
  <2>3. HashesWereTaken' /\ OwnDigestsTaken' /\ Taken' = Taken
    BY <2>1 DEF ChainInv, HashesWereTaken, OwnDigestsTaken, OwnDigest, Taken
  <2>4. Indexed(rows)' /\ Indexed(walked)'
    BY <2>1 DEF ChainInv, Indexed
  <2> QED
    BY <2>1, <2>2, <2>3, <2>4 DEF ChainInv
<1>5. ASSUME UNCHANGED <<vars, recorded, resealed, damage>>, walked' = rows \/ walked' = walked
      PROVE  ChainInv'
  <2>1. damage' = 0 => LedgerInv'
    BY <1>5, LedgerStep DEF ChainInv
  <2>2. TypeOK' /\ rows \subseteq AuditEvent /\ rows' = rows
    BY <1>5 DEF ChainInv, TypeOK, vars
  <2>3. HashesWereTaken' /\ OwnDigestsTaken' /\ Taken' = Taken
    BY <1>5 DEF ChainInv, HashesWereTaken, OwnDigestsTaken, OwnDigest, Taken, vars
  <2>4. Indexed(rows)' /\ Indexed(walked)'
    BY <1>5, <2>2 DEF ChainInv, Indexed
  <2> QED
    BY <1>5, <2>1, <2>2, <2>3, <2>4 DEF ChainInv
<1>6. CASE Keep
  BY <1>5, <1>6 DEF Keep
<1>7. CASE UNCHANGED chainVars
  BY <1>5, <1>7 DEF chainVars
<1> QED
  BY <1>1, <1>2, <1>3, <1>4, <1>6, <1>7 DEF ChainNext

LEMMA ChainInvariant == ChainSpec => []ChainInv
<1> QED
  BY ChainStart, ChainStep, PTL DEF ChainSpec

-----------------------------------------------------------------------------
\* Any slice of an intact ledger verifies, with the rows of other runs between
\* its own or without: that of a run, of a baseline, or the whole of it.
LEMMA IntactSlice ==
    ASSUME TypeOK, ChainIntact, NEW slice \in SUBSET rows
    PROVE  SliceBreaks(slice) = {}
<1>1. ASSUME NEW e \in slice
      PROVE  OwnDigest(e) /\ LinkedIn(slice, e)
  <2>1. OwnDigest(e)
    BY DEF ChainIntact, Linked, OwnDigest
  <2>2. ASSUME NEW p \in slice, p.sequence + 1 = e.sequence
        PROVE  p.event_hash = e.prev_hash
    <3>1. p.sequence \in Nat /\ e.sequence \in Nat
      BY DEF TypeOK, AuditEvent
    <3>2. p.sequence > 0
      BY DEF ChainIntact, Contiguous
    <3>3. PICK q \in rows : q.sequence + 1 = e.sequence /\ q.event_hash = e.prev_hash
      BY <2>2, <3>1, <3>2 DEF ChainIntact, Linked
    <3>4. q.sequence \in Nat
      BY DEF TypeOK, AuditEvent
    <3>5. q.sequence = p.sequence
      BY <2>2, <3>1, <3>3, <3>4
    <3> QED
      BY <3>3, <3>5 DEF ChainIntact, NoFork
  <2> QED
    BY <2>1, <2>2 DEF LinkedIn
<1> QED
  BY <1>1 DEF SliceBreaks

\* What only the program wrote verifies (chain.verify_chain, in both modes).
THEOREM IntactAlwaysVerifies == ChainSpec => []IntactVerifies
<1>1. ChainInv => IntactVerifies
  <2> SUFFICES ASSUME ChainInv, damage = 0
               PROVE  /\ LedgerBreaks(rows) = {}
                      /\ \A run \in Run : SliceBreaks(ByRun(run)) = {}
    BY DEF IntactVerifies
  <2>1. TypeOK /\ ChainIntact
    BY DEF ChainInv, LedgerInv
  <2>2. \A slice \in SUBSET rows : SliceBreaks(slice) = {}
    BY <2>1, IntactSlice
  <2>3. \A e \in rows : InPosition(rows, e)
    BY <2>1 DEF ChainIntact, Linked, InPosition
  <2>4. LedgerBreaks(rows) = {}
    BY <2>2, <2>3 DEF LedgerBreaks
  <2> QED
    BY <2>2, <2>4 DEF ByRun
<1> QED
  BY <1>1, ChainInvariant, PTL

-----------------------------------------------------------------------------
\* A digest determines the row it was taken over: two rows that carry their own
\* digests and the same hash are one.
LEMMA SameHashSameRow ==
    ASSUME NEW r \in AuditEvent, NEW s \in AuditEvent, OwnDigest(r), OwnDigest(s),
           s.event_hash = r.event_hash
    PROVE  r = s
<1>1. EventDigest(r.sequence, r.entry, r.prev_hash) = EventDigest(s.sequence, s.entry, s.prev_hash)
  BY DEF OwnDigest
<1>2. r.sequence = s.sequence /\ r.entry = s.entry /\ r.prev_hash = s.prev_hash
  BY <1>1, DigestInjective DEF AuditEvent
<1> QED
  BY <1>2 DEF AuditEvent

LEMMA OwnDigestWasTaken ==
    ASSUME ChainInv, NEW r \in rows, OwnDigest(r)
    PROVE  r \in recorded \cup resealed
<1>1. PICK s \in Taken : s.event_hash = r.event_hash
  BY DEF ChainInv, HashesWereTaken
<1>2. r \in AuditEvent /\ s \in AuditEvent /\ OwnDigest(s)
  BY DEF ChainInv, TypeOK, OwnDigestsTaken
<1> QED
  BY <1>1, <1>2, SameHashSameRow DEF Taken

\* No event carries the genesis hash.
LEMMA OwnDigestIsNotGenesis ==
    ASSUME NEW e \in AuditEvent, OwnDigest(e)
    PROVE  e.event_hash # GENESIS_HASH
<1>1. /\ e.prev_hash \in Seq(Content) /\ <<e.sequence, e.entry>> \in Content
  BY DEF AuditEvent, Content, Hash
<1>2. Len(Append(e.prev_hash, <<e.sequence, e.entry>>)) = Len(e.prev_hash) + 1
  BY <1>1, AppendProperties
<1>3. Len(e.prev_hash) \in Nat /\ Len(<< >>) = 0
  BY <1>1, LenProperties, EmptySeq
<1> QED
  BY <1>2, <1>3 DEF OwnDigest, EventDigest, GENESIS_HASH

\* What a walk passes before its first break: the row carries its own digest, and
\* so does the row it is chained onto, which is passed too.
LEMMA PassedRow ==
    ASSUME NEW T \in SUBSET AuditEvent, NEW r \in Passed(T)
    PROVE  /\ r \in T /\ r.sequence \in Nat
           /\ OwnDigest(r) /\ InPosition(T, r)
           /\ \A p \in T : p.sequence <= r.sequence => p \in Passed(T)
           /\ \A p \in T : p.sequence + 1 = r.sequence => p.event_hash = r.prev_hash
<1>1. /\ r \in T /\ r.sequence \in Nat
      /\ \A b \in LedgerBreaks(T) : r.sequence < b
  BY DEF Passed, AuditEvent
<1>2. r.sequence \notin LedgerBreaks(T)
  BY <1>1
<1>3. OwnDigest(r) /\ LinkedIn(T, r) /\ InPosition(T, r)
  BY <1>1, <1>2 DEF LedgerBreaks, SliceBreaks
<1>4. LedgerBreaks(T) \subseteq Nat
  BY DEF LedgerBreaks, SliceBreaks, AuditEvent
<1>5. \A p \in T : p.sequence \in Nat
  BY DEF AuditEvent
<1> QED
  BY <1>1, <1>3, <1>4, <1>5 DEF Passed, LinkedIn

\* A walk passes no hole: there is a row at every position up to one it passes.
LEMMA PassedIsUnbroken ==
    ASSUME NEW T \in SUBSET AuditEvent, NEW r \in Passed(T), NEW i \in 1..r.sequence
    PROVE  \E p \in T : p.sequence = i
<1> SUFFICES ASSUME ~ \E p \in T : p.sequence = i
             PROVE  FALSE
  OBVIOUS
<1> DEFINE Above == {q.sequence : q \in {q \in Passed(T) : q.sequence > i}}
\* The first row above the hole.
<1>1. PICK n \in Above : \A m \in Above : ~(m < n)
  <2>1. r.sequence \in Nat /\ r \in T
    BY PassedRow
  <2>2. r.sequence \in Above
    BY <2>1
  <2>3. Above \subseteq Nat
    BY PassedRow
  <2> HIDE DEF Above
  <2>4. PICK n \in Above : \A m \in Above : ~(<<m, n>> \in OpToRel(<, Nat))
    BY <2>2, <2>3, NatLessThanWellFounded, WFMin, Zenon
  <2> QED
    BY <2>3, <2>4 DEF OpToRel
<1>2. PICK q \in Passed(T) : q.sequence = n /\ q.sequence > i
  BY <1>1
<1>3. q.sequence \in Nat /\ InPosition(T, q) /\ i \in Nat /\ i >= 1
  BY PassedRow
<1>4. PICK p \in T : p.sequence + 1 = q.sequence
  BY <1>2, <1>3 DEF InPosition
<1>5. p.sequence \in Nat
  BY DEF AuditEvent
<1>6. p \in Passed(T) /\ p.sequence > i
  BY <1>2, <1>3, <1>4, <1>5, PassedRow
<1>7. p.sequence \in Above
  BY <1>6
<1> HIDE DEF Above
<1> QED
  BY <1>1, <1>2, <1>4, <1>5, <1>7

\* From a hash that is that of an event passed in another ledger, back to the next
\* hole, a slice without a break is part of what was passed there.
LEMMA VouchedFor ==
    ASSUME NEW S \in SUBSET AuditEvent, Indexed(S),
           \A e \in S : OwnDigest(e) /\ LinkedIn(S, e),
           NEW T \in SUBSET AuditEvent,
           NEW r \in S, NEW t \in Passed(T), r.event_hash = t.event_hash
    PROVE  r = t /\ Stretch(S, r) \subseteq Passed(T)
<1>1. t \in AuditEvent /\ r \in AuditEvent /\ OwnDigest(t) /\ OwnDigest(r)
  BY PassedRow
<1>2. r = t /\ r.sequence \in Nat
  BY <1>1, SameHashSameRow DEF AuditEvent
<1> SUFFICES ASSUME NEW s \in Stretch(S, r), s \notin Passed(T)
             PROVE  FALSE
  BY <1>2
<1> DEFINE Distance == {r.sequence - q.sequence : q \in {q \in Stretch(S, r) : q \notin Passed(T)}}
<1>3. \A q \in Stretch(S, r) : /\ q \in S /\ q \in AuditEvent
                              /\ q.sequence \in Nat /\ q.sequence <= r.sequence
  BY DEF Stretch, AuditEvent
\* The last row of the stretch that was not passed there.
<1>4. PICK n \in Distance : \A m \in Distance : ~(m < n)
  <2>1. r.sequence - s.sequence \in Distance
    OBVIOUS
  <2>2. Distance \subseteq Nat
    BY <1>2, <1>3
  <2> HIDE DEF Distance
  <2>3. PICK n \in Distance : \A m \in Distance : ~(<<m, n>> \in OpToRel(<, Nat))
    BY <2>1, <2>2, NatLessThanWellFounded, WFMin, Zenon
  <2> QED
    BY <2>2, <2>3 DEF OpToRel
<1>5. PICK q \in Stretch(S, r) : q \notin Passed(T) /\ n = r.sequence - q.sequence
  BY <1>4
<1>6. /\ q \in S /\ q \in AuditEvent /\ OwnDigest(q)
      /\ q.sequence \in Nat /\ q.sequence < r.sequence
  BY <1>2, <1>3, <1>5 DEF Indexed
<1>7. PICK u \in S : u.sequence = q.sequence + 1
  <2>1. q.sequence .. r.sequence \subseteq {p.sequence : p \in S}
    BY <1>5 DEF Stretch
  <2>2. q.sequence + 1 \in q.sequence .. r.sequence
    BY <1>2, <1>6
  <2> QED
    BY <2>1, <2>2
<1>8. u \in Stretch(S, r)
  BY <1>2, <1>6, <1>7 DEF Stretch
<1>9. u \in Passed(T)
  <2>1. u \notin Passed(T) => r.sequence - u.sequence \in Distance
    BY <1>8
  <2>2. r.sequence - u.sequence < n
    BY <1>2, <1>5, <1>6, <1>7
  <2> HIDE DEF Distance
  <2> QED
    BY <1>4, <2>1, <2>2
<1>10. q.event_hash = u.prev_hash
  BY <1>6, <1>7 DEF LinkedIn
<1>11. u.prev_hash # GENESIS_HASH
  BY <1>6, <1>10, OwnDigestIsNotGenesis
<1>12. PICK p \in T : p.sequence + 1 = u.sequence
  BY <1>9, <1>11, PassedRow DEF InPosition
<1>13. p \in AuditEvent /\ p.event_hash = u.prev_hash /\ p \in Passed(T)
  <2>1. p.sequence \in Nat /\ u.sequence \in Nat
    BY <1>6, <1>7 DEF AuditEvent
  <2> QED
    BY <1>9, <1>12, <2>1, PassedRow
<1>14. OwnDigest(p)
  BY <1>13, PassedRow
<1> QED
  BY <1>5, <1>6, <1>10, <1>13, <1>14, SameHashSameRow

\* Whatever becomes of the file, a slice that verifies holds no row altered in
\* silence, and from a hash that was kept back to the next hole it is as it was
\* (chain.verify_chain, expect_genesis=False).
THEOREM VerifiedSliceIsVouchedFor == ChainSpec => []SliceIsVouchedFor
<1>1. ChainInv => SliceIsVouchedFor
  <2> SUFFICES ASSUME ChainInv, NEW run \in Run, SliceBreaks(ByRun(run)) = {}
               PROVE  /\ ByRun(run) \subseteq recorded \cup resealed
                      /\ \A r \in ByRun(run), t \in Passed(walked) :
                            r.event_hash = t.event_hash => Stretch(ByRun(run), r) \subseteq walked
    BY DEF SliceIsVouchedFor
  <2>1. /\ ByRun(run) \subseteq rows /\ ByRun(run) \subseteq AuditEvent
        /\ Indexed(ByRun(run)) /\ walked \subseteq AuditEvent
    BY DEF ByRun, ChainInv, TypeOK, Indexed
  <2>2. \A e \in ByRun(run) : OwnDigest(e) /\ LinkedIn(ByRun(run), e)
    BY DEF SliceBreaks
  <2>3. ByRun(run) \subseteq recorded \cup resealed
    BY <2>1, <2>2, OwnDigestWasTaken
  <2>4. Passed(walked) \subseteq walked
    BY DEF Passed
  <2> QED
    BY <2>1, <2>2, <2>3, <2>4, VouchedFor
<1> QED
  BY <1>1, ChainInvariant, PTL

\* Half of the agreement of two walks.
LEMMA PassedUptoAgrees ==
    ASSUME NEW T \in SUBSET AuditEvent, Indexed(T), NEW U \in SUBSET AuditEvent,
           NEW r \in Passed(T), NEW t \in Passed(U), r.event_hash = t.event_hash
    PROVE  r.sequence = t.sequence /\ Upto(T, r.sequence) \subseteq Upto(U, t.sequence)
<1> DEFINE S == Passed(T)
<1>1. S \subseteq AuditEvent /\ S \subseteq T /\ Indexed(S)
  BY DEF Passed, Indexed
<1>2. \A e \in S : OwnDigest(e) /\ LinkedIn(S, e)
  BY <1>1, PassedRow DEF LinkedIn
<1>3. r = t /\ Stretch(S, r) \subseteq Passed(U)
  <2> HIDE DEF S
  <2> QED
    BY <1>1, <1>2, VouchedFor DEF S
<1>4. ASSUME NEW q \in Upto(T, r.sequence)
      PROVE  q \in Stretch(S, r)
  <2>1. q \in T /\ q.sequence <= r.sequence /\ q.sequence \in Nat /\ r.sequence \in Nat
    BY PassedRow DEF Upto, AuditEvent
  <2>2. q \in S
    BY <2>1, PassedRow
  <2>3. ASSUME NEW i \in q.sequence .. r.sequence
        PROVE  \E p \in S : p.sequence = i
    <3>1. CASE i = q.sequence
      BY <2>2, <3>1
    <3>2. CASE i # q.sequence
      <4>1. i \in 1..r.sequence
        BY <2>1, <3>2
      <4>2. PICK p \in T : p.sequence = i
        BY <4>1, PassedIsUnbroken
      <4> QED
        BY <2>1, <4>1, <4>2, PassedRow
    <3> QED
      BY <3>1, <3>2
  <2> HIDE DEF S
  <2> QED
    BY <2>1, <2>2, <2>3 DEF Stretch
<1> QED
  BY <1>3, <1>4 DEF Upto, Passed

\* Two walks that pass the same hash passed the same ledger up to it, whatever
\* became of the file between them and whoever took which digests again
\* (chain.verify_chain, expect_genesis).
THEOREM WalksAlwaysAgree == ChainSpec => []WalksAgree
<1>1. ChainInv => WalksAgree
  <2> SUFFICES ASSUME ChainInv, NEW r \in Passed(rows), NEW t \in Passed(walked),
                      r.event_hash = t.event_hash
               PROVE  Upto(rows, r.sequence) = Upto(walked, t.sequence)
    BY DEF WalksAgree
  <2>1. /\ rows \subseteq AuditEvent /\ Indexed(rows)
        /\ walked \subseteq AuditEvent /\ Indexed(walked)
    BY DEF ChainInv, TypeOK
  <2>2. Upto(rows, r.sequence) \subseteq Upto(walked, t.sequence)
    BY <2>1, PassedUptoAgrees
  <2>3. Upto(walked, t.sequence) \subseteq Upto(rows, r.sequence)
    BY <2>1, PassedUptoAgrees
  <2> QED
    BY <2>2, <2>3
<1> QED
  BY <1>1, ChainInvariant, PTL
=============================================================================
