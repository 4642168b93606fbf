------------------------- MODULE AuditLedger_proofs -------------------------
(***************************************************************************)
(* Proofs about AuditLedger: its type invariant, the integrity of the hash *)
(* chain, what the UNIQUE constraints refuse, and that the ledger          *)
(* implements EventLog.                                                    *)
(*                                                                         *)
(* The argument.  A new row stands at the position its appender read, plus *)
(* one.  Positions have no hole (Contiguous), so that position is free     *)
(* exactly when the position read is the last one: the constraint on       *)
(* sequence decides freshness.  A row carries its own digest (Linked), so  *)
(* two rows with one hash are one row.                                     *)
(***************************************************************************)
EXTENDS AuditLedger, SequenceTheorems, TLAPS

\* What an appender holds is the empty ledger or a row that was written: rows
\* never change, so it stays one.
HeadWasRead ==
    \A a \in Appender :
        Appending(a) =>
            \/ head[a] = EmptyLedger
            \/ \E r \in rows : head[a] = [sequence |-> r.sequence, event_hash |-> r.event_hash]

\* The inductive invariant of the ledger.
LedgerInv == TypeOK /\ ChainIntact /\ HeadWasRead

-----------------------------------------------------------------------------
\* A digest determines the content and the previous hash it is taken over.
LEMMA DigestInjective ==
    ASSUME NEW s \in Nat, NEW e \in Entry, NEW p \in Hash,
           NEW t \in Nat, NEW f \in Entry, NEW q \in Hash,
           EventDigest(s, e, p) = EventDigest(t, f, q)
    PROVE  s = t /\ e = f /\ p = q
<1>1. <<s, e>> \in Content /\ <<t, f>> \in Content
  BY DEF Content
<1>2. Append(p, <<s, e>>) = Append(q, <<t, f>>)
  BY DEF EventDigest
<1>3. p = q /\ <<s, e>> = <<t, f>>
  BY <1>1, <1>2, AppendInjective DEF Hash
<1> QED
  BY <1>3

\* The hashes of a batch chained onto h: the first is chained onto h itself, and
\* each is the digest of its own event over the hash before it.
LEMMA ChainHashes ==
    ASSUME NEW h \in Position, NEW b \in Seq(Entry)
    PROVE  /\ ChainHash(h, b, 0) = h.event_hash
           /\ \A i \in 0..Len(b) : ChainHash(h, b, i) \in Hash
           /\ \A i \in 1..Len(b) :
                ChainHash(h, b, i) =
                    EventDigest(h.sequence + i, b[i], ChainHash(h, b, i - 1))
<1>1. h.sequence \in Nat /\ h.event_hash \in Seq(Content)
  BY DEF Position, Hash
<1> DEFINE T(i) == [j \in 1..i |-> <<h.sequence + j, b[j]>>]
<1>2. \A i \in 0..Len(b) : T(i) \in Seq(Content)
  <2>1. ASSUME NEW i \in 0..Len(b) PROVE T(i) \in Seq(Content)
    <3>1. Len(b) \in Nat /\ \A j \in 1..Len(b) : b[j] \in Entry
      BY LenProperties, ElementOfSeq
    <3>2. \A j \in 1..i : <<h.sequence + j, b[j]>> \in Content
      BY <1>1, <3>1 DEF Content
    <3> QED BY <3>1, <3>2, IsASeq
  <2> QED BY <2>1
<1>3. \A i \in 0..Len(b) : ChainHash(h, b, i) = h.event_hash \o T(i)
  BY DEF ChainHash
<1>4. T(0) = << >>
  OBVIOUS
<1>5. ChainHash(h, b, 0) = h.event_hash
  <2>1. ChainHash(h, b, 0) = h.event_hash \o T(0)
    BY DEF ChainHash
  <2>2. h.event_hash \o << >> = h.event_hash
    BY <1>1, ConcatEmptySeq
  <2> QED BY <1>4, <2>1, <2>2
<1>6. \A i \in 0..Len(b) : ChainHash(h, b, i) \in Hash
  BY <1>1, <1>2, <1>3, ConcatProperties DEF Hash
<1>7. ASSUME NEW i \in 1..Len(b)
      PROVE  ChainHash(h, b, i) =
               EventDigest(h.sequence + i, b[i], ChainHash(h, b, i - 1))
  <2> DEFINE x == <<h.sequence + i, b[i]>>
  <2>0. Len(b) \in Nat /\ i - 1 \in 0..Len(b) /\ i \in 0..Len(b)
    BY LenProperties
  <2>1. x \in Content
    BY <1>1, ElementOfSeq DEF Content
  <2>2. T(i - 1) \in Seq(Content) /\ T(i) \in Seq(Content)
    BY <1>2, <2>0
  <2>3. Len(T(i - 1)) = i - 1 /\ Len(T(i)) = i
    BY <2>0
  <2>4. T(i) = Append(T(i - 1), x)
    BY <2>0, <2>1, <2>2, <2>3, AppendProperties, SeqEqual
  <2>5. h.event_hash \o T(i) = Append(h.event_hash \o T(i - 1), x)
    <3> HIDE DEF T, x
    <3>1. T(i) = T(i - 1) \o <<x>>
      BY <2>1, <2>2, <2>4, AppendIsConcat
    <3>2. <<x>> \in Seq(Content)
      BY <2>1
    <3>3. h.event_hash \o T(i) = (h.event_hash \o T(i - 1)) \o <<x>>
      <4>1. \A u, v, w \in Seq(Content) : (u \o v) \o w = u \o (v \o w)
        BY ConcatAssociative, SMTT(30)
      <4>2. (h.event_hash \o T(i - 1)) \o <<x>> = h.event_hash \o (T(i - 1) \o <<x>>)
        BY <1>1, <2>2, <3>2, <4>1, Zenon
      <4> QED BY <3>1, <4>2, Zenon
    <3>4. h.event_hash \o T(i - 1) \in Seq(Content)
      BY <1>1, <2>2, ConcatProperties
    <3> QED BY <3>3, <3>4, <2>1, AppendIsConcat
  <2> QED
    BY <1>3, <2>0, <2>5 DEF EventDigest
<1> QED
  BY <1>5, <1>6, <1>7

\* The rows of a batch b chained onto h are well formed, stand at the positions
\* after h, carry their digests, and link to h or to one another.
LEMMA ChainedRows ==
    ASSUME NEW h \in Position, NEW b \in Seq(Entry)
    PROVE  /\ Chained(h, b) \subseteq AuditEvent
           /\ \A e \in Chained(h, b) :
                /\ e.sequence \in h.sequence + 1 .. h.sequence + Len(b)
                /\ e.entry = b[e.sequence - h.sequence]
                /\ e.event_hash = EventDigest(e.sequence, e.entry, e.prev_hash)
                /\ \/ e.sequence = h.sequence + 1 /\ e.prev_hash = h.event_hash
                   \/ \E p \in Chained(h, b) : /\ p.sequence + 1 = e.sequence
                                              /\ p.event_hash = e.prev_hash
           /\ \A i \in h.sequence + 1 .. h.sequence + Len(b) :
                \E e \in Chained(h, b) : e.sequence = i
           /\ \A e, f \in Chained(h, b) : e.sequence = f.sequence => e = f
<1> DEFINE Row(i) == [sequence   |-> h.sequence + i,
                      entry      |-> b[i],
                      prev_hash  |-> ChainHash(h, b, i - 1),
                      event_hash |-> ChainHash(h, b, i)]
<1>1. Len(b) \in Nat /\ h.sequence \in Nat
  BY LenProperties DEF Position
<1>2. Chained(h, b) = {Row(i) : i \in 1..Len(b)}
  BY DEF Chained
<1>3. ASSUME NEW i \in 1..Len(b)
      PROVE  /\ Row(i) \in AuditEvent
             /\ Row(i).event_hash =
                  EventDigest(Row(i).sequence, Row(i).entry, Row(i).prev_hash)
             /\ \/ i = 1 /\ Row(i).prev_hash = h.event_hash
                \/ /\ i - 1 \in 1..Len(b)
                   /\ Row(i - 1).sequence + 1 = Row(i).sequence
                   /\ Row(i - 1).event_hash = Row(i).prev_hash
  <2>1. i \in 0..Len(b) /\ i - 1 \in 0..Len(b)
    BY <1>1
  <2>2. ChainHash(h, b, i) \in Hash /\ ChainHash(h, b, i - 1) \in Hash
    BY <2>1, ChainHashes
  <2>3. b[i] \in Entry /\ h.sequence + i \in Nat
    BY <1>1, ElementOfSeq
  <2>4. Row(i) \in AuditEvent
    BY <2>2, <2>3 DEF AuditEvent
  <2>5. ChainHash(h, b, i) = EventDigest(h.sequence + i, b[i], ChainHash(h, b, i - 1))
    BY ChainHashes
  <2>6. CASE i = 1
    <3>1. ChainHash(h, b, i - 1) = h.event_hash
      BY <2>6, ChainHashes
    <3> QED BY <2>4, <2>5, <2>6, <3>1
  <2>7. CASE i # 1
    <3>1. i - 1 \in 1..Len(b) /\ h.sequence + (i - 1) + 1 = h.sequence + i
      BY <1>1, <2>7
    <3> QED BY <2>4, <2>5, <3>1
  <2> QED BY <2>6, <2>7
<1>4. Chained(h, b) \subseteq AuditEvent
  BY <1>2, <1>3
<1>5. ASSUME NEW e \in Chained(h, b)
      PROVE  /\ e.sequence \in h.sequence + 1 .. h.sequence + Len(b)
             /\ e.entry = b[e.sequence - h.sequence]
             /\ e.event_hash = EventDigest(e.sequence, e.entry, e.prev_hash)
             /\ \/ e.sequence = h.sequence + 1 /\ e.prev_hash = h.event_hash
                \/ \E p \in Chained(h, b) : /\ p.sequence + 1 = e.sequence
                                           /\ p.event_hash = e.prev_hash
  <2>1. PICK i \in 1..Len(b) : e = Row(i)
    BY <1>2
  <2>2. e.sequence = h.sequence + i /\ e.entry = b[i]
    BY <2>1
  <2>3. (h.sequence + i) - h.sequence = i /\ h.sequence + i \in h.sequence + 1 .. h.sequence + Len(b)
    BY <1>1
  <2>4. i - 1 \in 1..Len(b) => Row(i - 1) \in Chained(h, b)
    BY <1>2
  <2> HIDE DEF Row
  <2> QED BY <1>3, <2>1, <2>2, <2>3, <2>4
<1>6. ASSUME NEW i \in h.sequence + 1 .. h.sequence + Len(b)
      PROVE  \E e \in Chained(h, b) : e.sequence = i
  <2>1. i - h.sequence \in 1..Len(b) /\ h.sequence + (i - h.sequence) = i
    BY <1>1
  <2>2. Row(i - h.sequence) \in Chained(h, b) /\ Row(i - h.sequence).sequence = i
    BY <1>2, <2>1
  <2> QED BY <2>2
<1>7. ASSUME NEW e \in Chained(h, b), NEW f \in Chained(h, b), e.sequence = f.sequence
      PROVE  e = f
  <2>1. PICK i \in 1..Len(b) : e = Row(i)
    BY <1>2
  <2>2. PICK j \in 1..Len(b) : f = Row(j)
    BY <1>2
  <2>3. h.sequence + i = h.sequence + j
    BY <1>7, <2>1, <2>2
  <2>4. i = j
    BY <1>1, <2>3
  <2> QED BY <2>1, <2>2, <2>4
<1> QED
  BY <1>4, <1>5, <1>6, <1>7

-----------------------------------------------------------------------------
\* Two stored rows, or a stored row and a new one, share a hash only when they
\* share a position.
LEMMA HashDecidesPosition ==
    ASSUME NEW e \in AuditEvent, NEW f \in AuditEvent,
           e.event_hash = EventDigest(e.sequence, e.entry, e.prev_hash),
           f.event_hash = EventDigest(f.sequence, f.entry, f.prev_hash),
           e.event_hash = f.event_hash
    PROVE  e.sequence = f.sequence
<1>1. /\ e.sequence \in Nat /\ e.entry \in Entry /\ e.prev_hash \in Hash
      /\ f.sequence \in Nat /\ f.entry \in Entry /\ f.prev_hash \in Hash
  BY DEF AuditEvent
<1>2. EventDigest(e.sequence, e.entry, e.prev_hash) =
      EventDigest(f.sequence, f.entry, f.prev_hash)
  OBVIOUS
<1> QED
  BY <1>1, <1>2, DigestInjective

\* A batch can be committed exactly when the head it was chained onto is still
\* the head of the ledger.
LEMMA FreshIffUnique ==
    ASSUME LedgerInv, NEW a \in Appender, Appending(a)
    PROVE  Unique(rows, Chained(head[a], batch[a])) <=> head[a] \in Heads
<1> DEFINE h == head[a]
           b == batch[a]
<1>1. h \in Position /\ b \in Seq(Entry) /\ b # << >>
  BY BatchAssumption DEF LedgerInv, TypeOK, Appending
<1>2. h.sequence \in Nat /\ Len(b) \in Nat \ {0}
  BY <1>1, LenProperties, EmptySeq DEF Position
<1>3. \A r \in rows : r \in AuditEvent /\ r.sequence \in Nat
  BY DEF LedgerInv, TypeOK, AuditEvent
<1> HIDE DEF h, b
<1>4. ASSUME h \in Heads
      PROVE  Unique(rows, Chained(h, b))
  <2>1. \A r \in rows : r.sequence <= h.sequence
    <3>1. CASE rows = {}
      BY <3>1
    <3>2. CASE rows # {}
      BY <1>4, <3>2 DEF Heads
    <3> QED BY <3>1, <3>2
  <2>2. ASSUME NEW e \in Chained(h, b), NEW r \in rows
        PROVE  e.sequence # r.sequence /\ e.event_hash # r.event_hash
    <3>1. /\ e \in AuditEvent
          /\ e.sequence \in h.sequence + 1 .. h.sequence + Len(b)
          /\ e.event_hash = EventDigest(e.sequence, e.entry, e.prev_hash)
      BY <1>1, ChainedRows
    <3>2. e.sequence # r.sequence
      BY <1>2, <1>3, <2>1, <3>1
    <3>3. r.event_hash = EventDigest(r.sequence, r.entry, r.prev_hash)
      BY DEF LedgerInv, ChainIntact, Linked
    <3> QED BY <1>3, <3>1, <3>2, <3>3, HashDecidesPosition
  <2> QED BY <2>2 DEF Unique
<1>5. ASSUME Unique(rows, Chained(h, b))
      PROVE  h \in Heads
  <2>1. \A r \in rows : r.sequence # h.sequence + 1
    <3>1. h.sequence + 1 \in h.sequence + 1 .. h.sequence + Len(b)
      BY <1>2
    <3>2. PICK e \in Chained(h, b) : e.sequence = h.sequence + 1
      BY <1>1, <3>1, ChainedRows
    <3> QED BY <1>5, <3>2 DEF Unique
  <2>2. \A r \in rows : r.sequence <= h.sequence
    <3> SUFFICES ASSUME NEW r \in rows, ~(r.sequence <= h.sequence)
                 PROVE  FALSE
      OBVIOUS
    <3>1. h.sequence + 1 \in 1..r.sequence
      BY <1>2, <1>3
    <3>2. h.sequence + 1 \in Positions
      BY <3>1 DEF LedgerInv, ChainIntact, Contiguous
    <3> QED BY <2>1, <3>2 DEF Positions
  <2>3. CASE h = EmptyLedger
    <3>1. h.sequence = 0
      BY <2>3 DEF EmptyLedger
    <3>2. rows = {}
      BY <1>3, <2>2, <3>1 DEF LedgerInv, ChainIntact, Contiguous
    <3> QED BY <2>3, <3>2 DEF Heads
  <2>4. ASSUME NEW r \in rows, h = [sequence |-> r.sequence, event_hash |-> r.event_hash]
        PROVE  h \in Heads
    <3>1. \A s \in rows : s.sequence <= r.sequence
      BY <2>2, <2>4
    <3> QED BY <2>4, <3>1 DEF Heads
  <2>5. h = EmptyLedger
        \/ \E r \in rows : h = [sequence |-> r.sequence, event_hash |-> r.event_hash]
    BY DEF LedgerInv, HeadWasRead, h
  <2> QED BY <2>3, <2>4, <2>5
<1> QED
  BY <1>4, <1>5 DEF h, b

-----------------------------------------------------------------------------
LEMMA EmptyIsPosition == EmptyLedger \in Position
BY EmptySeq DEF EmptyLedger, Position, Hash, GENESIS_HASH

LEMMA LedgerInit == Init => LedgerInv
BY EmptyIsPosition DEF Init, LedgerInv, TypeOK, ChainIntact, NoFork,
   Contiguous, Linked, HeadWasRead, Appending

\* Every head that can be read is the empty ledger or a row.
LEMMA HeadsAreRows ==
    ASSUME TypeOK, NEW h \in Heads
    PROVE  /\ h \in Position
           /\ \/ h = EmptyLedger
              \/ \E r \in rows : h = [sequence |-> r.sequence, event_hash |-> r.event_hash]
<1>1. CASE rows = {}
  BY <1>1, EmptyIsPosition DEF Heads
<1>2. CASE rows # {}
  BY <1>2 DEF Heads, TypeOK, AuditEvent, Position
<1> QED
  BY <1>1, <1>2

LEMMA LedgerStep == LedgerInv /\ [Next]_vars => LedgerInv'
<1> SUFFICES ASSUME LedgerInv, [Next]_vars
             PROVE  LedgerInv'
  OBVIOUS
<1> USE DEF LedgerInv
<1>1. ASSUME NEW a \in Appender, NEW b \in Batch, ReadHead(a, b)
      PROVE  LedgerInv'
  <2>1. rows' = rows /\ batch' = [batch EXCEPT ![a] = b]
    BY <1>1 DEF ReadHead
  <2>2. PICK h \in Heads : head' = [head EXCEPT ![a] = h]
    BY <1>1 DEF ReadHead
  <2>3. TypeOK'
    BY <2>1, <2>2, HeadsAreRows DEF TypeOK
  <2>4. ChainIntact'
    BY <2>1 DEF ChainIntact, NoFork, Contiguous, Linked, Positions
  <2>5. HeadWasRead'
    BY <2>1, <2>2, HeadsAreRows DEF HeadWasRead, TypeOK, Appending
  <2> QED BY <2>3, <2>4, <2>5
<1>2. ASSUME NEW a \in Appender, Commit(a)
      PROVE  LedgerInv'
  <2> DEFINE h == head[a]
             b == batch[a]
             new == Chained(h, b)
  <2>1. /\ rows' = rows \cup new
        /\ head' = [head EXCEPT ![a] = EmptyLedger]
        /\ batch' = [batch EXCEPT ![a] = << >>]
        /\ Unique(rows, new)
        /\ Appending(a)
    BY <1>2 DEF Commit
  <2>2. h \in Position /\ b \in Seq(Entry)
    BY <2>1, BatchAssumption DEF TypeOK, Appending
  <2>3. h.sequence \in Nat /\ Len(b) \in Nat
    BY <2>2, LenProperties DEF Position
  <2>4. \/ h = EmptyLedger
        \/ \E r \in rows : h = [sequence |-> r.sequence, event_hash |-> r.event_hash]
    BY <2>1 DEF HeadWasRead
  <2>5. \A r \in rows : r \in AuditEvent /\ r.sequence \in Nat
    BY DEF TypeOK, AuditEvent
  <2>6. new \subseteq AuditEvent /\ \A e \in new : e.sequence \in Nat
    BY <2>2, ChainedRows DEF AuditEvent
  <2> HIDE DEF h, b, new
  <2>7. TypeOK'
    BY <2>1, <2>6, EmptyIsPosition DEF TypeOK
  <2>8. Linked'
    <3>1. ASSUME NEW r \in rows
          PROVE  /\ r.event_hash = EventDigest(r.sequence, r.entry, r.prev_hash)
                 /\ \/ r.sequence = 1 /\ r.prev_hash = GENESIS_HASH
                    \/ \E p \in rows' : p.sequence + 1 = r.sequence /\ p.event_hash = r.prev_hash
      BY <2>1 DEF ChainIntact, Linked
    <3>2. ASSUME NEW e \in new
          PROVE  /\ e.event_hash = EventDigest(e.sequence, e.entry, e.prev_hash)
                 /\ \/ e.sequence = 1 /\ e.prev_hash = GENESIS_HASH
                    \/ \E p \in rows' : p.sequence + 1 = e.sequence /\ p.event_hash = e.prev_hash
      <4>1. /\ e.event_hash = EventDigest(e.sequence, e.entry, e.prev_hash)
            /\ \/ e.sequence = h.sequence + 1 /\ e.prev_hash = h.event_hash
               \/ \E p \in new : p.sequence + 1 = e.sequence /\ p.event_hash = e.prev_hash
        BY <2>2, ChainedRows DEF new
      <4>2. CASE e.sequence = h.sequence + 1 /\ e.prev_hash = h.event_hash
        BY <2>1, <2>4, <4>1, <4>2 DEF EmptyLedger
      <4> QED BY <2>1, <4>1, <4>2
    <3> QED BY <2>1, <3>1, <3>2 DEF Linked
  <2>9. NoFork'
    <3>1. ASSUME NEW r \in rows', NEW s \in rows',
                 r.sequence = s.sequence \/ r.event_hash = s.event_hash
          PROVE  r = s
      <4>1. r \in AuditEvent /\ s \in AuditEvent
        BY <2>1, <2>5, <2>6
      <4>2. r.sequence = s.sequence
        BY <2>8, <3>1, <4>1, HashDecidesPosition DEF Linked
      <4>3. CASE r \in rows /\ s \in rows
        BY <4>2, <4>3 DEF ChainIntact, NoFork
      <4>4. CASE r \in new /\ s \in new
        BY <2>2, <4>2, <4>4, ChainedRows DEF new
      <4>5. CASE \/ r \in rows /\ s \in new
                 \/ r \in new /\ s \in rows
        BY <2>1, <4>2, <4>5 DEF Unique
      <4> QED BY <2>1, <4>3, <4>4, <4>5
    <3> QED BY <3>1 DEF NoFork
  <2>10. Contiguous'
    <3>1. Positions' = Positions \cup {e.sequence : e \in new}
      BY <2>1 DEF Positions
    <3>2. ASSUME NEW r \in rows
          PROVE  r.sequence > 0 /\ 1..r.sequence \subseteq Positions'
      BY <3>1 DEF ChainIntact, Contiguous
    <3>3. ASSUME NEW e \in new
          PROVE  e.sequence > 0 /\ 1..e.sequence \subseteq Positions'
      <4>1. e.sequence \in h.sequence + 1 .. h.sequence + Len(b)
        BY <2>2, ChainedRows DEF new
      <4>2. 1..h.sequence \subseteq Positions
        BY <2>3, <2>4 DEF EmptyLedger, ChainIntact, Contiguous
      <4>3. ASSUME NEW i \in 1..e.sequence
            PROVE  i \in Positions'
        <5>1. CASE i \in 1..h.sequence
          BY <3>1, <4>2, <5>1
        <5>2. CASE i \in h.sequence + 1 .. h.sequence + Len(b)
          BY <2>2, <3>1, <5>2, ChainedRows DEF new
        <5> QED BY <2>3, <4>1, <5>1, <5>2
      <4> QED BY <2>3, <4>1, <4>3
    <3> QED BY <2>1, <3>2, <3>3 DEF Contiguous
  <2>11. HeadWasRead'
    BY <2>1 DEF HeadWasRead, Appending, TypeOK
  <2> QED BY <2>7, <2>8, <2>9, <2>10, <2>11 DEF ChainIntact
<1>3. ASSUME NEW a \in Appender, Refuse(a) \/ Abort(a)
      PROVE  LedgerInv'
  <2>1. /\ rows' = rows
        /\ head' = [head EXCEPT ![a] = EmptyLedger]
        /\ batch' = [batch EXCEPT ![a] = << >>]
    BY <1>3 DEF Refuse, Abort
  <2>2. TypeOK'
    BY <2>1, EmptyIsPosition DEF TypeOK
  <2>3. ChainIntact'
    BY <2>1 DEF ChainIntact, NoFork, Contiguous, Linked, Positions
  <2>4. HeadWasRead'
    BY <2>1 DEF HeadWasRead, TypeOK, Appending
  <2> QED BY <2>2, <2>3, <2>4
<1>4. CASE Restart
  <2>1. /\ rows' = rows
        /\ head' = [a \in Appender |-> EmptyLedger]
        /\ batch' = [a \in Appender |-> << >>]
    BY <1>4 DEF Restart
  <2>2. TypeOK'
    BY <2>1, EmptyIsPosition DEF TypeOK
  <2>3. ChainIntact'
    BY <2>1 DEF ChainIntact, NoFork, Contiguous, Linked, Positions
  <2>4. HeadWasRead'
    BY <2>1 DEF HeadWasRead, Appending
  <2> QED BY <2>2, <2>3, <2>4
<1>5. CASE UNCHANGED vars
  BY <1>5 DEF vars, TypeOK, ChainIntact, NoFork, Contiguous, Linked, Positions,
              HeadWasRead, Appending
<1> QED
  BY <1>1, <1>2, <1>3, <1>4, <1>5 DEF Next

-----------------------------------------------------------------------------
\* The invariant the theorems below are read off.
LEMMA LedgerInvariant == Spec => []LedgerInv
<1>1. Init => LedgerInv
  BY LedgerInit
<1>2. LedgerInv /\ [Next]_vars => LedgerInv'
  BY LedgerStep
<1> QED
  BY <1>1, <1>2, PTL DEF Spec

\* Type correctness of the table and of what the appenders hold.
THEOREM TypeCorrect == Spec => []TypeOK
<1>1. LedgerInv => TypeOK
  BY DEF LedgerInv
<1> QED
  BY <1>1, LedgerInvariant, PTL

\* However many requests append at once, the ledger has no fork and no hole,
\* and every event links to the one before it (repository.append_many).
THEOREM ChainAlwaysIntact == Spec => []ChainIntact
<1>1. LedgerInv => ChainIntact
  BY DEF LedgerInv
<1> QED
  BY <1>1, LedgerInvariant, PTL

\* The UNIQUE constraints of models.py refuse exactly the stale appenders.
THEOREM OnlyStaleRefused == Spec => []RefusedIffStale
<1>1. LedgerInv => RefusedIffStale
  BY FreshIffUnique DEF RefusedIffStale
<1> QED
  BY <1>1, LedgerInvariant, PTL

-----------------------------------------------------------------------------
(***************************************************************************)
(* Refinement.  A commit that is let through was chained onto the head, so *)
(* its rows are the batch, written right after everything stored.          *)
(***************************************************************************)
AbstractLog == [i \in Positions |-> EntryAt(i)]

\* While no row is written the abstract log does not change.
LEMMA SameRowsSameLog ==
    ASSUME rows' = rows
    PROVE  AbstractLog' = AbstractLog
BY DEF AbstractLog, Positions, EntryAt

LEMMA CommitRecords ==
    ASSUME LedgerInv, NEW a \in Appender, Commit(a)
    PROVE  AbstractLog' = AbstractLog \o batch[a]
<1> DEFINE h == head[a]
           b == batch[a]
           new == Chained(h, b)
           n == h.sequence
           m == Len(b)
<1>1. rows' = rows \cup new /\ Appending(a) /\ Unique(rows, new)
  BY DEF Commit
<1>2. h \in Position /\ b \in Seq(Entry)
  BY <1>1, BatchAssumption DEF LedgerInv, TypeOK, Appending
<1>3. n \in Nat /\ m \in Nat
  BY <1>2, LenProperties DEF Position
<1>4. h \in Heads
  BY <1>1, FreshIffUnique
<1>5. \A r \in rows : r.sequence \in Nat
  BY DEF LedgerInv, TypeOK, AuditEvent
<1> HIDE DEF h, b, new, n, m
<1>6. Positions = 1..n
  <2>1. CASE rows = {}
    BY <1>4, <2>1 DEF Heads, EmptyLedger, Positions, n
  <2>2. CASE rows # {}
    <3>1. PICK e \in rows : /\ n = e.sequence
                            /\ \A r \in rows : r.sequence <= e.sequence
      BY <1>4, <2>2 DEF Heads, n
    <3>2. 1..n \subseteq Positions
      BY <3>1 DEF LedgerInv, ChainIntact, Contiguous
    <3>3. Positions \subseteq 1..n
      BY <1>3, <1>5, <3>1 DEF LedgerInv, ChainIntact, Contiguous, Positions
    <3> QED BY <3>2, <3>3
  <2> QED BY <2>1, <2>2
<1>7. Positions' = 1..(n + m)
  <2>1. Positions' = Positions \cup {e.sequence : e \in new}
    BY <1>1 DEF Positions
  <2>2. {e.sequence : e \in new} = n + 1 .. n + m
    <3>1. \A e \in new : e.sequence \in n + 1 .. n + m
      BY <1>2, ChainedRows DEF new, n, m
    <3>2. \A i \in n + 1 .. n + m : \E e \in new : e.sequence = i
      BY <1>2, ChainedRows DEF new, n, m
    <3> QED BY <3>1, <3>2
  <2>3. (1..n) \cup (n + 1 .. n + m) = 1..(n + m)
    BY <1>3
  <2> QED BY <1>6, <2>1, <2>2, <2>3
<1>8. ASSUME NEW i \in 1..n
      PROVE  EntryAt(i) \in Entry /\ EntryAt(i)' = EntryAt(i)
  <2>1. PICK r \in rows : r.sequence = i
    BY <1>6 DEF Positions
  <2>2. \A s \in rows : s.sequence = i => s = r
    BY <2>1 DEF LedgerInv, ChainIntact, NoFork
  <2>3. \A s \in rows' : s.sequence = i => s = r
    <3>1. \A e \in new : e.sequence # i
      BY <1>2, <1>3, ChainedRows DEF new, n, m
    <3> QED BY <1>1, <2>2, <3>1
  <2>4. (CHOOSE s \in rows : s.sequence = i) = r
    BY <2>1, <2>2
  <2>5. (CHOOSE s \in rows' : s.sequence = i) = r
    BY <1>1, <2>1, <2>3
  <2>6. r.entry \in Entry
    BY DEF LedgerInv, TypeOK, AuditEvent
  <2> QED BY <2>4, <2>5, <2>6 DEF EntryAt
<1>9. ASSUME NEW i \in n + 1 .. n + m
      PROVE  EntryAt(i)' = b[i - n]
  <2>1. PICK e \in new : e.sequence = i
    BY <1>2, ChainedRows DEF new, n, m
  <2>2. e.entry = b[i - n]
    BY <1>2, <2>1, ChainedRows DEF new, n, m
  <2>3. \A s \in rows' : s.sequence = i => s = e
    <3>1. \A s \in rows : s.sequence # i
      BY <2>1, <1>1 DEF Unique
    <3>2. \A s \in new : s.sequence = i => s = e
      BY <1>2, <2>1, ChainedRows DEF new, n, m
    <3> QED BY <1>1, <3>1, <3>2
  <2>4. (CHOOSE s \in rows' : s.sequence = i) = e
    BY <1>1, <2>1, <2>3
  <2> QED BY <2>2, <2>4 DEF EntryAt
<1>10. AbstractLog = [i \in 1..n |-> EntryAt(i)]
  BY <1>6 DEF AbstractLog
<1>11. AbstractLog' = [i \in 1..(n + m) |-> EntryAt(i)']
  BY <1>7 DEF AbstractLog
<1>12. AbstractLog \in Seq(Entry) /\ Len(AbstractLog) = n
  <2>1. [i \in 1..n |-> EntryAt(i)] \in Seq(Entry)
    BY <1>3, <1>8, IsASeq
  <2> QED BY <1>3, <1>10, <2>1, LenProperties
<1>13. ASSUME NEW i \in 1..(n + m)
       PROVE  EntryAt(i)' = (AbstractLog \o b)[i]
  <2>1. CASE i <= n
    BY <1>2, <1>3, <1>8, <1>10, <1>12, <2>1, ConcatProperties DEF m
  <2>2. CASE i > n
    BY <1>2, <1>3, <1>9, <1>12, <2>2, ConcatProperties DEF m
  <2>3. i <= n \/ i > n
    BY <1>3
  <2> QED BY <2>1, <2>2, <2>3, Zenon
<1>14. /\ AbstractLog \o b \in Seq(Entry)
       /\ DOMAIN (AbstractLog \o b) = 1..(n + m)
  <2>1. AbstractLog \o b \in Seq(Entry) /\ Len(AbstractLog \o b) = n + m
    BY <1>2, <1>12, ConcatProperties DEF m
  <2>2. DOMAIN (AbstractLog \o b) = 1..Len(AbstractLog \o b)
    BY <2>1, LenProperties
  <2> QED BY <2>1, <2>2
<1>15. AbstractLog \o b = [i \in 1..(n + m) |-> (AbstractLog \o b)[i]]
  <2>1. AbstractLog \o b \in [DOMAIN (AbstractLog \o b) -> Entry]
    BY <1>14, LenProperties
  <2> QED BY <1>14, <2>1
<1>16. AbstractLog' = AbstractLog \o b
  BY <1>11, <1>13, <1>15
<1> QED
  BY <1>16 DEF b

\* The table, read in order, only ever grows by whole batches: the detailed
\* protocol implements the abstract log.
THEOREM LedgerImplementsLog == Spec => ImplementsLog
<1>1. Init => Log!Init
  BY DEF Init, Log!Init, Positions
<1>2. ASSUME LedgerInv, [Next]_vars
      PROVE  [Log!Record]_AbstractLog
  <2>1. CASE rows' = rows
    BY <2>1, SameRowsSameLog
  <2>2. ASSUME NEW a \in Appender, Commit(a)
        PROVE  Log!Record
    <3>1. batch[a] \in Batch
      BY <1>2, <2>2 DEF Commit, Appending, LedgerInv, TypeOK
    <3>2. AbstractLog' = AbstractLog \o batch[a]
      BY <1>2, <2>2, CommitRecords
    <3> QED BY <3>1, <3>2 DEF Log!Record, AbstractLog
  <2> QED
    BY <1>2, <2>1, <2>2 DEF Next, ReadHead, Refuse, Abort, Restart, vars
<1> QED
  BY <1>1, <1>2, LedgerInvariant, PTL DEF Spec, ImplementsLog, Log!Spec, AbstractLog
=============================================================================
