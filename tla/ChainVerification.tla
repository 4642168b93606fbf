------------------------- MODULE ChainVerification --------------------------
(***************************************************************************)
(* chain.verify_chain, over a ledger whose file is not safe: behind the    *)
(* program, rows are rewritten, put in and lost, while the program goes on *)
(* appending onto what is left.  A digest has no key: whoever rewrites a   *)
(* row may also take its digest again.                                     *)
(*                                                                         *)
(* The whole ledger is walked from its first event; the slice of a run or  *)
(* of a baseline is walked as far as it goes, since other runs are         *)
(* interleaved with it.                                                    *)
(***************************************************************************)
EXTENDS AuditLedger

CONSTANTS Run,          \* the runs of the engine
          RunOf,        \* RunOf[e]: the run an entry belongs to
          MaxDamage     \* bound: how often the file is damaged

ASSUME RunOfAssumption == RunOf \in [Entry -> Run]
ASSUME MaxDamageAssumption == MaxDamage \in Nat

VARIABLES walked,       \* the ledger as somebody kept it, with its hashes
          recorded,     \* every row, as it was when it was committed (history)
          resealed,     \* every row whose digest was taken again (history)
          damage        \* how often the file was damaged (history)

chainVars == <<vars, walked, recorded, resealed, damage>>

-----------------------------------------------------------------------------
(***************************************************************************)
(* The verdict, as the positions at which a walk finds a break.            *)
(***************************************************************************)
\* The digest of an event, taken again, is the one stored with it.
OwnDigest(e) == e.event_hash = EventDigest(e.sequence, e.entry, e.prev_hash)

\* Faulty variant: each event is linked to the one walked before it, whatever
\* their positions.
LinkedToNeighbour(slice, e) ==
    \A p \in slice :
        /\ p.sequence < e.sequence
        /\ \A q \in slice : ~(p.sequence < q.sequence /\ q.sequence < e.sequence)
        => p.event_hash = e.prev_hash

\* Faulty variant: each event is checked against its own digest alone.
Unlinked(slice, e) == TRUE

\* Two events at adjacent positions are linked by a hash.
LinkedIn(slice, e) ==
    \A p \in slice : p.sequence + 1 = e.sequence => p.event_hash = e.prev_hash

\* expect_genesis = False.
SliceBreaks(slice) ==
    {e.sequence : e \in {e \in slice : ~(OwnDigest(e) /\ LinkedIn(slice, e))}}

\* Faulty variant: nothing is asked of the positions.
AnyPosition(ledger, e) == TRUE

\* The first event is the genesis event, and no other follows a hole.
InPosition(ledger, e) ==
    \/ e.sequence = 1 /\ e.prev_hash = GENESIS_HASH
    \/ \E p \in ledger : p.sequence + 1 = e.sequence

\* expect_genesis = True.
LedgerBreaks(ledger) ==
    SliceBreaks(ledger) \cup {e.sequence : e \in {e \in ledger : ~InPosition(ledger, e)}}

\* Audit log of a run; that of a baseline is the union of several.
ByRun(run) == {r \in rows : RunOf[r.entry] = run}

-----------------------------------------------------------------------------
ChainInit == Init /\ walked = {} /\ recorded = {} /\ resealed = {} /\ damage = 0

\* The hashes there are to copy from.
KnownHashes == {s.event_hash : s \in recorded \cup resealed}

\* A row with any one field of it another value.
Edits(r) ==
    {[r EXCEPT !.entry = e] : e \in Entry}
    \cup {[r EXCEPT !.sequence = i] : i \in 1..MaxEvents}
    \cup {[r EXCEPT !.prev_hash = h] : h \in KnownHashes}
    \cup {[r EXCEPT !.event_hash = h] : h \in KnownHashes}

\* The row with its digest taken again.
Resealed(e) == [e EXCEPT !.event_hash = EventDigest(e.sequence, e.entry, e.prev_hash)]

\* The row e comes into the file in the place of r or next to it.  The file still
\* has its UNIQUE indices.
Put(r, e) ==
    /\ damage < MaxDamage
    /\ e # r
    /\ \E rest \in {rows, rows \ {r}} : Unique(rest, {e}) /\ rows' = rest \cup {e}
    /\ damage' = damage + 1
    /\ UNCHANGED <<head, batch, walked, recorded>>

Alter(r) == \E e \in Edits(r) : Put(r, e) /\ UNCHANGED resealed

Reseal(r) ==
    \E e \in Edits(r) : Put(r, Resealed(e)) /\ resealed' = resealed \cup {Resealed(e)}

Lose(r) ==
    /\ damage < MaxDamage
    /\ rows' = rows \ {r}
    /\ damage' = damage + 1
    /\ UNCHANGED <<head, batch, walked, recorded, resealed>>

\* Somebody keeps the ledger as it is: an export, a copy, the hash of its end.
Keep == walked' = rows /\ UNCHANGED <<vars, recorded, resealed, damage>>

ChainNext ==
    \/ /\ Next
       /\ recorded' = recorded \cup (rows' \ rows)
       /\ UNCHANGED <<walked, resealed, damage>>
    \/ \E r \in rows : Alter(r) \/ Reseal(r) \/ Lose(r)
    \/ Keep

ChainSpec == ChainInit /\ [][ChainNext]_chainVars

(***************************************************************************)
(* Properties                                                              *)
(***************************************************************************)

\* What only the program wrote always verifies: the whole ledger, and any slice
\* of it, however many runs are interleaved in it.
IntactVerifies ==
    damage = 0 =>
        /\ LedgerBreaks(rows) = {}
        /\ \A run \in Run : SliceBreaks(ByRun(run)) = {}

\* The events a walk of a ledger passes before its first break, if it finds one.
Passed(ledger) == {r \in ledger : \A b \in LedgerBreaks(ledger) : r.sequence < b}

\* The events of a slice up to r, back to the last hole the runs interleaved with
\* it leave.
Stretch(slice, r) ==
    {q \in slice :
        /\ q.sequence <= r.sequence
        /\ q.sequence .. r.sequence \subseteq {p.sequence : p \in slice}}

\* Of a slice that verifies, a row that is not as it was recorded is one whose
\* digest was taken again; and from an event whose hash is that of an event passed
\* in the kept ledger back to the next hole, the slice is as it was kept, whatever
\* digests were taken again.
SliceIsVouchedFor ==
    \A run \in Run : SliceBreaks(ByRun(run)) = {} =>
        /\ ByRun(run) \subseteq recorded \cup resealed
        /\ \A r \in ByRun(run), t \in Passed(walked) :
              r.event_hash = t.event_hash => Stretch(ByRun(run), r) \subseteq walked

Upto(ledger, n) == {r \in ledger : r.sequence <= n}

\* Two walks that pass the same hash passed the same ledger up to it: nothing
\* before it was edited, lost or put in between them, whatever digests were taken
\* again.  After the last such hash the ledger may have been written anew.
WalksAgree ==
    \A r \in Passed(rows), t \in Passed(walked) :
        r.event_hash = t.event_hash =>
            Upto(rows, r.sequence) = Upto(walked, t.sequence)
=============================================================================
