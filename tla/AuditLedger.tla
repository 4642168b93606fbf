---------------------------- MODULE AuditLedger -----------------------------
(***************************************************************************)
(* The hash-chained table `audit_events` and its only writer,              *)
(* AuditRepository.append_many.                                            *)
(*                                                                         *)
(* An appender awaits twice: once to read the head of the ledger, once to  *)
(* commit the batch it chained onto that head.  Other appenders run in     *)
(* between.  The table is a SET of rows, so that nothing but the UNIQUE    *)
(* constraints of models.py stands between two appenders and a fork.       *)
(***************************************************************************)
EXTENDS Naturals, Sequences, FiniteSets

CONSTANTS Appender,     \* the requests that may be appending at one time
          Entry,        \* what a caller records (AuditEventCreate)
          Batch,        \* the batches callers append
          MaxEvents     \* bound: the ledger is not grown beyond this

ASSUME BatchAssumption == Batch \subseteq Seq(Entry) \ {<< >>}
ASSUME MaxEventsAssumption == MaxEvents \in Nat

VARIABLES rows,         \* the table audit_events
          head,         \* head[a]: the position and hash a chains onto
          batch         \* batch[a]: what a is appending, << >> when it is not

vars == <<rows, head, batch>>

(***************************************************************************)
(* SHA-256 is collision free here: a digest IS the content it is taken     *)
(* over.  The digest of an event covers its sequence, its entry and        *)
(* prev_hash, so it is prev_hash extended with the event's own content;    *)
(* the genesis hash extends nothing.                                       *)
(***************************************************************************)
Content == Nat \X Entry
Hash == Seq(Content)
GENESIS_HASH == << >>
EventDigest(sequence, entry, prev) == Append(prev, <<sequence, entry>>)

AuditEvent == [sequence: Nat, entry: Entry, prev_hash: Hash, event_hash: Hash]
Position == [sequence: Nat, event_hash: Hash]

\* What append_many chains onto when no row has been written.
EmptyLedger == [sequence |-> 0, event_hash |-> GENESIS_HASH]

TypeOK ==
    /\ rows \subseteq AuditEvent
    /\ head \in [Appender -> Position]
    /\ batch \in [Appender -> Batch \cup {<< >>}]

\* The hash after the first i entries of b are chained onto position h.
ChainHash(h, b, i) == h.event_hash \o [j \in 1..i |-> <<h.sequence + j, b[j]>>]

\* The rows append_many builds for a batch b from the head h it read.
Chained(h, b) ==
    {[sequence   |-> h.sequence + i,
      entry      |-> b[i],
      prev_hash  |-> ChainHash(h, b, i - 1),
      event_hash |-> ChainHash(h, b, i)] : i \in 1..Len(b)}

\* Faulty variant: the table without its UNIQUE constraints.
NoConstraint(table, new) == TRUE

\* The UNIQUE constraints on sequence and on event_hash.
Unique(table, new) ==
    \A e \in new, r \in table :
        e.sequence # r.sequence /\ e.event_hash # r.event_hash

\* Faulty variant: the head is read in ascending order.
HeadsAscending ==
    IF rows = {}
    THEN {EmptyLedger}
    ELSE {[sequence |-> e.sequence, event_hash |-> e.event_hash] :
            e \in {e \in rows : \A r \in rows : r.sequence >= e.sequence}}

\* ORDER BY sequence DESC LIMIT 1: the positions a read of the head may return.
Heads ==
    IF rows = {}
    THEN {EmptyLedger}
    ELSE {[sequence |-> e.sequence, event_hash |-> e.event_hash] :
            e \in {e \in rows : \A r \in rows : r.sequence <= e.sequence}}

Appending(a) == batch[a] # << >>

-----------------------------------------------------------------------------
Init ==
    /\ rows = {}
    /\ head = [a \in Appender |-> EmptyLedger]
    /\ batch = [a \in Appender |-> << >>]

\* The first await of append_many(b).
ReadHead(a, b) ==
    /\ ~Appending(a)
    /\ Cardinality(rows) + Len(b) <= MaxEvents
    /\ \E h \in Heads : head' = [head EXCEPT ![a] = h]
    /\ batch' = [batch EXCEPT ![a] = b]
    /\ UNCHANGED rows

\* Faulty variant: each event is committed in a transaction of its own.
CommitEventByEvent(a) ==
    LET first == Chained(head[a], <<batch[a][1]>>)
    IN  /\ Appending(a)
        /\ Unique(rows, first)
        /\ rows' = rows \cup first
        /\ head' = [head EXCEPT ![a] =
                      [sequence |-> head[a].sequence + 1,
                       event_hash |-> ChainHash(head[a], batch[a], 1)]]
        /\ batch' = [batch EXCEPT ![a] = Tail(@)]

\* The second await: every row of the batch, in one transaction.
Commit(a) ==
    /\ Appending(a)
    /\ Unique(rows, Chained(head[a], batch[a]))
    /\ rows' = rows \cup Chained(head[a], batch[a])
    /\ batch' = [batch EXCEPT ![a] = << >>]
    /\ head' = [head EXCEPT ![a] = EmptyLedger]

\* IntegrityError: a row of the batch collides with a stored one.
Refuse(a) ==
    /\ Appending(a)
    /\ ~Unique(rows, Chained(head[a], batch[a]))
    /\ batch' = [batch EXCEPT ![a] = << >>]
    /\ head' = [head EXCEPT ![a] = EmptyLedger]
    /\ UNCHANGED rows

\* The transaction never commits: a locked database, a cancelled request.
\* Nothing of the batch is kept.
Abort(a) ==
    /\ Appending(a)
    /\ batch' = [batch EXCEPT ![a] = << >>]
    /\ head' = [head EXCEPT ![a] = EmptyLedger]
    /\ UNCHANGED rows

\* The process dies: every open transaction is gone, every row is still there.
Restart ==
    /\ batch' = [a \in Appender |-> << >>]
    /\ head' = [a \in Appender |-> EmptyLedger]
    /\ UNCHANGED rows

Next ==
    \/ \E a \in Appender :
        \/ \E b \in Batch : ReadHead(a, b)
        \/ Commit(a)
        \/ Refuse(a)
        \/ Abort(a)
    \/ Restart

Spec == Init /\ [][Next]_vars

(***************************************************************************)
(* Properties                                                              *)
(***************************************************************************)

Positions == {r.sequence : r \in rows}

\* No two rows share a position or a hash, and no position below a row's is
\* empty: whatever the interleaving, the ledger has no fork and no hole.
NoFork ==
    \A r, s \in rows :
        r.sequence = s.sequence \/ r.event_hash = s.event_hash => r = s
Contiguous ==
    \A r \in rows : r.sequence > 0 /\ 1..r.sequence \subseteq Positions

\* Every row carries its own digest and the hash of the row before it: this is
\* what chain.verify_chain re-walks.
Linked ==
    \A r \in rows :
        /\ r.event_hash = EventDigest(r.sequence, r.entry, r.prev_hash)
        /\ \/ r.sequence = 1 /\ r.prev_hash = GENESIS_HASH
           \/ \E p \in rows : /\ p.sequence + 1 = r.sequence
                             /\ p.event_hash = r.prev_hash

ChainIntact == NoFork /\ Contiguous /\ Linked

\* The constraints refuse exactly the appender whose head has moved since it
\* read it: a fresh append is never refused, a stale one is never let through.
RefusedIffStale ==
    \A a \in Appender :
        Appending(a) =>
            (Unique(rows, Chained(head[a], batch[a])) <=> head[a] \in Heads)

\* The ledger read in order is the abstract log: whole batches, appended.
EntryAt(i) == (CHOOSE r \in rows : r.sequence = i).entry
Log == INSTANCE EventLog WITH log <- [i \in Positions |-> EntryAt(i)]
ImplementsLog == Log!Spec
=============================================================================
