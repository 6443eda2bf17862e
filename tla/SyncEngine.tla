----------------------------- MODULE SyncEngine -----------------------------
(***************************************************************************)
(* The device side of sync: class SyncEngine of packages/sync with the     *)
(* outbox, cursor and note store of apps/web/src/offline/syncAdapters.ts.  *)
(*                                                                         *)
(* A sync cycle is one async function; the awaits in it are where other    *)
(* handlers of the page run, and where the network answers.  phase[d] says *)
(* at which await the cycle of d stands:                                   *)
(*   idle     no cycle runs                                                *)
(*   push     a push request is on its way to the server                   *)
(*   serving  the server has it                                            *)
(*   acks     the reply is on its way back                                 *)
(*   pull     a pull request is on its way                                 *)
(*   page     the reply is on its way back                                 *)
(*   apply    no await: the page is being applied, one op at a time, which *)
(*            only the end of the tab can interrupt                        *)
(***************************************************************************)
EXTENDS SyncOps

CONSTANTS
    BatchSize,     \* batchSize of the engine (100)
    Edits,         \* the kinds of mutation users make
    MaxOps,        \* bound: mutations issued in a behaviour
    MaxLamport     \* bound: the clock of a device

ASSUME SyncEngineAssumption ==
    /\ BatchSize \in Nat \ {0}
    /\ Edits \subseteq Kind
    /\ MaxOps \in Nat
    /\ MaxLamport \in Nat

VARIABLES
    lamport,     \* the engine's clock, in memory only
    outbox,      \* IdbOutbox.pending_, in memory
    quarantine,  \* IdbOutbox.quarantined_, in memory
    rejects,     \* RejectionTracker.counts, by the lamport of the op's id
    disk,        \* the sync ops in the IndexedDB outbox
    cursor,      \* the pull cursor, 0 when not set
    store,       \* the note rows of the device
    phase,       \* where the sync cycle stands
    batch,       \* the batch of the push in flight
    unsent,      \* the rest of the snapshot of the outbox
    acks,        \* the reply of a push: a status for each op of the batch
    page,        \* the ops of a pull reply (still to be applied)
    next,        \* its nextCursor
    issued,      \* history: the mutations made
    seen,        \* history: the mutations a device has applied from pulls
    lost         \* history: the mutations that ended with a tab before they were on disk

engineVars == <<lamport, outbox, quarantine, rejects, disk, cursor, store, phase, batch,
                unsent, acks, page, next, issued, seen, lost>>

cycleVars == <<phase, batch, unsent, acks, page, next>>

Phase == {"idle", "push", "serving", "acks", "pull", "page", "apply"}

QUARANTINE_THRESHOLD == 3

SYNC_SCHEMA_VERSION == 1

INITIAL_CURSOR == 0

\* The ops of s without those that a set of ids names, in the order they had.
Others(s, ids) == {i \in DOMAIN s : OpId(s[i]) \notin ids}

Without(s, ids) == [k \in 1..Cardinality(Others(s, ids)) |-> s[Nth(Others(s, ids), k)]]

EngineInit ==
    /\ lamport = [d \in Device |-> 0]
    /\ outbox = [d \in Device |-> <<>>]
    /\ quarantine = [d \in Device |-> {}]
    /\ rejects = [d \in Device |-> [l \in 1..MaxLamport |-> 0]]
    /\ disk = [d \in Device |-> {}]
    /\ cursor = [d \in Device |-> INITIAL_CURSOR]
    /\ store = [d \in Device |-> [n \in Note |-> NoRow]]
    /\ phase = [d \in Device |-> "idle"]
    /\ batch = [d \in Device |-> <<>>]
    /\ unsent = [d \in Device |-> <<>>]
    /\ acks = [d \in Device |-> <<>>]
    /\ page = [d \in Device |-> {}]
    /\ next = [d \in Device |-> 0]
    /\ issued = {}
    /\ seen = [d \in Device |-> {}]
    /\ lost = {}

-----------------------------------------------------------------------------
\* A device edits the notes it has: those it made and those it has pulled.  Note ids are
\* random, so a note is created once.
Knows(d, n) ==
    \E o \in issued : o.kind = "create" /\ o.note = n /\ (o.dev = d \/ o.uid \in seen[d])

MayIssue(o) ==
    \/ /\ o.kind = "create"
       /\ o.fields = Field
       /\ o.nb # NoNotebook
       /\ \A p \in issued : p.kind = "create" => p.note # o.note
    \/ /\ o.kind = "update"
       /\ Cardinality(o.fields) = 1
       /\ Knows(o.dev, o.note)
    \/ /\ o.kind \in {"trash", "purge", "restore"}
       /\ o.fields = {}
       /\ o.nb = NoNotebook
       /\ Knows(o.dev, o.note)

\* enqueue: tick the clock, stamp the op, put it in the outbox.  An id in quarantine is
\* dropped by the outbox.
Enqueue(d, kind, n, fields, nb) ==
    LET o == [dev |-> d, lam |-> lamport[d] + 1, uid |-> Cardinality(issued) + 1,
              kind |-> kind, note |-> n, fields |-> fields, nb |-> nb]
    IN /\ phase[d] # "apply"
       /\ Cardinality(issued) < MaxOps
       /\ lamport[d] < MaxLamport
       /\ MayIssue(o)
       /\ lamport' = [lamport EXCEPT ![d] = o.lam]
       /\ outbox' = IF \E q \in quarantine[d] : OpId(q) = OpId(o) THEN outbox
                    ELSE [outbox EXCEPT ![d] = Append(@, o)]
       /\ issued' = issued \cup {o}
       /\ UNCHANGED <<quarantine, rejects, disk, cursor, store, cycleVars, seen, lost>>

\* The IndexedDB writes behind enqueue and acknowledge, which nothing waits for, catch up
\* with memory.  An op in quarantine keeps its entry.
OnDisk(d) == Range(outbox[d]) \cup quarantine[d]

Persist(d) ==
    /\ disk[d] # OnDisk(d)
    /\ disk' = [disk EXCEPT ![d] = OnDisk(d)]
    /\ UNCHANGED <<lamport, outbox, quarantine, rejects, cursor, store, cycleVars, issued,
                   seen, lost>>

-----------------------------------------------------------------------------
\* The next step of the push loop: the next batch of the snapshot, or, when it is sent,
\* the first pull.
PushNext(d, rest) ==
    LET size == IF Len(rest) < BatchSize THEN Len(rest) ELSE BatchSize
    IN /\ phase' = [phase EXCEPT ![d] = IF rest = <<>> THEN "pull" ELSE "push"]
       /\ batch' = [batch EXCEPT ![d] = SubSeq(rest, 1, size)]
       /\ unsent' = [unsent EXCEPT ![d] = SubSeq(rest, size + 1, Len(rest))]

\* sync() starts; isSyncing lets one cycle run at a time.
StartSync(d) ==
    /\ phase[d] = "idle"
    /\ PushNext(d, outbox[d])
    /\ UNCHANGED <<lamport, outbox, quarantine, rejects, disk, cursor, store, acks, page,
                   next, issued, seen, lost>>

\* negotiateSchema
Compatible(version) == version >= 1 /\ version <= SYNC_SCHEMA_VERSION + 1

AckedWith(d, statuses) ==
    {OpId(batch[d][i]) : i \in {j \in DOMAIN batch[d] : acks[d][j] \in statuses}}

\* The RejectionTracker after the acks of a batch.
Rejections(d) ==
    [l \in 1..MaxLamport |->
        IF <<d, l>> \in AckedWith(d, {"accepted", "duplicate"}) THEN 0
        ELSE IF <<d, l>> \in AckedWith(d, {"rejected"}) THEN rejects[d][l] + 1
        ELSE rejects[d][l]]

\* The ids that leave the outbox: those the server has, and those it rejected too often.
Settled(d) == AckedWith(d, {"accepted", "duplicate"})

Hopeless(d) ==
    {id \in AckedWith(d, {"rejected"}) : Rejections(d)[id[2]] >= QUARANTINE_THRESHOLD}

\* Fault: only an accepted op leaves the outbox.
TakeAcksOnce(d) ==
    /\ rejects' = [rejects EXCEPT ![d] = Rejections(d)]
    /\ quarantine' = quarantine
    /\ outbox' = [outbox EXCEPT ![d] = Without(@, AckedWith(d, {"accepted"}))]
    /\ PushNext(d, unsent[d])

\* The acks of a batch: accepted and duplicate ops leave the outbox, a rejected one leaves
\* it for quarantine when it was rejected often enough.
TakeAcks(d) ==
    /\ rejects' = [rejects EXCEPT ![d] = Rejections(d)]
    /\ quarantine' = [quarantine EXCEPT
                         ![d] = @ \cup {o \in Range(outbox[d]) : OpId(o) \in Hopeless(d)}]
    /\ outbox' = [outbox EXCEPT ![d] = Without(@, Settled(d) \cup Hopeless(d))]
    /\ PushNext(d, unsent[d])

\* The reply of a push.  With an incompatible server the acks are not read, and the rest of
\* the snapshot is not sent.
RecvAcks(d, version) ==
    /\ phase[d] = "acks"
    /\ \/ Compatible(version) /\ TakeAcks(d)
       \/ ~Compatible(version) /\ PushNext(d, <<>>) /\ UNCHANGED <<rejects, quarantine, outbox>>
    /\ acks' = [acks EXCEPT ![d] = <<>>]
    /\ UNCHANGED <<lamport, disk, cursor, store, page, next, issued, seen, lost>>

\* Fault: the batch of a failed push is taken for sent.
PushFailsAcked(d) ==
    /\ PushNext(d, <<>>)
    /\ acks' = [acks EXCEPT ![d] = <<>>]
    /\ outbox' = [outbox EXCEPT ![d] = Without(@, {OpId(o) : o \in Range(batch[d])})]
    /\ UNCHANGED <<lamport, quarantine, rejects, disk, cursor, store, page, next, issued,
                   seen, lost>>

\* push() throws: the rest of the snapshot is not sent, and the cycle goes on to pull.
PushFails(d) ==
    /\ PushNext(d, <<>>)
    /\ acks' = [acks EXCEPT ![d] = <<>>]
    /\ UNCHANGED <<lamport, outbox, quarantine, rejects, disk, cursor, store, page, next,
                   issued, seen, lost>>

-----------------------------------------------------------------------------
\* The reply of a pull: an empty page, or an incompatible server, ends the cycle.
RecvPage(d, version) ==
    /\ phase[d] = "page"
    /\ \/ /\ page[d] # {} /\ Compatible(version)
          /\ phase' = [phase EXCEPT ![d] = "apply"]
          /\ UNCHANGED <<page, next>>
       \/ /\ page[d] = {} \/ ~Compatible(version)
          /\ phase' = [phase EXCEPT ![d] = "idle"]
          /\ page' = [page EXCEPT ![d] = {}]
          /\ next' = [next EXCEPT ![d] = 0]
    /\ UNCHANGED <<lamport, outbox, quarantine, rejects, disk, cursor, store, batch, unsent,
                   acks, issued, seen, lost>>

\* One turn of the loop of applyOps, in (lamport, deviceId) order.  The engine takes the
\* clocks of the page over after the loop: the same, since nothing runs in between.
ApplyNext(d) ==
    /\ phase[d] = "apply"
    /\ \E o \in page[d] :
         /\ \A p \in page[d] : Before(o, p)
         /\ store' = [store EXCEPT ![d][o.note] = ClientApply(@, o)]
         /\ lamport' = [lamport EXCEPT ![d] = IF o.lam > @ THEN o.lam ELSE @]
         /\ seen' = [seen EXCEPT ![d] = @ \cup {o.uid}]
         /\ page' = [page EXCEPT ![d] = @ \ {o}]
    /\ UNCHANGED <<outbox, quarantine, rejects, disk, cursor, phase, batch, unsent, acks,
                   next, issued, lost>>

\* The page is applied.  nextCursor null ends the cycle, and saves the INITIAL cursor;
\* otherwise the cursor moves on and the next page is asked for.
EndPage(d) ==
    /\ phase[d] = "apply"
    /\ page[d] = {}
    /\ \/ /\ next[d] = 0
          /\ cursor' = [cursor EXCEPT ![d] = INITIAL_CURSOR]
          /\ phase' = [phase EXCEPT ![d] = "idle"]
       \/ /\ next[d] # 0
          /\ cursor' = [cursor EXCEPT ![d] = next[d]]
          /\ phase' = [phase EXCEPT ![d] = "pull"]
    /\ next' = [next EXCEPT ![d] = 0]
    /\ UNCHANGED <<lamport, outbox, quarantine, rejects, disk, store, batch, unsent, acks,
                   page, issued, seen, lost>>

\* pull() throws: the cycle ends, the cursor stays.
PullFails(d) ==
    /\ phase[d] \in {"pull", "page"}
    /\ phase' = [phase EXCEPT ![d] = "idle"]
    /\ page' = [page EXCEPT ![d] = {}]
    /\ next' = [next EXCEPT ![d] = 0]
    /\ UNCHANGED <<lamport, outbox, quarantine, rejects, disk, cursor, store, batch, unsent,
                   acks, issued, seen, lost>>

-----------------------------------------------------------------------------
\* The orders in which hydrate may list a set of entries: their keys are random UUIDs.
Orders(S) == Bijection(1..Cardinality(S), S)

\* The tab ends, anywhere, and is opened again: memory is gone, and getSyncContext reads
\* the outbox, the cursor and the rows from IndexedDB.  Nothing reads a clock.
Restart(d) ==
    /\ \E s \in Orders(disk[d]) : outbox' = [outbox EXCEPT ![d] = s]
    /\ lost' = lost \cup ((Range(outbox[d]) \cup quarantine[d]) \ disk[d])
    /\ lamport' = [lamport EXCEPT ![d] = 0]
    /\ quarantine' = [quarantine EXCEPT ![d] = {}]
    /\ rejects' = [rejects EXCEPT ![d] = [l \in 1..MaxLamport |-> 0]]
    /\ phase' = [phase EXCEPT ![d] = "idle"]
    /\ batch' = [batch EXCEPT ![d] = <<>>]
    /\ unsent' = [unsent EXCEPT ![d] = <<>>]
    /\ acks' = [acks EXCEPT ![d] = <<>>]
    /\ page' = [page EXCEPT ![d] = {}]
    /\ next' = [next EXCEPT ![d] = 0]
    /\ UNCHANGED <<disk, cursor, store, issued, seen>>
=============================================================================
