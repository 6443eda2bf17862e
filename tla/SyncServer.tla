----------------------------- MODULE SyncServer -----------------------------
(***************************************************************************)
(* The server side of sync: the op log (table ops and its seq counter),    *)
(* the note rows, the push and pull handlers of                            *)
(* apps/server/src/routes/sync.ts, the compaction job, and the REST writes *)
(* that touch the same rows.                                               *)
(*                                                                         *)
(* A push is one synchronous handler, but only the ingest is a             *)
(* transaction: each accepted op is applied to the tables after it, on its *)
(* own.  ServerIngest is the transaction; ServerApplyNext is one turn of   *)
(* the loop after it; no other request is handled in between, and a crash  *)
(* of the process may come between any two of them.                        *)
(***************************************************************************)
EXTENDS SyncOps

CONSTANTS
    PageSize,              \* the limit of a pull (200 in the client)
    CompactionThreshold,   \* COMPACTION_THRESHOLD
    CompactionLag,         \* COMPACTION_LAG
    ServerVersions,        \* schema versions the server may run
    MaxRest                \* bound: REST writes in a behaviour

ASSUME SyncServerAssumption ==
    /\ PageSize \in Nat \ {0}
    /\ CompactionThreshold \in Nat \ {0}
    /\ CompactionLag \in Nat
    /\ ServerVersions \subseteq Nat
    /\ MaxRest \in Nat

VARIABLES
    log,            \* table ops: a set of [op, seq]
    counter,        \* op_seq_counter.value
    notes,          \* table notes
    notebooks,      \* table notebooks
    srv,            \* the push being handled, if any
    serverVersion,  \* SYNC_SCHEMA_VERSION of the server
    rest,           \* REST writes so far
    applied         \* history: the mutations applied to the tables

serverVars == <<log, counter, notes, notebooks, srv, serverVersion, rest, applied>>

Entry == [op : Op, seq : Nat]

Status == {"accepted", "rejected", "duplicate"}

\* to: the device that waits for the reply; empty when it has given up.  next: the position
\* of the apply loop in the batch.
Push == [busy : BOOLEAN, to : SUBSET Device, batch : Seq(Op), acks : Seq(Status), next : Nat]

NoPush == [busy |-> FALSE, to |-> {}, batch |-> <<>>, acks |-> <<>>, next |-> 0]

LogIds == {OpId(e.op) : e \in log}

ServerInit ==
    /\ log = {}
    /\ counter = 0
    /\ notes = [n \in Note |-> NoRow]
    /\ notebooks = Notebook
    /\ srv = NoPush
    /\ serverVersion \in ServerVersions
    /\ rest = 0
    /\ applied = {}

-----------------------------------------------------------------------------
\* Faults: no look at the rest of the batch; no look at the table.
FreshInTable(batch) == {i \in DOMAIN batch : OpId(batch[i]) \notin LogIds}

FreshInBatch(batch) ==
    {i \in DOMAIN batch : \A j \in 1..(i - 1) : OpId(batch[j]) # OpId(batch[i])}

\* ingestOps.  An op whose id the table holds, or that came earlier in the batch, is a
\* duplicate; the others get the next numbers of the counter, in batch order.
FreshAt(batch) ==
    {i \in DOMAIN batch : /\ OpId(batch[i]) \notin LogIds
                          /\ \A j \in 1..(i - 1) : OpId(batch[j]) # OpId(batch[i])}

SeqAt(batch, i) == counter + Rank(FreshAt(batch), i)

\* The transaction of a push: log the batch, and start the apply loop.
ServerIngest(batch, to) ==
    /\ ~srv.busy
    /\ log' = log \cup {[op |-> batch[i], seq |-> SeqAt(batch, i)] : i \in FreshAt(batch)}
    /\ counter' = counter + Cardinality(FreshAt(batch))
    /\ srv' = [busy |-> TRUE, to |-> to, batch |-> batch, next |-> 1,
               acks |-> [i \in DOMAIN batch |->
                            IF i \in FreshAt(batch) THEN "accepted" ELSE "duplicate"]]
    /\ UNCHANGED <<notes, notebooks, serverVersion, rest, applied>>

\* Faults: an op that throws is taken out of the log again, or is still reported accepted.
ServerApplyUndo ==
    /\ srv.busy
    /\ srv.next <= Len(srv.batch)
    /\ LET o == srv.batch[srv.next]
           apply == srv.acks[srv.next] = "accepted"
           throws == apply /\ ServerThrows(notes[o.note], o, notebooks)
           done == apply /\ ~throws
       IN /\ notes' = IF done THEN [notes EXCEPT ![o.note] = ServerApply(@, o)] ELSE notes
          /\ applied' = IF done THEN applied \cup {o.uid} ELSE applied
          /\ log' = IF throws THEN {e \in log : e.op # o} ELSE log
          /\ srv' = [srv EXCEPT !.next = @ + 1,
                                !.acks = IF throws THEN [@ EXCEPT ![srv.next] = "rejected"]
                                         ELSE @]
    /\ UNCHANGED <<counter, notebooks, serverVersion, rest>>

ServerApplySilent ==
    /\ srv.busy
    /\ srv.next <= Len(srv.batch)
    /\ LET o == srv.batch[srv.next]
           done == /\ srv.acks[srv.next] = "accepted"
                   /\ ~ServerThrows(notes[o.note], o, notebooks)
       IN /\ notes' = IF done THEN [notes EXCEPT ![o.note] = ServerApply(@, o)] ELSE notes
          /\ applied' = IF done THEN applied \cup {o.uid} ELSE applied
    /\ srv' = [srv EXCEPT !.next = @ + 1]
    /\ UNCHANGED <<log, counter, notebooks, serverVersion, rest>>

\* One turn of the loop after it: an accepted op is applied to its row, or, when that
\* throws, its ack becomes rejected.  The log keeps the op.
ServerApplyNext ==
    /\ srv.busy
    /\ srv.next <= Len(srv.batch)
    /\ LET o == srv.batch[srv.next]
           apply == srv.acks[srv.next] = "accepted"
           throws == apply /\ ServerThrows(notes[o.note], o, notebooks)
           done == apply /\ ~throws
       IN /\ notes' = IF done THEN [notes EXCEPT ![o.note] = ServerApply(@, o)] ELSE notes
          /\ applied' = IF done THEN applied \cup {o.uid} ELSE applied
          /\ srv' = [srv EXCEPT !.next = @ + 1,
                                !.acks = IF throws THEN [@ EXCEPT ![srv.next] = "rejected"]
                                         ELSE @]
    /\ UNCHANGED <<log, counter, notebooks, serverVersion, rest>>

\* Fault: the answer does not wait for the loop.
ServerReplyEarly ==
    /\ srv.busy
    /\ srv' = NoPush
    /\ UNCHANGED <<log, counter, notes, notebooks, serverVersion, rest, applied>>

\* The handler has answered (the answer itself is the device's concern).
ServerReply ==
    /\ srv.busy
    /\ srv.next > Len(srv.batch)
    /\ srv' = NoPush
    /\ UNCHANGED <<log, counter, notes, notebooks, serverVersion, rest, applied>>

\* The process dies in the handler, and is started again: what was committed stays.
ServerCrash ==
    /\ srv.busy
    /\ srv' = NoPush
    /\ UNCHANGED <<log, counter, notes, notebooks, serverVersion, rest, applied>>

\* The device that waited for the reply gives up; the handler goes on.
ServerUnheard(d) == srv' = IF d \in srv.to THEN [srv EXCEPT !.to = {}] ELSE srv

-----------------------------------------------------------------------------
\* GET /sync/pull: at most PageSize entries after the cursor, in seq order, and the cursor
\* of the last of them when there are more; NullCursor when there are not.
NullCursor == 0

\* Fault: the entry after the cursor is skipped.
LaterByTwo(since) == {e \in log : e.seq > since + 1}

Later(since) == {e \in log : e.seq > since}

LaterSeqs(since) == {e.seq : e \in Later(since)}

PageAfter(since) == {e \in Later(since) : Rank(LaterSeqs(since), e.seq) <= PageSize}

\* Fault: the cursor goes to the head of the log.
NextCursorHead(since) ==
    IF Cardinality(LaterSeqs(since)) <= PageSize THEN NullCursor ELSE counter

NextCursor(since) ==
    IF Cardinality(LaterSeqs(since)) <= PageSize THEN NullCursor
    ELSE Nth(LaterSeqs(since), PageSize)

-----------------------------------------------------------------------------
\* Fault (and what the job is meant to do): measure from the newest entry.
HeadSeqNewest ==
    IF log = {} THEN 0
    ELSE (CHOOSE e \in log : \A f \in log : f.seq <= e.seq).seq

\* runCompactionJob.  The job means to find the newest seq, and takes it from
\* pullOpsSince(0, 1)[0], which is the oldest entry.
HeadSeq ==
    IF log = {} THEN 0
    ELSE (CHOOSE e \in log : \A f \in log : e.seq <= f.seq).seq

OlderThan == IF HeadSeq > CompactionLag THEN HeadSeq - CompactionLag ELSE 0

Candidates ==
    {n \in Note : Cardinality({e \in log : e.op.note = n /\ e.seq < OlderThan})
                        >= CompactionThreshold}

\* POST /sync/compact: a snapshot replaces every op of each candidate.  No pull sends
\* snapshots, so the snapshot itself is left out.
Compact ==
    /\ ~srv.busy
    /\ log' = {e \in log : e.op.note \notin Candidates}
    /\ UNCHANGED <<counter, notes, notebooks, srv, serverVersion, rest, applied>>

\* A row whose notebook is removed.
Moved(row, nb) == [row EXCEPT !.nb = nb, !.rev = @ + 1]

\* REST: a notebook is removed, and its notes, trashed ones too, move to another one.  Devices
\* may still name it.  (A notebook made later is as good as one there from the start, which
\* nothing names yet.)
RestRemoveNotebook(nb, target) ==
    /\ ~srv.busy
    /\ rest < MaxRest
    /\ nb \in notebooks
    /\ target \in notebooks \ {nb} \/ \A n \in Note : notes[n].nb # nb
    /\ notebooks' = notebooks \ {nb}
    /\ notes' = [n \in Note |-> IF notes[n].nb = nb THEN Moved(notes[n], target)
                               ELSE notes[n]]
    /\ rest' = rest + 1
    /\ UNCHANGED <<log, counter, srv, serverVersion, applied>>

\* REST writes of a note add one to rev, whatever clocks the ops carry, and log no op.
RestWrite(n, row) ==
    /\ ~srv.busy
    /\ rest < MaxRest
    /\ notes' = [notes EXCEPT ![n] = [row EXCEPT !.rev = @ + 1]]
    /\ rest' = rest + 1
    /\ UNCHANGED <<log, counter, notebooks, srv, serverVersion, applied>>

\* PATCH with the rev the row has.  The field holds 0, a value no op writes.
RestPatch(n, f) == Present(notes[n]) /\ RestWrite(n, [notes[n] EXCEPT !.val[f] = 0])

RestTrash(n) ==
    notes[n].state = "live" /\ RestWrite(n, [notes[n] EXCEPT !.state = "trashed"])

RestRestore(n) ==
    notes[n].state = "trashed" /\ RestWrite(n, [notes[n] EXCEPT !.state = "live"])
=============================================================================
