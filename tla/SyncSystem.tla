----------------------------- MODULE SyncSystem -----------------------------
(***************************************************************************)
(* Devices, the server and the network between them: SyncEngine and        *)
(* SyncServer composed.  A request or a reply can be lost; a push that the *)
(* device has given up on can still reach the server, later than requests  *)
(* made after it; the server can die inside a push; a tab can end at any   *)
(* point and be opened again.                                              *)
(***************************************************************************)
EXTENDS SyncEngine, SyncServer

CONSTANTS
    MaxFaults,      \* bound: messages lost and server crashes
    MaxRestarts     \* bound: tabs that end

ASSUME SyncSystemAssumption == MaxFaults \in Nat /\ MaxRestarts \in Nat

VARIABLES
    late,       \* push batches still on their way, whose device has given up
    faults,     \* faults so far
    restarts    \* restarts so far

vars == <<engineVars, serverVars, late, faults, restarts>>

Init ==
    /\ EngineInit
    /\ ServerInit
    /\ late = {}
    /\ faults = 0
    /\ restarts = 0

-----------------------------------------------------------------------------
\* Steps of a device alone.
Edit(d) ==
    /\ \E kind \in Edits, n \in Note, fields \in SUBSET Field, nb \in Notebook \cup {NoNotebook} :
          Enqueue(d, kind, n, fields, nb)
    /\ UNCHANGED <<serverVars, late, faults, restarts>>

Save(d) == Persist(d) /\ UNCHANGED <<serverVars, late, faults, restarts>>

Start(d) == StartSync(d) /\ UNCHANGED <<serverVars, late, faults, restarts>>

Acks(d) == RecvAcks(d, serverVersion) /\ UNCHANGED <<serverVars, late, faults, restarts>>

Page(d) == RecvPage(d, serverVersion) /\ UNCHANGED <<serverVars, late, faults, restarts>>

Apply(d) == ApplyNext(d) /\ UNCHANGED <<serverVars, late, faults, restarts>>

Finish(d) == EndPage(d) /\ UNCHANGED <<serverVars, late, faults, restarts>>

-----------------------------------------------------------------------------
\* A push reaches the server, the server works through it, and its reply leaves.
Ingest(d) ==
    /\ phase[d] = "push"
    /\ ServerIngest(batch[d], {d})
    /\ phase' = [phase EXCEPT ![d] = "serving"]
    /\ UNCHANGED <<lamport, outbox, quarantine, rejects, disk, cursor, store, batch, unsent,
                   acks, page, next, issued, seen, lost, late, faults, restarts>>

LateIngest ==
    /\ \E b \in late : ServerIngest(b, {}) /\ late' = late \ {b}
    /\ UNCHANGED <<engineVars, faults, restarts>>

Tables == ServerApplyNext /\ UNCHANGED <<engineVars, late, faults, restarts>>

Reply ==
    /\ ServerReply
    /\ phase' = [d \in Device |-> IF d \in srv.to THEN "acks" ELSE phase[d]]
    /\ acks' = [d \in Device |-> IF d \in srv.to THEN srv.acks ELSE acks[d]]
    /\ UNCHANGED <<lamport, outbox, quarantine, rejects, disk, cursor, store, batch, unsent,
                   page, next, issued, seen, lost, late, faults, restarts>>

\* A pull reaches the server, whose reply leaves.
Serve(d) ==
    /\ phase[d] = "pull"
    /\ ~srv.busy
    /\ phase' = [phase EXCEPT ![d] = "page"]
    /\ page' = [page EXCEPT ![d] = {e.op : e \in PageAfter(cursor[d])}]
    /\ next' = [next EXCEPT ![d] = NextCursor(cursor[d])]
    /\ UNCHANGED <<lamport, outbox, quarantine, rejects, disk, cursor, store, batch, unsent,
                   acks, issued, seen, lost, serverVars, late, faults, restarts>>

Server ==
    /\ \/ Compact
       \/ \E nb, target \in Notebook : RestRemoveNotebook(nb, target)
       \/ \E n \in Note, f \in Field : RestPatch(n, f)
       \/ \E n \in Note : RestTrash(n) \/ RestRestore(n)
    /\ UNCHANGED <<engineVars, late, faults, restarts>>

-----------------------------------------------------------------------------
\* A fault of the network is seen by the device as an exception.  A push that had not
\* reached the server is lost, or is late.
Fault == faults < MaxFaults /\ faults' = faults + 1

LosePush(d) ==
    /\ Fault
    /\ phase[d] \in {"push", "serving", "acks"}
    /\ PushFails(d)
    /\ \/ phase[d] = "push" /\ late' = late \cup {batch[d]}
       \/ late' = late
    /\ ServerUnheard(d)
    /\ UNCHANGED <<log, counter, notes, notebooks, serverVersion, rest, applied, restarts>>

LosePull(d) ==
    /\ Fault
    /\ PullFails(d)
    /\ UNCHANGED <<serverVars, late, restarts>>

\* The server dies in a push; the device that waits for it sees the connection fail.
Crash ==
    /\ Fault
    /\ ServerCrash
    /\ IF srv.to = {} THEN UNCHANGED engineVars ELSE \E d \in srv.to : PushFails(d)
    /\ UNCHANGED <<late, restarts>>

\* A tab ends, with whatever it was waiting for.
Reopen(d) ==
    /\ restarts < MaxRestarts
    /\ restarts' = restarts + 1
    /\ Restart(d)
    /\ \/ phase[d] = "push" /\ late' = late \cup {batch[d]}
       \/ late' = late
    /\ ServerUnheard(d)
    /\ UNCHANGED <<log, counter, notes, notebooks, serverVersion, rest, applied, faults>>

-----------------------------------------------------------------------------
DeviceStep(d) ==
    \/ Edit(d) \/ Save(d) \/ Start(d) \/ Acks(d) \/ Page(d) \/ Apply(d) \/ Finish(d)
    \/ Ingest(d) \/ Serve(d) \/ LosePush(d) \/ LosePull(d) \/ Reopen(d)

Next ==
    \/ \E d \in Device : DeviceStep(d)
    \/ LateIngest \/ Tables \/ Reply \/ Server \/ Crash

Spec == Init /\ [][Next]_vars

\* useSync starts a cycle every minute while the page is online, IndexedDB completes what
\* it is given, and client and server run: the bound on faults makes the network good in
\* the end.  Edits, REST writes, faults and restarts are under no fairness.
Fairness ==
    /\ \A d \in Device : /\ WF_vars(Save(d)) /\ WF_vars(Start(d)) /\ WF_vars(Acks(d))
                         /\ WF_vars(Page(d)) /\ WF_vars(Apply(d)) /\ WF_vars(Finish(d))
                         /\ SF_vars(Ingest(d)) /\ SF_vars(Serve(d))
    /\ WF_vars(Tables) /\ WF_vars(Reply)

LiveSpec == Spec /\ Fairness
-----------------------------------------------------------------------------
\* Types of all variables.  The acks of a push are one for each op of the batch.
EngineTypeOK ==
    /\ lamport \in [Device -> Nat]
    /\ outbox \in [Device -> Seq(Op)]
    /\ quarantine \in [Device -> SUBSET Op]
    /\ rejects \in [Device -> [1..MaxLamport -> Nat]]
    /\ disk \in [Device -> SUBSET Op]
    /\ cursor \in [Device -> Nat]
    /\ store \in [Device -> [Note -> Row]]
    /\ phase \in [Device -> Phase]
    /\ batch \in [Device -> Seq(Op)]
    /\ unsent \in [Device -> Seq(Op)]
    /\ acks \in [Device -> Seq(Status)]
    /\ page \in [Device -> SUBSET Op]
    /\ next \in [Device -> Nat]
    /\ issued \in SUBSET Op
    /\ seen \in [Device -> SUBSET Nat]
    /\ lost \in SUBSET Op

ServerTypeOK ==
    /\ log \in SUBSET Entry
    /\ counter \in Nat
    /\ notes \in [Note -> Row]
    /\ notebooks \in SUBSET Notebook
    /\ srv \in Push
    /\ serverVersion \in Nat
    /\ rest \in Nat
    /\ applied \in SUBSET Nat

TypeOK ==
    /\ EngineTypeOK
    /\ ServerTypeOK
    /\ late \in SUBSET Seq(Op)
    /\ faults \in Nat
    /\ restarts \in Nat

\* The log is the one of the abstract specification: ids are made, then logged once, under
\* growing numbers, and stay (ingestOps, nextSeq, and the compaction job, which as written
\* never finds a candidate).
OL == INSTANCE OpLog WITH
        made <- {OpId(o) : o \in issued},
        entries <- {[id |-> OpId(e.op), seq |-> e.seq] : e \in log}

OpLogSpec == OL!Spec

\* No two entries share an id or a number, and no number is beyond the counter, whatever
\* was repeated, late or resent.
LogIdentity ==
    /\ \A e, f \in log : OpId(e.op) = OpId(f.op) \/ e.seq = f.seq => e = f
    /\ \A e \in log : e.seq \in 1..counter

\* An op is nowhere dropped in silence: it is in the log under its id, or its device still
\* holds it, in the outbox or in quarantine, or it was made so shortly before a tab ended
\* that IndexedDB did not get it.
NoOpVanishes ==
    \A o \in issued :
        \/ OpId(o) \in LogIds
        \/ o \in Range(outbox[o.dev]) \cup quarantine[o.dev]
        \/ o \in lost

\* The apply loop of a push never applies a mutation a second time, however often its batch
\* arrives.
AppliedOnce ==
    \A i \in DOMAIN srv.acks :
        i >= srv.next /\ srv.acks[i] = "accepted" => srv.batch[i].uid \notin applied

\* An op that a device is told was accepted is in the log and has been through the tables.
AcceptedIsApplied ==
    \A d \in Device : \A i \in DOMAIN acks[d] :
        acks[d][i] = "accepted" =>
            /\ batch[d][i].uid \in applied
            /\ \E e \in log : e.op = batch[d][i]

\* The server rejects an op at most once: by the next push its id is in the log and the
\* answer is duplicate.  So the third rejection that quarantine waits for never comes.
RejectedAtMostOnce ==
    \A d \in Device : quarantine[d] = {} /\ \A l \in 1..MaxLamport : rejects[d][l] <= 1

\* A saved cursor has skipped nothing: the device has applied every entry up to it, also
\* when it was pulled page by page while others were pushing.
CursorSkipsNothing ==
    \A d \in Device : \A e \in log : e.seq <= cursor[d] => e.op.uid \in seen[d]

\* As long as a row is there, its rev never goes back, on a device that applies the whole
\* log again in every cycle as little as on the server.
RevNeverRegresses ==
    [][/\ \A n \in Note : Present(notes[n]) /\ Present(notes[n]') => notes[n]'.rev >= notes[n].rev
       /\ \A d \in Device, n \in Note :
            Present(store[d][n]) /\ Present(store[d][n]') => store[d][n]'.rev >= store[d][n].rev
      ]_vars

-----------------------------------------------------------------------------
\* Liveness, under LiveSpec, with a server the devices are compatible with.  Mutations are
\* bounded, so users stop making them; what follows must then come to hold for good.

\* Every mutation gets into the log, unless it ended with its tab before IndexedDB had it,
\* and the outbox drains, in memory and on disk: a failed, late or half-handled push is made
\* good by a later cycle, and an op that the server has is not sent for ever.
OutboxDrains ==
    <>[](/\ \A o \in issued : OpId(o) \in LogIds \/ o \in lost
         /\ \A d \in Device : outbox[d] = <<>> /\ disk[d] = {})

\* Every entry of the log reaches every device, whatever pull was interrupted on the way.
EveryEntryIsSeen == <>[](\A d \in Device : \A e \in log : e.op.uid \in seen[d])
=============================================================================
