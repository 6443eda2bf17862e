---------------------------- MODULE OfflineOutbox ----------------------------
(***************************************************************************)
(* The outbox in IndexedDB that the tabs of a browser share, and its two   *)
(* users: the REST drain (useReconnectSync) and the persistent half of the *)
(* sync engine's outbox (IdbOutbox).  apps/web/src/offline.                *)
(*                                                                         *)
(* Patches are what useOfflineNote leaves for one note, each with the      *)
(* revision the device knew; the note's row on the server is its revision  *)
(* and whether a delete put it in the trash, which nothing here takes it   *)
(* out of.  Engine operations are pushed as a whole and always accepted:   *)
(* SyncSystem models what the push does to other rows.  A drain takes its  *)
(* entries in the order of their random ids, which is any order.           *)
(***************************************************************************)
EXTENDS Naturals, FiniteSets

CONSTANTS
    Tab,       \* tabs of one browser
    Patch,     \* REST patches of the note
    EngineOp,  \* operations recorded by the sync engine
    MaxRev,    \* bound: revisions of the note
    MaxCloses  \* bound: tabs closed in a behaviour

ASSUME OutboxAssumption ==
    /\ Patch \cap EngineOp = {} /\ {MaxRev, MaxCloses} \subseteq Nat

OutboxEntry == Patch \cup EngineOp

VARIABLES
    opKind,   \* what each engine operation is to the REST route of its entry
    idb,      \* the status of each entry in IndexedDB
    writing,  \* the operations of each tab whose put has yet to land
    memory,   \* IdbOutbox.pending_ of each tab
    acked,    \* acknowledged operations whose entries are to be looked up
    doomed,   \* entries that were looked up and are to be deleted
    drain,    \* drainOutbox of each tab
    open,     \* the tabs that are open
    online,
    base,     \* the revision each patch carries: that of some copy of the note
    rev,      \* the note's revision on the server
    effects,  \* how often each patch took effect on the server
    done,     \* the deletes that a REST route answered with 200
    refused,  \* the patches and deletes the server answered with 409
    pushed,   \* the engine operations the server has
    closes

outboxVars == <<opKind, idb, writing, memory, acked, doomed, drain, open, online,
                base, rev, effects, done, refused, pushed, closes>>

-----------------------------------------------------------------------------
OpKind == {"delete", "ignored", "invalid"}

\* Deletes of the note; operations a route takes for a patch of nothing, as PATCH
\* /entities/:id does, which requires no key and ignores the one that is there.
Deletes == {o \in EngineOp : opKind[o] = "delete"}
Ignored == {o \in EngineOp : opKind[o] = "ignored"}

EntryStatus == {"none", "lost", "pending", "syncing", "failed", "deleted"}
InStore(e) == idb[e] \in {"pending", "syncing", "failed"}

Idle == [at |-> "idle", left |-> {}]
DrainState ==
    [at : {"idle", "marking", "stuck"}, left : SUBSET OutboxEntry]
    \cup [at : {"sending", "ok", "error"}, left : SUBSET OutboxEntry, entry : OutboxEntry]

\* Mutant: a status update recreates an entry that is gone.
UpdatedAlways(e, s) == [idb EXCEPT ![e] = s]

\* updateStatus: an entry that is gone is left alone.
Updated(e, s) == IF InStore(e) THEN [idb EXCEPT ![e] = s] ELSE idb

\* Mutant: the server does not compare revisions.
FreshAlways(p) == TRUE

\* The rev check of PATCH /notes/:id.
Fresh(p) == rev = base[p]

\* A delete has reached the note, by the REST route or in a push.
Trashed == done \cup (pushed \cap Deletes) # {}

\* DELETE /notes/:id reads no body: 200, or 409 when a story refers to the note.
DeleteAnswers == IF Trashed THEN {"ok"} ELSE {"ok", "conflict"}

\* Mutant: every route ignores the keys it does not know.
AnswersIgnoring(e) == IF e \in Deletes THEN DeleteAnswers
                      ELSE {IF e \in Patch /\ ~Fresh(e) THEN "conflict" ELSE "ok"}

\* What a REST route answers: an engine operation is no valid body.
Answers(e) ==
    CASE e \in Patch   -> {IF Fresh(e) THEN "ok" ELSE "conflict"}
      [] e \in Deletes -> DeleteAnswers
      [] e \in Ignored -> {"ok"}
      [] OTHER         -> {"error"}

\* Mutant: an answer that never came counts as synced.
OutcomeLoose(answer, arrived) == IF arrived /\ answer = "error" THEN "error" ELSE "ok"

\* 409 counts as synced; an error status or no answer do not.
Outcome(answer, arrived) == IF arrived /\ answer # "error" THEN "ok" ELSE "error"

noteState == <<rev, effects, done, refused>>
serverState == <<noteState, pushed>>
engineState == <<memory, acked, doomed>>

-----------------------------------------------------------------------------
OutboxInit ==
    /\ opKind \in [EngineOp -> OpKind]
    /\ idb = [e \in OutboxEntry |-> "none"] /\ writing = [t \in Tab |-> {}]
    /\ memory = [t \in Tab |-> {}] /\ acked = [t \in Tab |-> {}] /\ doomed = [t \in Tab |-> {}]
    /\ drain = [t \in Tab |-> Idle]
    /\ open = Tab /\ online = FALSE
    /\ base = [p \in Patch |-> 0] /\ rev = 0
    /\ effects = [p \in Patch |-> 0] /\ done = {} /\ refused = {} /\ pushed = {}
    /\ closes = 0

\* patchNote of useOfflineNote, which awaits its put; b is the revision of the
\* copy that the page shows.
PatchOffline(t, p, b) ==
    /\ t \in open /\ ~online /\ idb[p] = "none" /\ b <= rev
    /\ idb' = [idb EXCEPT ![p] = "pending"]
    /\ base' = [base EXCEPT ![p] = b]
    /\ UNCHANGED <<opKind, writing, engineState, drain, open, online, serverState, closes>>

\* IdbOutbox.enqueue: in memory at once, in IndexedDB some time later.
Record(t, o) ==
    /\ t \in open /\ idb[o] = "none" /\ \A u \in Tab : o \notin writing[u]
    /\ writing' = [writing EXCEPT ![t] = @ \cup {o}]
    /\ memory' = [memory EXCEPT ![t] = @ \cup {o}]
    /\ UNCHANGED <<opKind, idb, acked, doomed, drain, open, online, base, serverState, closes>>

PutLands(t, o) ==
    /\ o \in writing[t]
    /\ idb' = [idb EXCEPT ![o] = "pending"] /\ writing' = [writing EXCEPT ![t] = @ \ {o}]
    /\ UNCHANGED <<opKind, engineState, drain, open, online, base, serverState, closes>>

GoOffline ==
    /\ online /\ online' = FALSE
    /\ UNCHANGED <<opKind, idb, writing, engineState, drain, open, base, serverState, closes>>

GoOnline ==
    /\ ~online /\ online' = TRUE
    /\ UNCHANGED <<opKind, idb, writing, engineState, drain, open, base, serverState, closes>>

\* Another device saves the note.
OtherWriter ==
    /\ rev < MaxRev /\ rev' = rev + 1
    /\ UNCHANGED <<opKind, idb, writing, engineState, drain, open, online, base, effects,
                   done, refused, pushed, closes>>

\* The edge from offline to online, and later the messages of the service
\* worker, start a drain, one at a time in a tab.
DrainStart(t) ==
    LET found == {e \in OutboxEntry : idb[e] = "pending"}
    IN /\ t \in open /\ online /\ drain[t] = Idle /\ found # {}
       /\ drain' = [drain EXCEPT ![t] = [at |-> "marking", left |-> found]]
       /\ UNCHANGED <<opKind, idb, writing, engineState, open, online, base, serverState, closes>>

\* A status update throws: the draining flag stays set.
DrainBreaks(t) ==
    /\ drain[t].at = "marking"
    /\ drain' = [drain EXCEPT ![t] = [at |-> "stuck", left |-> {}]]
    /\ UNCHANGED <<opKind, idb, writing, engineState, open, online, base, serverState, closes>>

DrainMark(t, e) ==
    /\ drain[t].at = "marking" /\ e \in drain[t].left
    /\ idb' = Updated(e, "syncing")
    /\ drain' = [drain EXCEPT ![t] = [at |-> "sending", left |-> @.left \ {e}, entry |-> e]]
    /\ UNCHANGED <<opKind, writing, engineState, open, online, base, serverState, closes>>

\* What a request does to the note: the patch takes effect, or the note goes to
\* the trash, unless it is there.
Handled(e, answer) ==
    \/ /\ answer = "ok" /\ e \in Patch
       /\ rev' = rev + 1 /\ effects' = [effects EXCEPT ![e] = @ + 1]
       /\ UNCHANGED <<done, refused>>
    \/ /\ answer = "ok" /\ e \in Deletes
       /\ rev' = (IF Trashed THEN rev ELSE rev + 1) /\ done' = done \cup {e}
       /\ UNCHANGED <<effects, refused>>
    \/ answer = "conflict" /\ refused' = refused \cup {e} /\ UNCHANGED <<rev, effects, done>>
    \/ (answer = "error" \/ e \notin Patch \cup Deletes) /\ UNCHANGED noteState

\* The request reaches the server or not, and its answer the tab or not.
DrainSend(t, reached, arrived) ==
    LET e == drain[t].entry
    IN /\ drain[t].at = "sending"
       /\ (reached => online) /\ (arrived => reached)
       /\ \E answer \in Answers(e) :
             /\ drain' = [drain EXCEPT ![t].at = Outcome(answer, arrived)]
             /\ IF reached THEN Handled(e, answer) ELSE UNCHANGED noteState
       /\ UNCHANGED <<opKind, idb, writing, engineState, open, online, base, pushed, closes>>

DrainSettle(t) ==
    LET e == drain[t].entry
        left == drain[t].left
    IN /\ drain[t].at \in {"ok", "error"}
       /\ idb' = IF drain[t].at = "ok" THEN [idb EXCEPT ![e] = "deleted"] ELSE Updated(e, "failed")
       /\ drain' = [drain EXCEPT ![t] = IF left = {} THEN Idle
                                        ELSE [at |-> "marking", left |-> left]]
       /\ UNCHANGED <<opKind, writing, engineState, open, online, base, serverState, closes>>

\* The engine pushes what is in memory; with the answer it is acknowledged.
PushMemory(t, arrived) ==
    /\ t \in open /\ online /\ memory[t] # {}
    /\ pushed' = pushed \cup memory[t]
    /\ IF arrived THEN /\ acked' = [acked EXCEPT ![t] = @ \cup memory[t]]
                       /\ memory' = [memory EXCEPT ![t] = {}]
                  ELSE UNCHANGED <<acked, memory>>
    /\ UNCHANGED <<opKind, idb, writing, doomed, drain, open, online, base, noteState,
                   closes>>

\* _deleteAcknowledged lists the pending entries, then deletes one by one.
AckList(t) ==
    /\ acked[t] # {}
    /\ doomed' = [doomed EXCEPT ![t] = @ \cup {e \in acked[t] : idb[e] = "pending"}]
    /\ acked' = [acked EXCEPT ![t] = {}]
    /\ UNCHANGED <<opKind, idb, writing, memory, drain, open, online, base, serverState, closes>>

AckDelete(t, e) ==
    /\ e \in doomed[t]
    /\ doomed' = [doomed EXCEPT ![t] = @ \ {e}]
    /\ idb' = [idb EXCEPT ![e] = "deleted"]
    /\ UNCHANGED <<opKind, writing, memory, acked, drain, open, online, base, serverState, closes>>

\* A tab ends: its memory goes, and each of its puts in flight lands or not.
CloseTab(t) ==
    /\ t \in open /\ closes < MaxCloses
    /\ \E lost \in SUBSET writing[t] :
          idb' = [e \in OutboxEntry |-> IF e \in lost THEN "lost"
                                        ELSE IF e \in writing[t] THEN "pending" ELSE idb[e]]
    /\ writing' = [writing EXCEPT ![t] = {}]
    /\ open' = open \ {t} /\ closes' = closes + 1
    /\ memory' = [memory EXCEPT ![t] = {}] /\ drain' = [drain EXCEPT ![t] = Idle]
    /\ acked' = [acked EXCEPT ![t] = {}] /\ doomed' = [doomed EXCEPT ![t] = {}]
    /\ UNCHANGED <<opKind, online, base, serverState>>

\* A tab opens: hydrate lists what is pending.
OpenTab(t) ==
    /\ t \notin open /\ open' = open \cup {t}
    /\ memory' = [memory EXCEPT ![t] = {o \in EngineOp : idb[o] = "pending"}]
    /\ UNCHANGED <<opKind, idb, writing, acked, doomed, drain, online, base, serverState, closes>>

OutboxNext ==
    \/ \E t \in Tab :
        \/ \E p \in Patch, b \in 0 .. MaxRev + Cardinality(Patch) : PatchOffline(t, p, b)
        \/ \E o \in EngineOp : Record(t, o) \/ PutLands(t, o)
        \/ \E e \in OutboxEntry : DrainMark(t, e) \/ AckDelete(t, e)
        \/ DrainStart(t) \/ DrainBreaks(t) \/ DrainSettle(t)
        \/ \E reached, arrived \in BOOLEAN : DrainSend(t, reached, arrived)
        \/ \E arrived \in BOOLEAN : PushMemory(t, arrived)
        \/ AckList(t) \/ CloseTab(t) \/ OpenTab(t)
    \/ GoOffline \/ GoOnline \/ OtherWriter

OutboxSpec == OutboxInit /\ [][OutboxNext]_outboxVars

-----------------------------------------------------------------------------
\* Two tabs that drain the same outbox send a patch twice, and a lost answer
\* hides that it arrived; the revision it carries lets it take effect once.
PatchAppliesOnce ==
    /\ idb \in [OutboxEntry -> EntryStatus] /\ drain \in [Tab -> DrainState]
    /\ memory \in [Tab -> SUBSET EngineOp]
    /\ \A p \in Patch : effects[p] <= 1

\* A patch that reached IndexedDB leaves it only when the server has decided
\* about it, whichever tab removes it.
RemovedIsDecided ==
    [][\A p \in Patch : InStore(p) /\ idb'[p] = "deleted" =>
          effects[p] = 1 \/ p \in refused]_outboxVars

\* What one tab deleted, the drain of another does not bring back.
DeletedForGood == [][\A e \in OutboxEntry : idb[e] = "deleted" => idb'[e] = "deleted"]_outboxVars

\* The marker "distinguishes engine-owned ops from legacy REST outbox entries"
\* (syncAdapters.ts:81) for IdbOutbox alone: the drain sends them too.  Of the
\* operations that the engine has not pushed, the drains of all tabs delete none
\* but a delete of the note that its route carried out or refused with 409, and
\* one that a route took for a patch with nothing to patch.
DropsAreAnswered ==
    \A o \in EngineOp \ pushed : idb[o] = "deleted" => o \in Ignored \/ o \in done \cup refused
=============================================================================
