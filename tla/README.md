# Verification of Fables

Fables is a local-first writing application: a Fastify and SQLite server (`apps/server`), a
React client with an IndexedDB copy of the data (`apps/web`), and packages they share, among
them the language and the virtual machine of its interactive stories. This directory holds TLA+
modules for the parts of it that are hardest to get right: the sync of notes between devices,
live co-editing, the offline outbox, the queues and workers of the server, imports, bulk
operations, and the machine that plays a story; the TLC configurations that check them on small
instances; and theorems that TLAPS checks for instances of any size.

## 1. Inventory

| Component | State | Operations | What is hard | What makes it correct |
|---|---|---|---|---|
| Sync operations (`packages/sync/src/{types,clock,apply}.ts`, `apps/server/src/services/sync-apply.ts`) | note rows: content, notebook, trashed, `rev` | create, update, delete (soft, hard), restore, on a device and on the server | last-writer-wins with one clock per row; the server and a device do not apply an op alike | a stale op never undoes a newer one; replicas agree |
| Sync engine (`packages/sync/src/engine.ts`, `apps/web/src/offline/syncAdapters.ts`) | Lamport clock, outbox, quarantine, rejection counts, cursor, rows, IndexedDB copies | enqueue, push in batches, take acks, pull in pages, apply, restart | awaits in the cycle, writes to IndexedDB that nothing waits for, tabs that end, retries | no op vanishes, none is logged or applied twice, the outbox drains |
| Sync server (`apps/server/src/routes/sync.ts`, `db/repos/sync.ts`, `services/sync-compact.ts`) | op log, `seq` counter, tables | ingest a batch, apply it to the tables, serve a page, compact | the tables are written after the transaction of the log; crashes; REST writes of the same rows | the log is append-only with unique ids and growing numbers; what is accepted is applied |
| Network and browser | messages on their way | lose, delay, repeat; end a tab; crash the server | all of it | |
| REST outbox drain (`apps/web/src/offline/{useReconnectSync,useOfflineNote,syncAdapters}.ts`) | IndexedDB outbox entries and their status | record, replay on reconnect, acknowledge, delete | two users of one store in several tabs; a tab that ends while an entry is `syncing`; status 409 | a patch takes effect at most once; nothing undecided is removed |
| Collaboration rooms (`apps/server/src/collab/service.ts`, `packages/sync/src/crdt.ts`, `apps/web/src/collab`) | rooms, peers, pending updates, timers, the stored row; the document and socket of each tab | join, handshake, update, flush, compact, idle out, shut down, crash | timers against reconnects, a flush that fails, edits typed during a handshake | what was integrated is stored or pending; tabs that are in sync agree |
| AI queue (`apps/server/src/ai/queue.ts`) | waiting and running tasks | enqueue, run, cancel, settle | cancel against completion | at most `concurrency` slots; each task settles once, and in the end |
| Plugin sandbox (`apps/server/src/plugins/{sandbox,registry}.ts`) | worker, restart count, timers, row | enable, disable, spawn, crash, restart, quarantine | `error` and `exit` of one worker, timers, requests that interleave | restarts are bounded; requests end |
| Import runner (`apps/server/src/import/framework/{runner,batches}.ts`) | batches, artifacts, notes | run, resume, roll back | a crash between two writes, links to what comes later | a document is one note however often its batch is resumed; a rollback takes its own |
| Forge virtual machine (`packages/forge-vm/src/{vm,saves,prng,state}.ts`) | frames, stack, globals, visit counts, decks, pending choices, transcript | continue (also async), step, choose, save, restore, migrate, replay, rewind | long sequences of calls; saves at any stop; errors in the middle of an expression | a save holds all that matters; a rewind reproduces; once-only choices and shuffles keep their promise |
| Forge lowering (`packages/forge-vm/src/{lower,validate}.ts`) | none | syntax tree to containers of instructions | the weave: where the body of a choice goes on | the lowered story plays as it was written |
| Notes service (`apps/server/src/services/notes.ts`) | notes with `rev` | CRUD with an expected `rev` | little: one synchronous transaction each | `rev` counts up |
| Vault (`apps/server/src/vault/service.ts`) | data key, wrapped key | setup, unlock, lock, change passphrase, wipe | awaits over key derivation, on keys the caller holds | the stored key unwraps to the data key |
| Webhooks (`apps/server/src/webhooks/delivery.ts`, `db/repos/webhooks.ts`) | deliveries and attempts | attempt, record, retry | late results | `ok` and `dead` are final |
| Bulk operations (`apps/server/src/bulk/engine.ts`, `db/repos/bulk.ts`) | notes, journal | plan, apply, undo | undo in any order, around edits and the trash; what the journal must remember; crashes around its rows | any batch is reversible |
| Embedding queue, speech synthesis queue, backup scheduler, story exports and formats | jobs, files, undo records | | sequential, or files and timers | left to their tests |
| Merge, Forge language (lexer, parser, checker), search, user interface | | | sequential or third-party code | left to their tests |

Calls: the page starts `engine.sync()` at most once at a time (`useSync.ts`); the engine
pushes and pulls over HTTP; the server handles one request at a time, since its handlers
contain no await between their first and last database call; the REST routes write the same
note rows as a push. The IndexedDB outbox is also read by the REST drain. A collaboration
room lives on the server between the sockets of its tabs and the row in `crdt_docs`. The
player and the server hold `Story` objects and save them at stops.

## 2. Modules

| Module | What it models |
|---|---|
| `SyncOps` | ops, rows, and what an op does to a row: `ClientApply` is `applyOp`, `ServerApply` is `applySyncOpToDb`, `ServerThrows` the foreign key of `notes.notebook_id` |
| `SyncServer` | the log, the counter, the tables. `ServerIngest` is the transaction of a push (`ingestOps`), `ServerApplyNext` one turn of the loop that follows it, `ServerReply` its answer, `ServerCrash` the end of the process in between; `PageAfter` and `NextCursor` are `GET /sync/pull`; `Compact` is `runCompactionJob`; `RestPatch`, `RestTrash`, `RestRestore` and `RestRemoveNotebook` are the REST writes of the rows |
| `SyncEngine` | a device: `Enqueue`, `Persist` (the IndexedDB writes behind it), `StartSync`, `RecvAcks`, `PushFails`, `RecvPage`, `ApplyNext`, `EndPage`, `PullFails`, `Restart` |
| `SyncSystem` | devices, server and network together, the specification, its fairness, and the properties |
| `OpLog` | the abstract log: ids are made, then logged once, under growing numbers, for good |
| `SyncClaims` | what the protocol document and comments say that the code does not do |
| `OfflineOutbox` | the store that the tabs of a browser share: `PatchOffline`, `Record` and `PutLands` fill it, `DrainStart`, `DrainMark`, `DrainSend`, `DrainSettle` are the awaits of `drainOutbox`, `PushMemory`, `AckList` and `AckDelete` those of the engine's acknowledgement, `CloseTab` and `OpenTab` a tab |
| `CollabRoom` | a note that is edited live: sockets that connect, carry messages and break, the handshake, rooms, timers, `doFlush` with compaction, shutdown, crash |
| `AiQueue` | `AiRequestQueue`: enqueue, `pump`, `settle`, cancel, the end of a runner |
| `PluginSandbox` | the row of a plugin, the registry, sandboxes and their worker threads, with each event of a worker and each timer an action |
| `ImportRunner` | one import batch: a document that is planned, created, recorded, linked; crash, resume, rollback, and notes of the user |
| `ForgeLower` | `lowerStory` and what it calls, as operators from a syntax tree to a program |
| `ForgeVM` | the machine, one operator per method, and a host whose actions call it |
| `ForgeWeave` | the reference: what a weave means when it is read item by item, with neither containers nor instructions |
| `BulkJournal` | `planBulk` with its kinds of operation, `apply` and `undo` with the journal and a crash after either transaction, and users who rewrite, trash, restore and purge notes |
| `MCSyncSystem`, `MCWriters`, `MCNotes`, `MCRuntimes`, `MCForgeVM`, `MCBulkJournal`, `MCCollabRoom` | the root modules of TLC's runs |
| `SyncSystem_proofs`, `SyncDelivery_proofs` | lemmas and theorems about the sync system: rows, the log, what is delivered |
| `CollabRoom_proofs`, `CollabPeers_proofs` | about a room: what it stores, and what travels between it and its tabs |
| `OfflineOutbox_proofs`, `ImportRunner_proofs` | about the outbox and about an import |
| `Services_proofs` | about the plugin sandbox, the AI queue and the bulk operations |
| `ForgeVM_proofs` | about the virtual machine and its host |

**Sync.** `phase[d]` is the await at which the cycle of device `d` stands; `batch`, `unsent`,
`acks`, `page`, `next` are the local variables of `sync()`. Between two awaits JavaScript runs
without interruption, so whatever the code does there is one action, with one exception:
`applyOps` is a loop whose turns are single steps (`ApplyNext`), because a tab may end
anywhere in it; `Enqueue` is disabled meanwhile. `late` holds push requests that are still on
their way when their device has given up on them. `disk` is the pending part of the IndexedDB
outbox that belongs to the engine. `issued`, `seen`, `lost`, `applied` are history variables:
nothing reads them but the properties, and `MayIssue`, which uses `issued` and `seen` for what
a user can do.

Content is a number per field: the mutation that wrote it. A device id is a number, ordered as
the strings are. Timestamps, reasons and health counters are display data. The order of a page
is recomputed from the set (`applyOps` sorts it), and the log is a set of numbered entries. The
backoff delay is computed by the engine and used by nobody. In the `catch` of `ingestOps` the
insert would fail on an unknown device, which cannot be: the same transaction registers the
only device whose ops the client sends. `encodeCursor` and `decodeCursor` are inverse on
numbers; `null` and the empty string become 0 (`NullCursor`, `INITIAL_CURSOR`), which `EndPage`
depends on. The cursor and the note rows are taken as saved together with their memory copies;
the lag that is modelled is that of the outbox. Schema versions do not change while a behaviour
runs.

**Outbox.** A patch carries the revision that some copy of the note had (`base`); the note is
its revision on the server and whether a delete has put it in the trash. Entries have random
ids, so a drain takes them in any order. `effects` counts how often a patch took effect, `done`
are the deletes that a REST route carried out, `refused` what was answered with 409, and
`pushed` the engine's operations on the server, whose own fate is `SyncSystem`'s. The drain
sends an engine operation to the REST route that its domain and type name, with a body that the
route does not expect; `opKind` says what the route makes of it (`Answers`). A delete of a note
goes to `DELETE /notes/:id`, which reads no body: it is carried out, or refused with 409 when a
story refers to the note. `PATCH /entities/:id` takes the body for a patch of nothing
(`Ignored`). Any other is an invalid body (`invalid`).

**Rooms.** A Yjs document is the set of structs it holds, a struct is an author and a clock, merging
is union. A struct needs the earlier ones of its author and those it was typed next to, whoever
typed them (`Edit` records that in `needs`, with what these need in their turn); `Integrated` are
the structs that have all they need, and Yjs keeps the others aside. A socket is a pair of FIFO
queues. When it breaks, its tab notices at once; the server reads a prefix of what was under way and
notices later, perhaps after the tab is back. Text and awareness are left out. Each seed of a
document has an author of its own, so a document that holds two of them holds the body twice
(`OneBody` says that it does not).

**Queue, plugin, import.** `runners` in `AiQueue` are the runs that have started and not ended;
a runner may ignore its abort signal. In `PluginSandbox`, `request` is the await at which each
call of enable or disable stands, and a worker is an object with its own timers and events;
the lengths of timers are left out except that restart timers fire in the order in which they
were armed. `cancelAll` cancels the waiting tasks in their order and then the running
ones; `CancelAll` folds over the two sets, since no step of it depends on that order. In
`ImportRunner` a title is a name and the numbers that renaming put after it; the documents
are a sequence, and a run goes through the places that are left in their order; no request of
a user comes between two documents of a run, because every adapter reads its assets
synchronously; a crash may come between two statements.

**Forge.** `Program` in `ForgeVM` is a constant, the compiled stories; `MCForgeVM` gives it
`LowerStory` of its syntax trees. Values are integers and a text is a token. `Step` is one
instruction, `Eval` an expression with its own frame, `Present` the offer of choices. Four fields of
a story are auxiliary: `replayable` (nothing but its history has determined it), `intact` (its last
bootstrap ended, and it was given no answer that was not its own), `stale` (the call it holds is of
before its last bootstrap) and `astray`. The host saves at stops only, as the player and the server
do. `awaiting` is the await of `continueAsync`, during which the host calls nothing else. A call
that the story was *stepped* onto is awaited by nobody: every operation is possible then, `continue`
refuses and forgets the call, `continueAsync` takes it up, and a restore keeps it, while a rewind
and an upgrade make a new story without it. In `ForgeLower` containers are named after places
instead of numbered, and the recursion of `lowerItems` over containers is a worklist of `Chunk`s:
one per container, lowered by a loop over its items up to the one where the flow leaves.

**Bulk operations.** A body is a sequence of words, one of which begins a section, so that a
split, a merge and a replacement all do something to it; the edit of a frontmatter field and of
a wikilink are planned as a replacement is. A note is live, in the trash or purged, and its id
is its place in the order of creation. `was` and `made` of a journal entry are auxiliary: the
notes before and after its operation.

**MC modules.** `MCWriters` is the union of the sync system, the outbox and the import, `MCNotes` of
the rooms and the bulk operations, `MCRuntimes` of the queue, the plugin and the Forge. The
components of a union share no state; `subject` picks the one a behaviour is about, so one
exploration checks them side by side. `MCCollabRoom` keeps to the behaviours of a room in which
nothing goes wrong: everybody connects once, leaves at rest and connects once more. `MCForgeVM` puts
the host of `ForgeVM` beside weaves: `weave` is a sequence of up to `Length` items and the choices
taken so far, lowered, played by the machine and read by `ForgeWeave`.

## 3. Runs

| Run | Checks | Result |
|---|---|---|
| `sync_faults` | `TypeOK`, `LogIdentity`, `NoOpVanishes`, `AppliedOnce`, `OpLogSpec` with one message lost, late or a crash, and one tab end | holds |
| `sync_live` | `OutboxDrains`, `EveryEntryIsSeen`, `CursorSkipsNothing` under `LiveSpec`, with a fault, pages of one op | holds |
| `writers` | sync: `AcceptedIsApplied`, `RejectedAtMostOnce`, `RevNeverRegresses` with all kinds of op, notebooks removed under ops that name them, a REST write, a server of version 1 or 3, pages of one op; outbox: `PatchAppliesOnce`, `DropsAreAnswered`, `RemovedIsDecided`, `DeletedForGood`; import: `OncePerDocument`, `LinksReachTheirTarget`, `RollbackTakesItsOwn` | holds |
| `notes` | rooms: `CollabTypeOK`, `Recoverable`, `SyncedPeersAgree`, `PeersKeepTheirRoom`, `ReadOnlyReachesNobody`, `StoredForGood`, `PendingIsKept`, `PendingIsStored`, `EmptyRoomEnds`; bulk operations: `UndoRestores` | holds |
| `runtimes` | AI queue: `SlotsAgree`, `SettledOnce`, `EveryTaskSettles`; plugin: `RestartBudget`, `DisableEnds`, `EnableEnds`; stories: `StopsAreClean`, `SavesAreComplete`, `RewindReproduces`, `OnceOnlyIsTakenOnce`, `ShuffleIsFair`; weaves: `PlaysAsWritten` | holds |
| `claim_duplicate` | `DuplicateIsLogged` | violated: an op id is used again after a restart |
| `claim_tables` | `TablesFollowLog` | violated: an op refused by the tables stays in the log |
| `claim_converge` | `SameLogSameRows` | violated: one clock per row |
| `claim_peers` | `OpenTabsConverge` | violated: two tabs and their room are at rest, nothing was lost, and one tab lacks a struct that the room has |
| `claim_seed` | `SeededOnce` | violated: a room that is created again is seeded again, and an old tab brings the first seed back |
| `claim_restore` | `RestoredOrUntouched` | violated: a restore that runs out of steps leaves a story half-restored |
| `claim_undo` | `DeletionsAreRecreated` | violated: the undo of a merge leaves the merged notes in the trash |

Runs end in states with nothing left to do, so deadlock is not checked.

**Bounds of the sync runs**, each a constant in a guard: two devices, because the properties
speak of pairs; one note, because ops on different notes never meet except in batches and
pages, which two ops of one note fill as well; `BatchSize` 2 so that a batch has an order, and
`PageSize` 1 where paging matters; `MaxOps` mutations, `MaxLamport` ticks of a clock,
`MaxFaults` lost messages and crashes, `MaxRestarts` tab ends, `MaxRest` REST writes. Two
mutations are enough for two devices to race, for an id to be used twice and for a retry to
meet a newer batch; one fault is enough for each property to be broken by the mutants listed
in `PROJECT.json`; `claim_converge` needs three mutations, two to race and one to know the
note. The compaction threshold is 1 and its lag 0, the smallest a job could have, which is
where it would do most harm.

**Bounds of `notes`**, rooms: two sessions, two edits, two connections (so a tab comes back
once, or two meet), a flush at two updates and a compaction at two (so both kinds of flush and
their order occur), one flush that the database refuses, one crash or shutdown. Bulk operations:
two notes, of which one has two sections; two operations out of a replacement, a renamed and a
removed tag, a split, and merges of one note and of one that only a split makes; one act of a
user besides and one crash. Two operations meet in every order of their undos, and one act of
a user is enough to purge what a merge has trashed.

`claim_peers`: one edit and four connections, two sessions before the room idles out and the
same two after it.

**Bounds of `writers`**, sync: as above, with faults and restarts left to the other two runs.
Outbox: two tabs, one patch, one engine operation of each kind, a revision of someone else, one
tab that closes; the tabs are alike and no liveness is checked, so one of two symmetric states is
explored. Import: three documents, two of them of one title, which link in a circle, so that
links lead to what is made earlier and later, one of them with an asset; two notes of the user,
which take their title and the one that a renaming tries first; two runs of the batch.

**Bounds of `runtimes`**: four tasks for two slots, so that two wait; two requests for a
plugin, two restarts, two sandboxes and four workers, so that a sandbox is quarantined and
another one replaces it. Forge: one story with a shuffle, a cycle, a sequence, a tunnel, once-only
and sticky choices, conditions and a fallback, in two versions; one whose choice awaits a
function and says what it answered; and one that fails or strays in every way a story can
(tunnels that overflow, an endless loop of fallbacks, an awaited function in a condition, a
choice whose text tunnels to choices). A generator of period 5 deals different
decks; 45 steps are more than any terminating turn takes and are spent by the endless ones;
two choices, because a save, a rewind or a second round of a shuffle concerns two turns. The
weaves are all sequences of up to three out of ten kinds of item (a line, gathers with and
without a label, a divert back, the end, a tunnel, a choice, a choice with a nested weave, a
choice that leaves in the middle of its text, a fallback) that the compiler accepts, played
with up to three choices; some end, some run out of content and some never stop, and the
reference says which.

**Fairness of the sync system** (`Fairness` in `SyncSystem`). A device's own steps and the
server's are weakly fair: `useSync` starts a cycle every 60 s while online, promises resolve,
IndexedDB writes complete. `Ingest` and `Serve` are strongly fair: the server handles the
requests that reach it in order, so the requests of another device, which make it busy again
and again, cannot keep one waiting for ever. Edits, REST writes, faults and restarts are under
no fairness; faults are bounded, that is, the network is good in the end. `sync_live` has no
restarts and a compatible server: with them an op may be lost, which `claim_duplicate` and
`NoOpVanishes` are about. The properties are of the form `<>[]`, since mutations are bounded.

**Fairness of the others.** Rooms: the two timers fire, nothing else is assumed.
`PendingIsStored` therefore excepts a refused flush, after which the code starts no timer
again. AI queue: runners end, which the code does not enforce (it has no timeout), so
`EveryTaskSettles` is about the queue and not about its runners. Plugin: a worker that failed
or is being terminated exits, a ready timer fires, a stop ends. `EnableEnds` excepts the worker
that exits before it is ready: it clears the ready timer and settles nothing, so that call of
enable waits for ever. No fairness is put on users, networks, crashes, or tabs.

**Remarks on sync.** `AcceptedIsApplied` and `TablesFollowLog` differ: a device that is told
`accepted` can rely on the tables, but a device that is told `rejected` or `duplicate` cannot
rely on anything, and a log entry need not have reached the tables. `RejectedAtMostOnce` shows
that quarantine after three rejections (PROTOCOL.md, "Corrupt Op Quarantine") cannot happen:
the first rejection leaves the op in the log, so the second push of it is a `duplicate`, and it
leaves the outbox. Observations that no run is needed for: on the server a created row starts
at `rev` 0, on a device at the op's clock, so the two accept different updates; an update of a
trashed note with a larger clock writes its fields and leaves it trashed, where PROTOCOL.md:125
says it is un-deleted; `runCompactionJob` takes the oldest `seq` for the newest (`HeadSeq`), so
its candidates are none, and the mutant `HeadSeqNewest` shows what the job as meant would do to
the log that devices still read: `OpLogSpec` fails.

**What is wired up.** Some of the code is complete, tested and called by nothing yet:
`SyncEngine.enqueue` and `useOfflineNote.patchNote` (no component of the page),
`startPluginService` and the AI queue (not by `app.ts`), `useCollab` (no page), `extractBody`
of the collaboration service. The models treat these operations as callable at any time
between awaits, which is their contract.

**Remarks on the others**, things the models showed or rest on:

- Outbox: `App.tsx` mounts both `useReconnectSync` and `useSync`. The second offline patch of
  a note carries the revision of the first and gets 409, which counts as synced, so it is
  dropped in silence. An engine operation that a drain takes is sent to a REST route. As a delete
  of a note it is carried out there, or refused with 409, and its entry deleted although the
  engine has not pushed it: `DropsAreAnswered` says that this, and an operation taken for an
  empty patch, is all that the drains delete. Any other becomes `syncing` or `failed` and stays in
  IndexedDB, but no later tab loads it (`syncAdapters.ts:81`), so it is never pushed; no property
  excludes that, since it happens. A patch that a closing tab leaves `syncing` is stranded alike.
  Restoring and purging the note between two drains are left out.
- Rooms: `broadcastToRoom` leaves out the peer whose message it was, but the update event of
  a merge may hold more than that message: structs that the room kept aside for want of the one
  it brings. That peer is not sent them (`claim_peers`). A tab holds a struct whose predecessors
  the room lacks after a crash or a refused last flush, and also with nothing lost: when it kept
  the first seed while the room was destroyed without a row and seeded again, what is typed next
  to the first seed waits in the room for a tab that brings it back. The room holds the body twice
  then (`claim_seed`). `SyncedPeersAgree` therefore promises the room's structs to a tab while
  the server has lost nothing and the room has one body, and the tab's to the room always. That
  these are the only exceptions is what its proof shows.
- Rooms: a refused flush keeps its updates but arms no timer; if the room then idles out, its
  last flush is all that stands between them and their loss (`PendingIsKept`).
- AI queue: after a runner that ignores its signal was cancelled, more than `concurrency`
  runners may be at work; the slots are what is bounded.
- Plugin: a disable lifts a quarantine; two concurrent enables may leave a sandbox that no row
  and no registry entry knows.
- Import: a resume merges again over what the user edited since; a rolled-back batch that is
  resumed imports nothing; a link to a document of an earlier run falls back to its label; a
  rollback is no transaction, and stops at a notebook that holds a note of the user.
- Bulk operations: an undo that meets a note of its operation in the trash (a section that the
  user has put away) throws and undoes nothing, however often it is tried; a merge none of whose
  sources is found still plans its target, so its undo takes later edits back; each undo of an
  operation on a purged note makes a new note of it; a split keeps nothing of what stands before
  the first heading, but in the journal. `invertPlan` in `engine.ts` promises the same return of
  what was removed and looks for it among the changed notes, where it never is; no route uses it.
- VM: a save between `choose` and the first instruction of the body that is then migrated
  would offer a once-only choice again, which is why it matters that hosts save at stops. An
  error inside an expression leaves the frame of the expression behind, and a save drops it. A
  rewind after a migration replays the old indices in the new story. The audit log is not saved.
  A version of a story without the body of a once-only choice forgets that it was visited, so the
  version after it offers the choice again (`OnceOnly` is therefore about every version of a title).
  A turn that was stepped may take more steps than its replay is allowed.
- VM: nothing keeps the text of a choice from a tunnel to a knot that presents choices of its
  own or ends (`lower.ts:472-473`). `evalContainer` goes on there whatever the status: the
  choices that are under way are offered again inside the expression, or the story ends in the
  middle of its offer, with frames left. The model marks such a story (`Strays`, `astray`) and
  follows it no further, and `StopsAreClean` says nothing of it. The word that the tunnel says is
  part of the text (`LinesSince`).
- VM: `loadState` and `bootstrap` leave `pendingAsync`. A story that was stepped onto an awaited
  function and then restored holds a call of before: the next `continue` throws, and
  `continueAsync` pushes its answer onto a stack that has no place for it, where it is still at
  the stops that follow. Such a story is no longer `intact`, which `StopsAreClean` asks for what
  is left on the stack. While the call is pending a save does not hold it, so `SavesAreComplete`
  is about stories without one.
- Lowering: `lowerItems` returns at a divert, so a labelled gather after one (`-> p`, then
  `- (p) ...`) is lowered only if something else leads into it; its container, made beforehand,
  stays empty and `assertValidIr` refuses the story, where the checker takes the gather for
  reachable and `ir.md` says that lowering guarantees terminators. A divert in the unbracketed
  text of a choice (`* Run -> END`) is lowered into the container of the presented text as well,
  where the machine throws at presentation.

## 4. Proofs

All theorems are about any values of the constants, under the `ASSUME`s of the modules.

| Module | Theorem | Statement |
|---|---|---|
| `SyncSystem_proofs` | `TypeCorrect` | `Spec => []TypeOK` |
| | `LogIdentityHolds` | `Spec => []LogIdentity` |
| | `NoOpVanishesHolds` | `Spec => []NoOpVanishes` |
| | `ImplementsOpLog` | `Spec => OpLogSpec`, the refinement of `OpLog` |
| | `RevNeverRegressesHolds` | `Spec => RevNeverRegresses` |
| `SyncDelivery_proofs` | `AppliedOnceHolds` | `Spec => []AppliedOnce` |
| | `AcceptedIsAppliedHolds` | `Spec => []AcceptedIsApplied` |
| | `RejectedAtMostOnceHolds` | `Spec => []RejectedAtMostOnce` |
| | `CursorSkipsNothingHolds` | `Spec => []CursorSkipsNothing` |
| `CollabRoom_proofs` | `PeersKeepTheirRoomHolds` | `Spec => []PeersKeepTheirRoom` |
| | `RecoverableHolds` | `Spec => []Recoverable` |
| | `StoredForGoodHolds` | `Spec => StoredForGood` |
| `CollabPeers_proofs` | `CollabTypeCorrect` | `Spec => []CollabTypeOK` |
| | `PendingIsKeptHolds` | `Spec => PendingIsKept` |
| | `ReadOnlyReachesNobodyHolds` | `Spec => []ReadOnlyReachesNobody` |
| | `SyncedPeersAgreeHolds` | `Spec => []SyncedPeersAgree` |
| `OfflineOutbox_proofs` | `PatchAppliesOnceHolds` | `OutboxSpec => []PatchAppliesOnce` |
| | `DropsAreAnsweredHolds` | `OutboxSpec => []DropsAreAnswered` |
| | `RemovedIsDecidedHolds` | `OutboxSpec => RemovedIsDecided` |
| | `DeletedForGoodHolds` | `OutboxSpec => DeletedForGood` |
| `ImportRunner_proofs` | `OncePerDocumentHolds` | `ImportSpec => []OncePerDocument` |
| | `RollbackTakesItsOwnHolds` | `ImportSpec => RollbackTakesItsOwn` |
| | `LinksReachTheirTargetHolds` | `ImportSpec => []LinksReachTheirTarget` |
| `Services_proofs` | `RestartBudgetHolds` | `PluginSpec => []RestartBudget` |
| | `SlotsAgreeHolds` | `AiSpec => []SlotsAgree` |
| | `SettledOnceHolds` | `AiSpec => SettledOnce` |
| | `UndoRestoresHolds` | `BulkSpec => UndoRestores` |
| `ForgeVM_proofs` | `ForgeInvariant` | `ForgeSpec => []ForgeInv`, the inductive invariant |
| | `StopsClean` | `ForgeSpec => []StopsAreClean`, which excepts stories that strayed |
| | `TakenAtMostOnce` | `ForgeSpec => []OnceOnlyIsTakenOnce` |
| | `SavedStoriesPlayOn` | `ForgeSpec => []SavesAreComplete` |
| | `RestoredInFull` | a `Restore` gives what was saved, unless the bootstrap of the live story throws |

**Sync, the log.** The inductive invariant has five parts. `TypeInv` is `TypeOK` with `Bounded`:
finiteness of the sets whose cardinalities number things, and `seq <= counter`, without which a
new number could be an old one. `OnlyIssued`: every op in a queue, a batch, a late request or
the log was issued, which the refinement needs for "an id is made before it is logged".
`LogKeys`: ids and numbers are keys. `AcksFit`: the acks a device has in hand are for its batch,
one for each op, and every op that was acknowledged has its id in the log. `NoOpVanishes` is
not inductive without `AcksFit`: an op leaves the outbox by the acks, so acks of another batch
would take the wrong op. `NoCandidates` proves that compaction, as written, deletes nothing:
nothing is older than the oldest entry. `RevNeverRegresses` rests on one lemma per side about
one op and one row (`ClientApplyRev`, `ServerApplyRev`).

**Sync, what is delivered.** Four invariants on top of those. `UidKeys`: the number of a mutation
is a key, although ids are not, since a clock starts again with its tab. `LoopInv` describes the
loop over the tables: the positions it has passed are applied, those ahead of it are not, all
of them are logged and none twice, so that a batch which arrives again meets its ops in the
log and not in the loop. `AppliedOnce` and, with `AcksInHand`, `AcceptedIsApplied` follow.
`RejectInv`: a rejected id is in the log, and an answer on its way that is no duplicate is
about an id that was never rejected, which is why the quarantine is never reached. `CursorInv`:
what lies between the saved cursor and the next one is in the page in hand, and both are
numbers that the counter has passed, so a later entry is beyond them. `CursorSkipsNothing`
is not inductive without the page: the cursor is saved after it was applied.

**Rooms, what is stored.** `RoomInv` is `RoomShape` (the types of the room, the peers and the row,
without the network), `GoneIsEmpty` (a room that is gone holds nothing and has no timers),
`RoomHoldsRow` (the document of a live room contains the stored one), `PeersKeepTheirRoom` and
`Recoverable`. A flush writes either the pending updates or, at the threshold of compaction, the
whole document; that the second loses nothing needs `RoomHoldsRow`, which every path that builds
a room has to keep. `FlushKeeps` is the lemma for both kinds. Nothing is assumed about what
arrives over a socket.

**Rooms, what travels.** `TypeInv` adds the network: `CollabTypeOK`, `Wiring` (what is on its way
to a tab is on the socket it holds), `Counted` (the clock of a session is the number of structs it
typed), `WaitingIsCounted` (a flush does not pass over what waits: `PendingIsKept`) and
`Provenance` (what a session typed is in its own document, wherever else it is).
`ReadOnlyReachesNobody` is an invariant with them once it is said of documents instead of
sessions (`ReadOnlyInv`). `SyncedPeersAgree` is about tabs with empty queues and says nothing of
how they came to be empty; `Pushed` and `Pulled` do: what one side holds the other has, or is
about to get, or will be asked for. `Pulled` is not inductive: a struct that arrives may let the
room integrate others that it kept aside, of which its sender was not told. Four invariants show
that this does not happen while the server has lost nothing and holds one body (`Whole`).
`NeedsInv`: an author has what its structs need, and needs are transitive. `SeedsInv`: the body is
in every room and row, and a second one that a tab brings is stored before it can be lost, so a
server that holds one body now held it all the time (`WholeBefore`). `HasGap`: a struct of
another tab that the server has not needs one that only its author can bring, or a seed that
is lost. `InOrder`: what is still on its way from an author was overtaken by nothing of that
author that needs it. So all that a message lets the room integrate is held by its sender
(`FreshIsHeld`). Looking for these invariants is what showed the two ways in which it does
happen.

**Outbox.** `OutboxInv` is `OutboxTypeOK`, `AppliedRaised` (a patch that took effect left the
revision beyond its base, so a second send of it is refused: why `PatchAppliesOnce` holds without
any guard against two drains), `InFlight` (a put that has yet to land is that of one tab),
`HeldWereStored`, `AckedArePushed`, `SyncedIsDecided` (what is about to be deleted was applied,
carried out, refused, ignored or pushed) and `DropsAreAnswered`. The two action properties follow
from it and from two facts about the steps: `Deletions` and `StaysDeleted`.

**Import.** `BatchInv` says of the run under way what a resume relies on: what it has left to do
is not on record, a title that it knows leads to a live note of that title, and the one note
that is made and not recorded is the last one, of the document at hand. Then each crash costs
at most one unrecorded note, which is `OncePerDocument` and bounds what a rollback leaves.
`LinkInv` is about the first run: a body that was written links to the title *planned* for its
target; with renaming no note but that of the target has that title; and once the target is done
and did not fail, a live note has it. It needs `PlanOK`, what `planTitles` has decided
after k documents, renamed titles being new and different from each other; `Plan` is a recursive
function, and `PlanExists` and `PlanIsOK` prove its existence and its result by taking the least
k for which they would fail. The assumption that the documents of a batch have ids of their own
is the contract of `StagedDoc.sourceId`; adapters of files take it from the path.

**Plugin sandbox.** `BudgetInv` counts the workers a sandbox spawned, with the timers it armed,
against its restarts. It needs `FirstWorkerInv`: a sandbox that a stop finds in the registry has a
worker to terminate, since the one that the start waits for is its only such worker and no stop
has forgotten it.

**AI queue.** `Consistent` says of a state of the queue that the counter, the slots, the waiting
list and the statuses tell one story; it holds in the middle of a call as well. `Pumped` adds
that no slot is free while a task waits, which a call restores with its last statement. `Follows`
is what may become of the tasks from one such state to a later one, and composes, so
`SettledOnce` of a `cancelAll` is that of its single cancellations: its two folds over sets are
followed with the least cardinality for which the result would not be consistent.

**Bulk operations.** `PlanOK` is what every kind of plan keeps: it changes and removes what was in
its scope, and each content it makes is one. `EntryOK` relates a row of the journal to the notes:
its snapshot has what the operation changed or removed with the content it had, the ids it made
follow those there were, and both stay below the notes there are. `UndoEffect` says what an undo
does from an entry that is so; `UndoRestores` follows, since no other step marks an entry as
reversed. `undo` makes again what is gone in the order of its snapshot, which the model leaves
open, as nothing depends on it.

**Forge.** `ForgeInv` says that the story of the host is a sound machine (`VmOK`) and that its slot
holds the save of one that had stopped. `VmOK` has three parts, and all three are needed at once.
`Sound`: the fields; every frame stands at an instruction of its container; the flow is at the
bottom, tunnels and expressions above it, and whatever stands above an expression is inside one;
a deck holds branches of its alternative, none twice; the choices on view are pending ones.
*Healthy or wounded*: a healthy machine is in no expression and has at most as many values on the
stack as its code has put there (`Height`), so it has none where the flow moves or stops; an
awaited function owes one (`Owed`), which `Resume` pays and a plain `continue` never gets. The
answer to a call of before a restore is owed to nobody; with it a story is no longer `intact`, and
then nothing is said of its stack. An error in an
expression leaves the frame of the expression behind and the instruction that asked for it
consumed. Such a machine breaks every rule about stacks. What saves `StopsAreClean` is that it
never stops again: errors with choices come from `present`, the last instruction of its container,
so the frame that presented stands behind its last instruction and has none left to move or stop
with, and what stands above it, expressions and their tunnels, can neither end the story nor
present (`Wounded`): every later step is there or throws. *Memory*: no once-only choice is in the
history twice; what was taken has been visited, or is the body at whose first instruction the flow
stands (`Entering`), which is a `visit`; and what is on view and once-only was not taken. A migration
comes between two stops and keeps this because hosts save at stops, where nothing is being
entered.

The lemmas go up along the calls. `Outcome` is what an instruction makes of a machine, `Aside` what
an expression does, seen from the frame below it, `Offered` and `Offers` what the choices become.
Each loop has an `...Unfolds` lemma (the recursive function exists and is what its equation says)
and is followed with `Upto`. Then `RunIs`, `ContinueIs`, `ChosenIs`, `NewIs`, `RestoredIs`,
`MigratedIs` and `RewoundIs` say that each call keeps `VmOK`. `SavesAreComplete` needs `SaveIs` (no
frame is left out of a save outside of expressions) and `LoadedIs` (a loaded machine is the saved
one but for its step count and the error of its last call); then `ContinueSame` and `ChosenSame`, that
these two do not matter to what comes next. `RestoredInFull` is the other side of the finding of
`claim_restore`: that way to a half-restored story is the only one.

The stories are assumed to be well formed (`ProgramAssumption`), since the machine checks nothing
again while it plays. `WellPlaced` is what `validateIr` tests (containers exist, `present`, being a
terminator, is where lowering puts it: at the end) and what `emitChoice` emits (a body begins with
its `visit`); `Balanced` is how expressions and statements are lowered; `OneAlternative` is the id
that every alternative gets. `OnlyEvaluates` is about the containers of expressions, which lowering
never gives a choice of their own; where a *tunnel* in the text of a choice leads is left open, and
a story that strays there is marked: an error, like others, for every invariant of the machine, but
the host does not go on with it. TLC evaluates `WellFormed` for the stories of the runs, and for
every weave that lowering makes and `validateIr` accepts (`LoweringAssumption` in `MCForgeVM`).
`InitializersAssumption` says that a new story can be made at all, and that the step budget is
enough to initialize it twice.

**Induction.** The provers cannot use the library's induction theorems, which take a predicate;
that every set of numbers has a least one (`LeastNumber`, from the well-foundedness of `<`) does
not, and stands for it where a proof follows a recursive function or a fold.

Only model-checked: `RewindReproduces`, `ShuffleIsFair` and `PlaysAsWritten` of the Forge, and all
liveness properties (`OutboxDrains`, `EveryEntryIsSeen`, `PendingIsStored`, `EmptyRoomEnds`,
`EveryTaskSettles`, `DisableEnds`, `EnableEnds`), which are out of the provers' reach, as is
`ENABLED`. `RewindReproduces` is not true of every program: `stepInstruction` gives a budget to each
instruction, so a story that was stepped may have done more than a replay of it is
allowed to; a proof would need the length of every turn as a hypothesis. `ShuffleIsFair` is
about the words of a transcript, which only a particular story ties to its deck; what the machine
contributes, that no deck holds a branch twice, is `DeckOK` of the invariant, and proved.
`PlaysAsWritten` is about trees: `ForgeLower` and `ForgeWeave` use `RECURSIVE` operators, and what
they compute for every tree is an induction over data. Every other property that a passing run
checks is a theorem.

## 5. What is not modelled, and the plan

Not modelled: entity and save-slot ops, the device registry, checksums, rehydrate (reads), the
snapshots of compaction (no pull sends them), three-way merge and conflict copies, what a Yjs
struct does to a text, awareness, the text side of the Forge (lexer, parser, checker, exports),
its strings, lists, effects and bindings, search, import formats, backups, speech, embeddings,
and the user interface. The vault is left out because its awaits are over key
derivation on keys that the one caller holds; the webhooks because their retry schedule is a
table and their one weak point (a late result that is recorded over a final one) a single
statement. `PROJECT.json` lists each component with its reason.

Next, in this order:

1. Entity and save-slot ops in `SyncOps`.
2. The deliveries of webhooks, with late results.
3. `RewindReproduces` as a theorem for stories whose turns fit into the step budget.
