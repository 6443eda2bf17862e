---------------------------- MODULE ImportRunner ----------------------------
(***************************************************************************)
(* The import runner: a batch of staged documents becomes notes, is        *)
(* resumed after a crash and rolled back                                   *)
(* (apps/server/src/import/framework: runner.ts, batches.ts).              *)
(*                                                                         *)
(* Every adapter reads its assets synchronously, so no request of a user   *)
(* comes between two documents; a crash may come between two statements.   *)
(* Left out: notebooks (the rules name the root one), attachment rows,     *)
(* tags and timestamps.  A title is a name and the numbers that renaming   *)
(* put after it.  Of a body, what matters is whose it is and the text of   *)
(* its link.                                                               *)
(***************************************************************************)
EXTENDS Naturals, Sequences, FiniteSets, SequencesExt

CONSTANTS
    Docs,       \* the staged documents: id, title, link to another, whether an
                \* asset has to be read
    UserTitle,  \* the titles of a user's own notes
    MaxNotes,   \* bound: notes of the user
    MaxRuns     \* bound: runs of the batch

User == "user"
Title == STRING \X Seq(Nat)

\* An adapter gives each document an id of its own (StagedDoc.sourceId).
ASSUME ImportAssumption ==
    /\ Docs \in Seq([id : STRING \ {User}, title : Title, link : STRING, asset : BOOLEAN])
    /\ \A k, j \in DOMAIN Docs : Docs[k].id = Docs[j].id => k = j
    /\ \A k \in DOMAIN Docs : \E j \in DOMAIN Docs : Docs[k].link = Docs[j].id
    /\ UserTitle \subseteq Title /\ {MaxNotes, MaxRuns} \subseteq Nat

VARIABLES
    strategy,  \* rules.collisions
    rows,      \* the notes ever made, in the order of their ids
    recorded,  \* the notes among the batch's artifacts
    batchStatus,  \* the status of the batch
    run,       \* the run under way: what is left to do, the titles it knows
    runs, crashes

importVars == <<strategy, rows, recorded, batchStatus, run, runs, crashes>>

-----------------------------------------------------------------------------
NoRun == [at |-> "idle"]
NoLink == <<"", <<>>>>
Reserved == 0

LiveNotes == {id \in DOMAIN rows : rows[id].live}

Put(f, x, v) == [y \in DOMAIN f \cup {x} |-> IF y = x THEN v ELSE f[y]]

\* buildTitlesIndex: the first note of each title.
TitlesIndex ==
    [t \in {rows[id].title : id \in LiveNotes} |->
        CHOOSE id \in LiveNotes : rows[id].title = t /\ \A j \in LiveNotes : rows[j].title = t => id <= j]

Numbered(title, n) == <<title[1], Append(title[2], n)>>

\* renamedTitle: the first number that is free.
Renamed(titles, title) ==
    Numbered(title, CHOOSE n \in 1 .. Cardinality(DOMAIN titles) + 1 :
        /\ Numbered(title, n) \notin DOMAIN titles
        /\ \A m \in 1 .. n - 1 : Numbered(title, m) \in DOMAIN titles)

FinalTitle(titles, title) ==
    IF title \in DOMAIN titles /\ strategy = "rename" THEN Renamed(titles, title) ELSE title

\* Mutant: the titles given to a batch are not reserved.
PlannedWithoutReserving(plan, doc) ==
    [plan EXCEPT !.final = Put(@, doc.id, FinalTitle(plan.titles, doc.title))]

\* planTitles, one document.
Planned(plan, doc) ==
    LET title == FinalTitle(plan.titles, doc.title)
    IN [final |-> Put(plan.final, doc.id, title),
        titles |-> IF title \in DOMAIN plan.titles THEN plan.titles
                   ELSE Put(plan.titles, title, Reserved)]

\* materializedSourceIds
Materialized == {rows[id].doc : id \in recorded}

\* Mutant: a resumed run starts from the beginning.
PendingAll == DOMAIN Docs

\* The documents that the batch has not recorded, by their places.
Pending == {k \in DOMAIN Docs : Docs[k].id \notin Materialized}

\* planTitles
Plan ==
    LET after[k \in 0 .. Len(Docs)] ==
            IF k = 0 THEN [final |-> <<>>, titles |-> TitlesIndex]
            ELSE IF k \in Pending THEN Planned(after[k - 1], Docs[k]) ELSE after[k - 1]
    IN after[Len(Docs)]

Current == Min(run.left)
Document == Docs[Current]
LiveId(doc) == IF doc.title \in DOMAIN run.titles THEN run.titles[doc.title] ELSE Reserved

\* buildBody: a link to a document of this run; any other shows its label, the
\* title that the source gave it.
LinkText(doc) ==
    IF doc.link \in DOMAIN run.final THEN run.final[doc.link]
    ELSE Docs[CHOOSE j \in DOMAIN Docs : Docs[j].id = doc.link].title

-----------------------------------------------------------------------------
ImportInit ==
    /\ strategy \in {"skip", "merge", "rename"}
    /\ rows = <<>> /\ recorded = {} /\ batchStatus = "none" /\ run = NoRun
    /\ runs = 0 /\ crashes = 0

UserCreates(title) ==
    /\ run = NoRun /\ Cardinality({id \in DOMAIN rows : rows[id].doc = User}) < MaxNotes
    /\ rows' = Append(rows, [title |-> title, doc |-> User, live |-> TRUE,
                             body |-> User, link |-> NoLink])
    /\ UNCHANGED <<strategy, recorded, batchStatus, run, runs, crashes>>

UserTrashes(id) ==
    /\ run = NoRun /\ id \in LiveNotes
    /\ rows' = [rows EXCEPT ![id].live = FALSE]
    /\ UNCHANGED <<strategy, recorded, batchStatus, run, runs, crashes>>

\* runImport up to its loop, of a new batch or of the one there is.
StartRun ==
    /\ run = NoRun /\ runs < MaxRuns
    /\ runs' = runs + 1 /\ batchStatus' = "running"
    /\ run' = [at |-> "doc", left |-> Pending, final |-> Plan.final,
               titles |-> Plan.titles, failed |-> FALSE]
    /\ UNCHANGED <<strategy, rows, recorded, crashes>>

Skip ==
    /\ run.at = "doc" /\ run.left # {}
    /\ LiveId(Document) # Reserved /\ strategy = "skip"
    /\ run' = [run EXCEPT !.left = @ \ {Current}]
    /\ UNCHANGED <<strategy, rows, recorded, batchStatus, runs, crashes>>

Materializes == /\ run.at = "doc" /\ run.left # {}
                /\ LiveId(Document) # Reserved => strategy # "skip"

\* An asset cannot be read: the document is given up, the run goes on.
ReadFails ==
    /\ Materializes /\ Document.asset
    /\ run' = [run EXCEPT !.left = @ \ {Current}, !.failed = TRUE]
    /\ UNCHANGED <<strategy, rows, recorded, batchStatus, runs, crashes>>

\* Mutant: a note that was merged into is recorded as the batch's own.
RecordedWithMerged(id) == recorded \cup {id}

\* What a merge records.
RecordedBy(id) == recorded

Merge ==
    LET id == LiveId(Document)
    IN /\ Materializes /\ id # Reserved /\ strategy = "merge"
       /\ rows' = [rows EXCEPT ![id].body = Document.id, ![id].link = LinkText(Document)]
       /\ recorded' = RecordedBy(id)
       /\ run' = [run EXCEPT !.left = @ \ {Current}]
       /\ UNCHANGED <<strategy, batchStatus, runs, crashes>>

\* createNote, of which the run knows the id but the batch does not yet.
CreateNote ==
    LET title == run.final[Document.id]
    IN /\ Materializes /\ (LiveId(Document) # Reserved => strategy # "merge")
       /\ rows' = Append(rows, [title |-> title, doc |-> Document.id, live |-> TRUE,
                                body |-> Document.id, link |-> LinkText(Document)])
       /\ run' = [run EXCEPT !.at = "created", !.titles = Put(@, title, Len(rows) + 1)]
       /\ UNCHANGED <<strategy, recorded, batchStatus, runs, crashes>>

\* addArtifact
AddArtifact ==
    /\ run.at = "created"
    /\ recorded' = recorded \cup {Len(rows)}
    /\ run' = [run EXCEPT !.at = "doc", !.left = @ \ {Current}]
    /\ UNCHANGED <<strategy, rows, batchStatus, runs, crashes>>

EndRun ==
    /\ run.at = "doc" /\ run.left = {}
    /\ batchStatus' = IF run.failed THEN "failed" ELSE "done"
    /\ run' = NoRun
    /\ UNCHANGED <<strategy, rows, recorded, runs, crashes>>

CrashRun ==
    /\ run # NoRun /\ run' = NoRun /\ crashes' = crashes + 1
    /\ UNCHANGED <<strategy, rows, recorded, batchStatus, runs>>

\* rollbackImport: the artifacts stay on record.
Rollback ==
    /\ run = NoRun /\ batchStatus # "none" /\ batchStatus' = "rolled_back"
    /\ rows' = [id \in DOMAIN rows |-> IF id \in recorded THEN [rows[id] EXCEPT !.live = FALSE]
                                       ELSE rows[id]]
    /\ UNCHANGED <<strategy, recorded, run, runs, crashes>>

ImportNext ==
    \/ \E title \in UserTitle : UserCreates(title)
    \/ \E id \in DOMAIN rows : UserTrashes(id)
    \/ StartRun \/ Skip \/ ReadFails \/ Merge \/ CreateNote \/ AddArtifact \/ EndRun
    \/ CrashRun \/ Rollback

ImportSpec == ImportInit /\ [][ImportNext]_importVars

-----------------------------------------------------------------------------
\* A batch materializes a document once (F1405): resumed as often as it may be,
\* what it has recorded comes from as many documents; what it made and did not
\* record, a crash came in between.
OncePerDocument ==
    /\ recorded \subseteq DOMAIN rows /\ run.at \in {"idle", "doc", "created"}
    /\ \A i, j \in recorded : rows[i].doc = rows[j].doc => i = j
    /\ Cardinality({id \in DOMAIN rows \ recorded : rows[id].doc # User})
           <= crashes + IF run.at = "created" THEN 1 ELSE 0

\* "Decide every doc's final title up front so link placeholders can resolve"
\* (F1404): at the end of the only run of a batch in which nothing failed, the
\* link of every body that the batch wrote, merged or not, resolves to the note
\* made from the document it names, also when that was made later and renamed;
\* or, when its title was taken and is kept, to a note of its title.
LinksReachTheirTarget ==
    run # NoRun /\ run.at = "doc" /\ run.left = {} /\ ~run.failed /\ runs = 1 =>
        \A id \in DOMAIN rows, k, j \in DOMAIN Docs :
            rows[id].body = Docs[k].id /\ Docs[k].link = Docs[j].id =>
                /\ rows[id].link \in DOMAIN TitlesIndex
                /\ LET target == TitlesIndex[rows[id].link]
                   IN \/ rows[target].doc = Docs[j].id
                      \/ strategy # "rename" /\ rows[target].title = Docs[j].title

\* A rollback removes the notes of the batch and no other: every note of the
\* user stays, and of the batch at most one note for each crash.
RollbackTakesItsOwn ==
    [][Rollback =>
        /\ \A id \in LiveNotes : rows[id].doc = User => rows'[id].live
        /\ Cardinality({id \in DOMAIN rows' : rows'[id].live /\ rows'[id].doc # User}) <= crashes]_importVars
=============================================================================
