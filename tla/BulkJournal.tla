----------------------------- MODULE BulkJournal -----------------------------
(***************************************************************************)
(* Bulk operations over the notes and the journal that reverses them:      *)
(* planBulk (apps/server/src/bulk/engine.ts), apply and undo               *)
(* (apps/server/src/db/repos/bulk.ts).                                     *)
(*                                                                         *)
(* A body is a sequence of words, one of which begins a section.  What a   *)
(* find-and-replace does to a word stands for the edit of a frontmatter    *)
(* field and of a wikilink, which are planned in the same way.  Left out:  *)
(* notebooks, which no operation changes, and the preview, which writes    *)
(* nothing.                                                                *)
(***************************************************************************)
EXTENDS Naturals, Sequences, FiniteSets, SequencesExt

CONSTANTS
    Seeded,     \* the notes at first, a sequence of contents
    BulkOps,    \* the operations that users ask for
    MaxBatches, \* bound: operations applied
    MaxNoteOps, \* bound: what users do to notes one by one
    MaxKills    \* bound: crashes of the server

Heading == "heading"
Separator == "separator"

\* BulkNote: a title, a body and tags.  The two words that mean something here are
\* strings, which a prover does not know of a literal.
Word == STRING \cup {Heading, Separator}
Content == [title : Seq(Word), body : Seq(Word), tags : SUBSET STRING]

\* BulkOp
BulkOp ==
    [type : {"replace"}, find : Word, replace : Word, scope : {"title", "body", "both"}]
    \cup [type : {"tag"}, action : {"add", "remove"}, tag : STRING]
    \cup [type : {"tag"}, action : {"rename"}, tag : STRING, newTag : STRING]
    \cup [type : {"merge"}, target : Nat, sources : Seq(Nat)]
    \cup [type : {"split"}, note : Nat]

ASSUME BulkAssumption ==
    /\ Seeded \in Seq(Content) /\ BulkOps \subseteq BulkOp
    /\ {MaxBatches, MaxNoteOps, MaxKills} \subseteq Nat

VARIABLES
    notes,    \* the notes ever made, in the order of their ids, and where each is
    journal,  \* the rows of bulk_journal; was and made are for the properties
    noteOps, kills

bulkVars == <<notes, journal, noteOps, kills>>

-----------------------------------------------------------------------------
In(where) == {id \in DOMAIN notes : notes[id].where \in where}
Existing == In({"live", "trash"})

NewNote(content) == [content |-> content, where |-> "live"]

-----------------------------------------------------------------------------
\* applyReplaceInText, and the note it makes.
ReplaceIn(op, text) == [i \in DOMAIN text |-> IF text[i] = op.find THEN op.replace ELSE text[i]]

Replaced(op, note) ==
    [note EXCEPT !.title = IF op.scope = "body" THEN @ ELSE ReplaceIn(op, @),
                 !.body = IF op.scope = "title" THEN @ ELSE ReplaceIn(op, @)]

\* applyTagOp
Tagged(op, note) ==
    [note EXCEPT !.tags =
        CASE op.action = "add" -> @ \cup {op.tag}
          [] op.action = "remove" -> @ \ {op.tag}
          [] op.action = "rename" ->
                IF op.tag \in @ THEN (@ \ {op.tag}) \cup {op.newTag} ELSE @]

\* splitByHeading: what stands before the first heading is in no section.
SplitByHeading(text) ==
    LET heads == {i \in DOMAIN text : text[i] = Heading}
        last == Cardinality(heads)
        Nth(k) == CHOOSE i \in heads : Cardinality({h \in heads : h <= i}) = k
    IN [k \in 1 .. last |->
            SubSeq(text, Nth(k) + 1, IF k < last THEN Nth(k + 1) - 1 ELSE Len(text))]

Section(note, text) == [note EXCEPT !.title = <<Heading>>, !.body = text]

\* A plan: the contents that notes get, those of new notes, the ids to remove.
Nothing == [diffs |-> <<>>, added |-> <<>>, removed |-> <<>>]

\* Each note on its own: the plan names those that change.
PlanEach(scoped, after) ==
    [Nothing EXCEPT !.diffs = Restrict(after, {id \in DOMAIN scoped : after[id] # scoped[id]})]

\* A source that is not in the scope is skipped.
Joined(scoped, note, id) ==
    IF id \notin DOMAIN scoped THEN note
    ELSE [note EXCEPT !.body = @ \o <<Separator>> \o scoped[id].body,
                      !.tags = @ \cup scoped[id].tags]

Merged(scoped, target, sources) ==
    FoldLeft(LAMBDA note, id : Joined(scoped, note, id), scoped[target], sources)

PlanMerge(scoped, op) ==
    LET found == {i \in DOMAIN op.sources : op.sources[i] \in DOMAIN scoped}
    IN IF op.target \notin DOMAIN scoped THEN Nothing
       ELSE [Nothing EXCEPT
                !.diffs = [id \in {op.target} |-> Merged(scoped, id, op.sources)],
                !.removed = Restrict(op.sources, found)]

PlanSplit(scoped, op) ==
    LET note == scoped[op.note]
        sections == SplitByHeading(note.body)
    IN IF op.note \notin DOMAIN scoped \/ sections = <<>> THEN Nothing
       ELSE [Nothing EXCEPT
                !.diffs = [id \in {op.note} |-> Section(note, sections[1])],
                !.added = [k \in 1 .. Len(sections) - 1 |-> Section(note, sections[k + 1])]]

PlanBulk(scoped, op) ==
    CASE op.type = "replace" -> PlanEach(scoped, [id \in DOMAIN scoped |-> Replaced(op, scoped[id])])
      [] op.type = "tag" -> PlanEach(scoped, [id \in DOMAIN scoped |-> Tagged(op, scoped[id])])
      [] op.type = "merge" -> PlanMerge(scoped, op)
      [] op.type = "split" -> PlanSplit(scoped, op)

-----------------------------------------------------------------------------
\* Mutant: the snapshot misses what is removed.
SnapshotOfDiffs(scoped, plan) == [id \in DOMAIN plan.diffs |-> scoped[id]]

\* writeNote with setTags; a note in the trash stays there.
WriteNote(note, content) == [note EXCEPT !.content = content]

\* The before-snapshot of apply: what is changed and what is removed.
Snapshot(scoped, plan) ==
    [id \in DOMAIN plan.diffs \cup Range(plan.removed) |-> scoped[id]]

\* notes.trash of several ids, which throws at one that is in the trash by then.
Trashable(ids) == IsInjective(ids) /\ Range(ids) \subseteq In({"live"})

Trashed(rows, ids) ==
    [id \in DOMAIN rows |-> IF id \in ids THEN [rows[id] EXCEPT !.where = "trash"] ELSE rows[id]]

-----------------------------------------------------------------------------
BulkInit ==
    /\ notes = [id \in DOMAIN Seeded |-> NewNote(Seeded[id])]
    /\ journal = <<>> /\ noteOps = 0 /\ kills = 0

\* apply: one transaction, and the row of the journal after it.
Apply(op, scope, crash) ==
    LET scoped == [id \in scope |-> notes[id].content]
        plan == PlanBulk(scoped, op)
        created == Len(notes) + 1 .. Len(notes) + Len(plan.added)
        written == [id \in DOMAIN notes |->
                        IF id \in DOMAIN plan.diffs THEN WriteNote(notes[id], plan.diffs[id])
                        ELSE notes[id]]
        added == [k \in DOMAIN plan.added |-> NewNote(plan.added[k])]
        after == Trashed(written \o added, Range(plan.removed))
    IN /\ Len(journal) < MaxBatches
       /\ Trashable(plan.removed)
       /\ notes' = after
       /\ journal' = IF crash THEN journal
                     ELSE Append(journal, [before |-> Snapshot(scoped, plan), addedIds |-> created,
                                           removed |-> Range(plan.removed), reversed |-> FALSE,
                                           was |-> notes, made |-> after])
       /\ UNCHANGED noteOps

\* undo: one transaction, and the mark in the journal after it.  It throws, and
\* nothing is undone, when a note that the operation created is in the trash.  What
\* is gone is made again in some order.
Undo(j, crash) ==
    LET entry == journal[j]
        created == entry.addedIds \cap Existing
        written == [id \in DOMAIN notes |->
                        IF id \in DOMAIN entry.before \cap Existing
                        THEN WriteNote(notes[id], entry.before[id]) ELSE notes[id]]
        gone == DOMAIN entry.before \ Existing
    IN /\ ~entry.reversed
       /\ created \subseteq In({"live"})
       /\ \E recreated \in Bijection(1 .. Cardinality(gone), gone) :
             notes' = Trashed(written, created)
                         \o [k \in DOMAIN recreated |-> NewNote(entry.before[recreated[k]])]
       /\ journal' = IF crash THEN journal ELSE [journal EXCEPT ![j].reversed = TRUE]
       /\ UNCHANGED noteOps

\* The process ends between the transaction and the statement after it.
MayCrash(crash) ==
    /\ crash => kills < MaxKills
    /\ kills' = IF crash THEN kills + 1 ELSE kills

\* What users do besides: a note is rewritten, trashed, restored; the trash is
\* emptied (purgeTrashed).
UserOp ==
    /\ noteOps < MaxNoteOps
    /\ noteOps' = noteOps + 1
    /\ UNCHANGED <<journal, kills>>

Rewrite(id) ==
    /\ notes[id].where = "live"
    /\ notes' = [notes EXCEPT ![id].content.body = <<Heading>>]
    /\ UserOp

Move(id, from, to) ==
    /\ notes[id].where = from
    /\ notes' = [notes EXCEPT ![id].where = to]
    /\ UserOp

EmptyTrash ==
    /\ In({"trash"}) # {}
    /\ notes' = [id \in DOMAIN notes |->
                    IF notes[id].where = "trash" THEN [notes[id] EXCEPT !.where = "purged"]
                    ELSE notes[id]]
    /\ UserOp

BulkNext ==
    \/ \E op \in BulkOps, scope \in SUBSET Existing, crash \in BOOLEAN :
            Apply(op, scope, crash) /\ MayCrash(crash)
    \/ \E j \in DOMAIN journal, crash \in BOOLEAN : Undo(j, crash) /\ MayCrash(crash)
    \/ \E id \in DOMAIN notes :
            Rewrite(id) \/ Move(id, "live", "trash") \/ Move(id, "trash", "live")
    \/ EmptyTrash

BulkSpec == BulkInit /\ [][BulkNext]_bulkVars

-----------------------------------------------------------------------------
Reverses(j) == j \in DOMAIN journal /\ journal'[j].reversed /\ ~journal[j].reversed

\* What operation j changed or removed, and the content it had.
Changed(j) == {id \in DOMAIN journal[j].was : journal[j].made[id] # journal[j].was[id]}
Original(j, id) == journal[j].was[id].content

\* "Any batch is reversible" (F1958): an undo gives back the content of every
\* note that its operation changed or removed, under a new id when the trash was
\* emptied in between, puts away what the operation created, and touches no note
\* that it did not plan, whatever has been applied, undone and edited since.
UndoRestores ==
    [][\A j \in DOMAIN journal : Reverses(j) =>
        /\ \A id \in Changed(j) :
                IF id \in Existing THEN notes'[id].content = Original(j, id)
                ELSE \E new \in DOMAIN notes' \ DOMAIN notes :
                        notes'[new] = NewNote(Original(j, id))
        /\ \A id \in DOMAIN journal[j].made \ DOMAIN journal[j].was : notes'[id].where # "live"
        /\ \A id \in DOMAIN notes :
                id \notin DOMAIN journal[j].before \cup journal[j].addedIds =>
                notes'[id] = notes[id]]_bulkVars

\* "Undo replays the snapshot: deletions are recreated" (bulk.ts:8-9): after an
\* undo, every note that its operation removed is live again.
DeletionsAreRecreated ==
    [][\A j \in DOMAIN journal : Reverses(j) =>
        \A id \in journal[j].removed :
            \E n \in DOMAIN notes' : notes'[n] = NewNote(Original(j, id))]_bulkVars
=============================================================================
