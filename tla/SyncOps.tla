------------------------------- MODULE SyncOps -------------------------------
(***************************************************************************)
(* The operations that the offline-first sync of Fables moves between      *)
(* devices and the server, and what one operation does to one note row: on *)
(* a device (packages/sync/src/apply.ts) and in the server's tables        *)
(* (apps/server/src/services/sync-apply.ts).  The two differ, and the      *)
(* difference is part of the model.                                        *)
(*                                                                         *)
(* Contents are abstracted to what the properties tell apart.  Each        *)
(* mutation a user makes has a number of its own, uid, which no code sees: *)
(* it stands for the payload, and tells apart two mutations that carry the *)
(* same op id.  A field of a row holds the uid of the mutation that wrote  *)
(* it (0 before any).  Timestamps are display data and are left out.       *)
(***************************************************************************)
EXTENDS Integers, FiniteSets, Sequences, Functions

CONSTANTS
    Device,      \* device ids; numbers, whose order is the string order of the code
    Note,        \* note ids
    Field,       \* the content fields of a note: title, body, pinned
    Notebook     \* notebook ids, positive numbers

\* Device ids are compared by compareLamport; notebook 0 is "no notebookId given".
ASSUME SyncOpsAssumption ==
    /\ Device \subseteq Nat
    /\ Notebook \subseteq Nat \ {0}

NoNotebook == 0

Kind == {"create", "update", "trash", "purge", "restore"}

NotebookOrNone == Notebook \cup {NoNotebook}

\* An op of the note domain.  delete is two kinds: trash is a delete with hard = false,
\* purge one with hard = true.  A create names a notebook.
Op == {o \in [dev : Device, lam : Nat, uid : Nat, kind : Kind, note : Note,
              fields : SUBSET Field, nb : NotebookOrNone] :
          o.kind = "create" => o.nb \in Notebook}

\* The idempotency key `${deviceId}_${lamport}`.
OpId(o) == <<o.dev, o.lam>>

\* A row of the notes table or of the note store: one that is there has a notebook.
Row == {r \in [state : {"absent", "live", "trashed"}, rev : Nat,
               val : [Field -> Nat], nb : NotebookOrNone] :
          r.state # "absent" => r.nb \in Notebook}

NoRow == [state |-> "absent", rev |-> 0, val |-> [f \in Field |-> 0], nb |-> NoNotebook]

Present(row) == row.state # "absent"

\* The (lamport, deviceId) order that applyOps sorts a page by.
Before(o, p) == o.lam < p.lam \/ (o.lam = p.lam /\ o.dev <= p.dev)

\* The place of i among the numbers of K in ascending order, and the number at a place.
Rank(K, i) == Cardinality({j \in K : j <= i})

Nth(K, k) == CHOOSE i \in K : Rank(K, i) = k

-----------------------------------------------------------------------------
\* The row an op with a notebook writes where there is none.
FreshRow(o, rev) ==
    [state |-> "live", rev |-> rev,
     val |-> [f \in Field |-> IF f \in o.fields THEN o.uid ELSE 0], nb |-> o.nb]

\* The row after an update: the fields the payload names, and the op's clock.
Overwrite(row, o) ==
    [row EXCEPT !.rev = o.lam,
                !.val = [f \in Field |-> IF f \in o.fields THEN o.uid ELSE @[f]],
                !.nb = IF o.nb = NoNotebook THEN @ ELSE o.nb]

\* Fault, to show what the properties catch: a create replaces whatever row there is.
ClientCreateOver(row, o) == FreshRow(o, o.lam)

\* applyNoteCreate: a row at least as new wins, an older one is replaced and revived.
ClientCreate(row, o) ==
    IF Present(row) /\ row.rev >= o.lam THEN row ELSE FreshRow(o, o.lam)

\* Fault: an update makes a row without knowing its notebook.
ClientUpdateBlind(row, o) ==
    IF Present(row)
    THEN IF o.lam <= row.rev THEN row ELSE Overwrite(row, o)
    ELSE FreshRow(o, o.lam)

\* applyNoteUpdate: one clock for the whole row.  The tombstone test of the code skips an
\* op with lamport <= rev, which the test after it skips for every row; trashedAt is kept.
ClientUpdate(row, o) ==
    IF Present(row)
    THEN IF o.lam <= row.rev THEN row ELSE Overwrite(row, o)
    ELSE IF o.nb = NoNotebook THEN row ELSE FreshRow(o, o.lam)

\* applyNoteDelete compares no clock, and leaves rev alone.
ClientDelete(row, o) ==
    IF ~Present(row) THEN row
    ELSE IF o.kind = "purge" THEN NoRow ELSE [row EXCEPT !.state = "trashed"]

ClientRestore(row, o) ==
    IF Present(row) THEN [row EXCEPT !.state = "live"] ELSE row

ClientApply(row, o) ==
    CASE o.kind = "create" -> ClientCreate(row, o)
      [] o.kind = "update" -> ClientUpdate(row, o)
      [] o.kind \in {"trash", "purge"} -> ClientDelete(row, o)
      [] o.kind = "restore" -> ClientRestore(row, o)

-----------------------------------------------------------------------------
\* applySyncOpToDb, the note domain.  A created row starts at rev 0, not at the op's clock.
ServerCreate(row, o) == IF Present(row) THEN row ELSE FreshRow(o, 0)

ServerUpdate(row, o) ==
    IF Present(row) /\ o.lam > row.rev THEN Overwrite(row, o) ELSE row

ServerApply(row, o) ==
    CASE o.kind = "create" -> ServerCreate(row, o)
      [] o.kind = "update" -> ServerUpdate(row, o)
      [] o.kind \in {"trash", "purge"} -> ClientDelete(row, o)
      [] o.kind = "restore" -> ClientRestore(row, o)

\* The foreign key notes.notebook_id fails: the statement writes a notebook id that the
\* server has no notebook for.
ServerThrows(row, o, notebooks) ==
    /\ ServerApply(row, o) # row
    /\ o.kind \in {"create", "update"}
    /\ o.nb \notin notebooks \cup {NoNotebook}
=============================================================================
