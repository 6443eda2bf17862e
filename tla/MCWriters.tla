------------------------------ MODULE MCWriters ------------------------------
(***************************************************************************)
(* Three ways in which edits made elsewhere become notes of the server:    *)
(* the sync engine, the outbox that the tabs of a browser share, an        *)
(* import.  They share no state here, and a behaviour is about one of      *)
(* them.                                                                   *)
(***************************************************************************)
EXTENDS SyncSystem, OfflineOutbox, ImportRunner, TLC

VARIABLE subject

\* Two documents of one title; the first links to one that is made later, the others
\* to one that was made before.
MCDocs == <<[id |-> "d1", title |-> <<"a", <<>>>>, link |-> "d3", asset |-> FALSE],
            [id |-> "d2", title |-> <<"a", <<>>>>, link |-> "d1", asset |-> TRUE],
            [id |-> "d3", title |-> <<"b", <<>>>>, link |-> "d2", asset |-> FALSE]>>
MCUserTitle == {<<"a", <<>>>>, <<"a", <<1>>>>}

\* The part that a behaviour is about starts in any of its states, the others in one.
WritersInit ==
    /\ subject \in {"sync", "outbox", "import"}
    /\ Init /\ OutboxInit /\ ImportInit
    /\ subject # "sync" => \A v \in ServerVersions : v <= serverVersion
    /\ subject # "outbox" => \A o \in EngineOp : opKind[o] = "delete"
    /\ subject # "import" => strategy = "skip"

WritersNext ==
    /\ UNCHANGED subject
    /\ \/ subject = "sync" /\ Next /\ UNCHANGED <<outboxVars, importVars>>
       \/ subject = "outbox" /\ OutboxNext /\ UNCHANGED <<vars, importVars>>
       \/ subject = "import" /\ ImportNext /\ UNCHANGED <<vars, outboxVars>>

WritersSpec ==
    /\ WritersInit
    /\ [][WritersNext]_<<subject, vars, outboxVars, importVars>>

\* The tabs of a browser are alike, and no liveness is checked.
TabSymmetry == Permutations(Tab)
==============================================================================
