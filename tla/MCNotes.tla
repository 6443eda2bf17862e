------------------------------- MODULE MCNotes -------------------------------
(***************************************************************************)
(* Two ways in which users write notes on the server itself: live editing  *)
(* in a room, and the bulk operations.  They share no state, and a         *)
(* behaviour is about one of them.                                         *)
(***************************************************************************)
EXTENDS CollabRoom, MCBulkJournal

VARIABLE subject

NotesInit ==
    /\ subject \in {"room", "bulk"}
    /\ Init /\ BulkInit

NotesNext ==
    /\ UNCHANGED subject
    /\ \/ subject = "room" /\ Next /\ UNCHANGED bulkVars
       \/ subject = "bulk" /\ BulkNext /\ UNCHANGED vars

\* The fairness of a room that never moves asks for nothing.
NotesSpec ==
    /\ NotesInit
    /\ [][NotesNext]_<<subject, vars, bulkVars>>
    /\ Fairness
==============================================================================
