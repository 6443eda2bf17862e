--------------------------- MODULE MCSyncSystem ---------------------------
(***************************************************************************)
(* SyncSystem for TLC.                                                     *)
(***************************************************************************)
EXTENDS SyncClaims
=============================================================================
