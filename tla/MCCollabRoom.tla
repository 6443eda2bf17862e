---------------------------- MODULE MCCollabRoom ----------------------------
(***************************************************************************)
(* Behaviours of a room in which nothing is lost: the process lives, the   *)
(* database answers, everybody may edit.  Each session connects once, all  *)
(* leave when they are at rest, and each connects once more.               *)
(***************************************************************************)
EXTENDS CollabRoom

AtRest == \A k \in Connection : up[k] = <<>> /\ down[k] = <<>>

OneReturn ==
    /\ \A k \in DOMAIN joined' : joined'[k].access = "edit"
    /\ \A c \in Client :
          socket[c] # 0 /\ socket'[c] = 0 => AtRest /\ Len(joined) = Cardinality(Client)
    /\ joined' # joined => Len(joined) # Cardinality(Client) \/ peers = {}

OneReturnSpec == Init /\ [][Next /\ OneReturn]_vars

\* docs/collaboration/concepts.md says of a reconnection: "No data loss; full
\* convergence".  When nothing is in flight, each open tab has what the room has.
OpenTabsConverge ==
    AtRest => \A c \in opened : Integrated(room.doc) \subseteq Integrated(doc[c])
=============================================================================
