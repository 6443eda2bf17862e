----------------------------- MODULE SyncClaims -----------------------------
(***************************************************************************)
(* What packages/sync/PROTOCOL.md and comments of the code say of sync     *)
(* that SyncSystem, as the code is, does not satisfy.  Each is the one     *)
(* property of a run whose counterexample shows the disagreement.          *)
(***************************************************************************)
EXTENDS SyncSystem

\* "No op is lost" (PROTOCOL.md), and an op id is "globally unique per device+clock"
\* (types.ts): an op that the server calls a duplicate is in the log, and not another op
\* that came to carry the same id.  The clock of a device is not kept over a restart.
DuplicateIsLogged ==
    \A d \in Device : \A i \in DOMAIN acks[d] :
        acks[d][i] = "duplicate" => \E e \in log : e.op = batch[d][i]

\* An op is written to the log and applied to the tables "in the same transaction": when
\* no push is being handled, the tables have all that the log has.
TablesFollowLog == ~srv.busy => \A e \in log : e.op.uid \in applied

\* "All replicas choose the same winner": two devices that have applied the whole log have
\* the same rows.
CaughtUp(d) == phase[d] = "idle" /\ \A e \in log : e.op.uid \in seen[d]

SameLogSameRows ==
    \A c, d \in Device : CaughtUp(c) /\ CaughtUp(d) => store[c] = store[d]
=============================================================================
