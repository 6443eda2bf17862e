-------------------------------- MODULE OpLog --------------------------------
(***************************************************************************)
(* What the sync protocol promises of the op log, with no devices, network *)
(* or handlers in sight (PROTOCOL.md: "append-only, immutable", a strictly *)
(* monotonic seq): every op id is logged at most once, under a number      *)
(* larger than all that were given before, and is never taken out again.   *)
(***************************************************************************)
EXTENDS Naturals

VARIABLES
    made,      \* the op ids that devices have made
    entries    \* the log: a set of [id, seq]

Init == made = {} /\ entries = {}

\* A device makes an op.
Make == made \subseteq made' /\ entries' = entries

\* A batch of ops is logged.
Commit ==
    /\ made' = made
    /\ entries \subseteq entries'
    /\ \A e \in entries' \ entries :
         /\ e.id \in made
         /\ \A f \in entries : e.id # f.id /\ e.seq > f.seq
         /\ \A f \in entries' \ entries : e # f => e.id # f.id /\ e.seq # f.seq

Spec == Init /\ [][Make \/ Commit]_<<made, entries>>
=============================================================================
