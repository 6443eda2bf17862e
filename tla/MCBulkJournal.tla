---------------------------- MODULE MCBulkJournal ----------------------------
(***************************************************************************)
(* BulkJournal for TLC: two notes, and operations of every kind on them    *)
(* and on what a split makes of them.                                      *)
(***************************************************************************)
EXTENDS BulkJournal

MCSeeded == <<[title |-> <<"x">>, body |-> <<"x", Heading, "y", Heading>>, tags |-> {"a"}],
              [title |-> <<"y">>, body |-> <<"y">>, tags |-> {"a", "b"}]>>

MCBulkOps ==
    {[type |-> "replace", find |-> "x", replace |-> "y", scope |-> "both"],
     [type |-> "tag", action |-> "rename", tag |-> "a", newTag |-> "b"],
     [type |-> "tag", action |-> "remove", tag |-> "b"],
     [type |-> "merge", target |-> 1, sources |-> <<2>>],
     [type |-> "merge", target |-> 1, sources |-> <<2, 3>>],
     [type |-> "split", note |-> 1]}
==============================================================================
