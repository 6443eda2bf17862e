----------------------------- MODULE MCRuntimes -----------------------------
(***************************************************************************)
(* Three components that run something for a user: the AI request queue,   *)
(* the workers of a plugin, the Forge.  They share no state, and a         *)
(* behaviour is about one of them.                                         *)
(***************************************************************************)
EXTENDS AiQueue, PluginSandbox, MCForgeVM

VARIABLE subject

\* The Forge starts with any of its stories and weaves, the others as they do.
RuntimesInit ==
    /\ subject \in {"ai", "plugin", "forge"}
    /\ AiInit /\ PluginInit /\ MCForgeInit
    /\ subject # "forge" =>
           weave = NoWeave /\ story = New("mill", CHOOSE s \in Seed : TRUE)

RuntimesNext ==
    /\ UNCHANGED subject
    /\ \/ subject = "ai" /\ AiNext /\ UNCHANGED <<pluginVars, mcForgeVars>>
       \/ subject = "plugin" /\ PluginNext /\ UNCHANGED <<aiVars, mcForgeVars>>
       \/ subject = "forge" /\ MCForgeNext /\ UNCHANGED <<aiVars, pluginVars>>

\* The fairness of a component that never moves asks for nothing.
RuntimesSpec ==
    /\ RuntimesInit
    /\ [][RuntimesNext]_<<subject, aiVars, pluginVars, mcForgeVars>>
    /\ AiFairness /\ PluginFairness
=============================================================================
