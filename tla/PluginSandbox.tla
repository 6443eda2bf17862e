---------------------------- MODULE PluginSandbox ----------------------------
(***************************************************************************)
(* One plugin of the server: its row, PluginRegistry and the PluginSandbox *)
(* objects made for it, each of which runs the plugin in worker threads    *)
(* and restarts a worker that crashes (apps/server/src/plugins).           *)
(*                                                                         *)
(* The calls into a worker, its capabilities and its events are left out;  *)
(* so is the length of the timers: armed restart timers fire in the order  *)
(* they were armed, because each delay is longer than the one before it.   *)
(***************************************************************************)
EXTENDS Naturals, FiniteSets

CONSTANTS
    Request,       \* the calls of enable and disable
    MaxRestarts,   \* MAX_RESTARTS
    MaxSandboxes,  \* bound: sandboxes made in a behaviour
    MaxWorkers     \* bound: workers spawned in a behaviour

ASSUME PluginAssumption == {MaxRestarts, MaxSandboxes, MaxWorkers} \subseteq Nat

Sandbox == 1 .. MaxSandboxes
Worker == 1 .. MaxWorkers

VARIABLES
    plugin,     \* enabled and status of the row
    registered, \* the sandbox in sandboxes, 0 when there is none
    sandbox,    \* the PluginSandbox objects made so far
    worker,     \* the worker threads spawned so far
    request     \* what each call of enable or disable is waiting for

pluginVars == <<plugin, registered, sandbox, worker, request>>

-----------------------------------------------------------------------------
SandboxRow == [worker : {0} \cup Worker, restarts : 0 .. MaxRestarts, stopped : BOOLEAN,
               timers : 0 .. MaxRestarts, cancellable : BOOLEAN]
WorkerRow == [of : Sandbox, state : {"loading", "ready", "failed", "terminating", "gone", "quit"},
              readyTimer : BOOLEAN, asked : BOOLEAN]
RequestState ==
    {[at |-> "idle"]} \cup [at : {"stopping"}, enable : BOOLEAN, sandbox : Sandbox, worker : Worker]
    \cup [at : {"starting"}, sandbox : Sandbox] \cup [at : {"answered", "failed"}]

Gone == {"gone", "quit"}   \* "quit": it exited before it was ready or failed

Sandboxes == {s \in Sandbox : s <= Cardinality(DOMAIN sandbox)}
Spawned(s) == {w \in DOMAIN worker : worker[w].of = s}
NextSandbox == Cardinality(DOMAIN sandbox) + 1
NextWorker == Cardinality(DOMAIN worker) + 1
Extend(f, k, v) == [x \in DOMAIN f \cup {k} |-> IF x = k THEN v ELSE f[x]]

NewSandbox == [worker |-> NextWorker, restarts |-> 0, stopped |-> FALSE, timers |-> 0,
               cancellable |-> FALSE]

\* spawnWorker: the promise of a first worker is awaited (asked) by start.
Spawn(s, asked) == Extend(worker, NextWorker, [of |-> s, state |-> "loading",
                                               readyTimer |-> TRUE, asked |-> asked])

\* Mutant: a restart is not counted.
RestartedUncounted(b) ==
    IF b.stopped THEN b
    ELSE IF b.restarts >= MaxRestarts THEN [b EXCEPT !.stopped = TRUE]
    ELSE [b EXCEPT !.timers = IF @ = MaxRestarts THEN @ ELSE @ + 1, !.cancellable = TRUE]

\* scheduleRestart: past MaxRestarts the sandbox stops instead.
Restarted(b) ==
    IF b.stopped THEN b
    ELSE IF b.restarts >= MaxRestarts THEN [b EXCEPT !.stopped = TRUE]
    ELSE [b EXCEPT !.restarts = @ + 1, !.timers = @ + 1, !.cancellable = TRUE]

\* scheduleRestart and the quarantine of the row that goes with giving up.
ScheduleRestart(s) ==
    /\ sandbox' = [sandbox EXCEPT ![s] = Restarted(@)]
    /\ plugin' = IF ~sandbox[s].stopped /\ sandbox[s].restarts >= MaxRestarts
                 THEN [enabled |-> FALSE, status |-> "quarantined"] ELSE plugin

\* stop, up to the termination of the worker: only the newest timer is known.
Stopped(b) == [b EXCEPT !.stopped = TRUE, !.cancellable = FALSE,
                        !.timers = IF b.cancellable THEN @ - 1 ELSE @]

\* Mutant: only the ready signal settles start.
SettledReady(w, how) ==
    [r \in Request |->
        IF how = "answered" /\ request[r].at = "starting" /\ request[r].sandbox = worker[w].of
        THEN [at |-> how] ELSE request[r]]

\* The requests that await the start of w, which now end like this.
Settled(w, how) ==
    [r \in Request |->
        IF request[r].at = "starting" /\ request[r].sandbox = worker[w].of /\ worker[w].asked
        THEN [at |-> how] ELSE request[r]]

-----------------------------------------------------------------------------
PluginInit ==
    /\ plugin = [enabled |-> FALSE, status |-> "disabled"]
    /\ registered = 0 /\ sandbox = <<>> /\ worker = <<>>
    /\ request = [r \in Request |-> [at |-> "idle"]]

\* startPlugin, up to the promise of sandbox.start.
StartPlugin(r) ==
    /\ NextSandbox \in Sandbox /\ NextWorker \in Worker
    /\ sandbox' = Extend(sandbox, NextSandbox, NewSandbox)
    /\ request' = [request EXCEPT ![r] = [at |-> "starting", sandbox |-> NextSandbox]]

\* PluginRegistry.stop, up to the end of the worker it terminates.
StopRegistered(r, enable) ==
    LET s == registered
        w == sandbox[s].worker
    IN /\ sandbox' = [sandbox EXCEPT ![s] = Stopped(@)]
       /\ worker' = [worker EXCEPT ![w].state = IF @ \in Gone THEN @ ELSE "terminating"]
       /\ request' = [request EXCEPT ![r] = [at |-> "stopping", enable |-> enable,
                                             sandbox |-> s, worker |-> w]]

Enable(r) ==
    /\ request[r].at = "idle" /\ plugin.status # "quarantined"
    /\ plugin' = [enabled |-> TRUE, status |-> "active"]
    /\ IF registered # 0 THEN StopRegistered(r, TRUE)
                         ELSE StartPlugin(r) /\ worker' = Spawn(NextSandbox, TRUE)
    /\ UNCHANGED registered

Disable(r) ==
    /\ request[r].at = "idle"
    /\ plugin' = [enabled |-> FALSE, status |-> "disabled"]
    /\ IF registered # 0 THEN StopRegistered(r, FALSE)
       ELSE request' = [request EXCEPT ![r] = [at |-> "answered"]] /\ UNCHANGED <<sandbox, worker>>
    /\ UNCHANGED registered

\* Mutant: stop waits for the worker that the sandbox holds now.
StopEndsLate(r) ==
    /\ request[r].at = "stopping"
    /\ sandbox[request[r].sandbox].worker # 0
    /\ worker[sandbox[request[r].sandbox].worker].state \in Gone
    /\ registered' = 0
    /\ request' = [request EXCEPT ![r] = [at |-> "answered"]]
    /\ UNCHANGED <<plugin, sandbox, worker>>

\* The worker that stop terminated is gone, or was so before.  The sandbox then
\* forgets the worker it holds by now, the registry the sandbox it holds by now,
\* and an enable goes on with a new sandbox.
StopEnds(r) ==
    /\ request[r].at = "stopping" /\ worker[request[r].worker].state \in Gone
    /\ registered' = 0
    /\ LET cleared == [sandbox EXCEPT ![request[r].sandbox].worker = 0]
       IN IF request[r].enable
          THEN /\ NextSandbox \in Sandbox /\ NextWorker \in Worker
               /\ sandbox' = Extend(cleared, NextSandbox, NewSandbox)
               /\ worker' = Spawn(NextSandbox, TRUE)
               /\ request' = [request EXCEPT ![r] = [at |-> "starting", sandbox |-> NextSandbox]]
          ELSE /\ sandbox' = cleared
               /\ request' = [request EXCEPT ![r] = [at |-> "answered"]]
               /\ UNCHANGED worker
    /\ UNCHANGED plugin

\* A first worker that is ready puts its sandbox in the registry.
WorkerReady(w) ==
    /\ w \in DOMAIN worker /\ worker[w].state = "loading"
    /\ worker' = [worker EXCEPT ![w].state = "ready", ![w].readyTimer = FALSE]
    /\ registered' = IF worker[w].asked THEN worker[w].of ELSE registered
    /\ request' = Settled(w, "answered")
    /\ UNCHANGED <<plugin, sandbox>>

\* No ready signal in time: a plugin that cannot be loaded says nothing else.
ReadyTimeout(w) ==
    /\ w \in DOMAIN worker /\ worker[w].state = "loading" /\ worker[w].readyTimer
    /\ worker' = [worker EXCEPT ![w].state = "terminating", ![w].readyTimer = FALSE]
    /\ request' = Settled(w, "failed")
    /\ UNCHANGED <<plugin, registered, sandbox>>

\* The 'error' event of a worker; its 'exit' event follows.
WorkerFails(w) ==
    /\ w \in DOMAIN worker /\ worker[w].state \in {"loading", "ready"}
    /\ worker' = [worker EXCEPT ![w].state = "failed", ![w].readyTimer = FALSE]
    /\ ScheduleRestart(worker[w].of)
    /\ request' = Settled(w, "failed")
    /\ UNCHANGED registered

\* The 'exit' event: after an error, a termination, or process.exit.
WorkerExits(w) ==
    /\ w \in DOMAIN worker /\ worker[w].state \notin Gone
    /\ worker' = [worker EXCEPT ![w].state = IF @ = "loading" THEN "quit" ELSE "gone",
                                ![w].readyTimer = FALSE]
    /\ ScheduleRestart(worker[w].of)
    /\ UNCHANGED <<registered, request>>

\* The oldest armed restart timer fires, in a stopped sandbox too.
RestartTimer(s) ==
    /\ s \in Sandboxes /\ sandbox[s].timers > 0 /\ NextWorker \in Worker
    /\ worker' = Spawn(s, FALSE)
    /\ sandbox' = [sandbox EXCEPT ![s].worker = NextWorker, ![s].timers = @ - 1,
                                  ![s].cancellable = @ /\ sandbox[s].timers > 1]
    /\ UNCHANGED <<plugin, registered, request>>

PluginNext ==
    \/ \E r \in Request : Enable(r) \/ Disable(r) \/ StopEnds(r)
    \/ \E w \in Worker : WorkerReady(w) \/ ReadyTimeout(w) \/ WorkerFails(w) \/ WorkerExits(w)
    \/ \E s \in Sandbox : RestartTimer(s)

\* A failed or terminated worker exits, and timers fire.
PluginFairness ==
    /\ \A r \in Request : WF_pluginVars(StopEnds(r))
    /\ \A w \in Worker : /\ WF_pluginVars(ReadyTimeout(w))
                         /\ WF_pluginVars(/\ w \in DOMAIN worker
                                          /\ worker[w].state \in {"failed", "terminating"}
                                          /\ WorkerExits(w))

PluginSpec == PluginInit /\ [][PluginNext]_pluginVars /\ PluginFairness

-----------------------------------------------------------------------------
\* The restarts that are counted cover every worker a sandbox spawned and every
\* timer it armed, whatever errors, exits and stops come between: a plugin that
\* keeps crashing gets 1 + MaxRestarts workers and no more (sandbox.ts:325).
RestartBudget ==
    /\ plugin \in [enabled : BOOLEAN, status : {"disabled", "active", "quarantined"}]
    /\ registered \in {0} \cup Sandboxes
    /\ \A s \in Sandboxes :
        /\ sandbox[s] \in SandboxRow
        /\ Cardinality(Spawned(s)) + sandbox[s].timers <= 1 + sandbox[s].restarts
        /\ sandbox[s].cancellable => sandbox[s].timers > 0
    /\ \A w \in DOMAIN worker : worker[w] \in WorkerRow
    /\ \A r \in Request : request[r] \in RequestState

\* A disable that waits for a worker is answered, although the crash of that
\* worker may have put another one in its place.
DisableEnds ==
    \A r \in Request : request[r].at = "stopping" /\ ~request[r].enable ~> request[r].at = "answered"

\* An enable that waits for its worker is answered, by the ready signal, the
\* error or the timeout, unless the worker exited before any of the three: the
\* exit clears the timeout and settles nothing (sandbox.ts:128).
EnableEnds ==
    \A r \in Request :
        request[r].at = "starting" ~>
            \/ request[r].at # "starting"
            \/ \E w \in DOMAIN worker : /\ worker[w].of = request[r].sandbox
                                        /\ worker[w].asked /\ worker[w].state = "quit"
=============================================================================
