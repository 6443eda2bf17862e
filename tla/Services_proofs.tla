--------------------------- MODULE Services_proofs ---------------------------
(***************************************************************************)
(* What holds of three services of the server for any number of requests   *)
(* and of whatever they work on: the workers of a plugin, bulk operations  *)
(* and the AI request queue.  They share no state.                         *)
(***************************************************************************)
EXTENDS AiQueue, PluginSandbox, BulkJournal, FiniteSetTheorems, SequenceTheorems, TLAPS

\* A set of natural numbers has a least one: what stands for induction here.
LEMMA LeastNumber ==
    ASSUME NEW T, T \subseteq Nat, T # {}
    PROVE  \E n \in T : \A m \in T : n <= m
<1>1. \E R : IsWellFoundedOn(R, Nat) /\ \A n, m \in Nat : <<m, n>> \in R <=> m < n
  <2>1. \A n, m \in Nat : <<m, n>> \in OpToRel(<, Nat) <=> m < n
    BY DEF OpToRel
  <2>2. IsWellFoundedOn(OpToRel(<, Nat), Nat)
    BY NatLessThanWellFounded
  <2> WITNESS OpToRel(<, Nat)
  <2> QED BY <2>1, <2>2
<1>2. PICK R : IsWellFoundedOn(R, Nat) /\ \A n, m \in Nat : <<m, n>> \in R <=> m < n
  BY <1>1
<1>3. PICK n \in T : \A m \in T : ~ (<<m, n>> \in R)
  BY <1>2, WFMin
<1>4. \A m \in T : ~ (m < n)
  BY <1>2, <1>3
<1> QED BY <1>4

-----------------------------------------------------------------------------

(* The workers of a plugin.                                                *)

\* The first worker of a sandbox is not loading any more.
FirstLoaded(s) ==
    \A w \in DOMAIN worker : worker[w].of = s /\ worker[w].asked => worker[w].state # "loading"

PluginTypeInv ==
    /\ plugin \in [enabled : BOOLEAN, status : {"disabled", "active", "quarantined"}]
    /\ \E n \in 0 .. MaxSandboxes : DOMAIN sandbox = 1 .. n
    /\ \E n \in 0 .. MaxWorkers : DOMAIN worker = 1 .. n
    /\ registered \in {0} \cup DOMAIN sandbox
    /\ \A s \in DOMAIN sandbox : sandbox[s] \in SandboxRow
    /\ \A w \in DOMAIN worker : worker[w] \in WorkerRow /\ worker[w].of \in DOMAIN sandbox
    /\ request \in [Request -> RequestState]
    /\ \A r \in Request : request[r].at = "stopping" => request[r].sandbox \in DOMAIN sandbox

\* What a sandbox has spawned and armed, its restarts have paid for.
BudgetInv ==
    \A s \in DOMAIN sandbox :
        /\ Spawned(s) # {}
        /\ Cardinality(Spawned(s)) + sandbox[s].timers <= 1 + sandbox[s].restarts
        /\ sandbox[s].cancellable => sandbox[s].timers > 0

\* A sandbox that a stop may find in the registry has a worker to terminate: the one
\* start is waiting for is its only such worker, and no stop has forgotten it.
FirstWorkerInv ==
    /\ \A v, w \in DOMAIN worker :
           worker[v].asked /\ worker[w].asked /\ worker[v].of = worker[w].of => v = w
    /\ \A w \in DOMAIN worker :
           worker[w].asked /\ worker[w].state = "loading" => sandbox[worker[w].of].worker # 0
    /\ registered # 0 => sandbox[registered].worker # 0 /\ FirstLoaded(registered)
    /\ \A r \in Request : request[r].at = "stopping" => FirstLoaded(request[r].sandbox)

PluginInv == PluginTypeInv /\ BudgetInv /\ FirstWorkerInv

\* Sandboxes and workers are numbered from 1 in the order they are made.
LEMMA Numbers ==
    ASSUME PluginTypeInv
    PROVE  /\ Sandboxes = DOMAIN sandbox
           /\ NextSandbox \in Nat \ {0} /\ NextSandbox \notin DOMAIN sandbox
           /\ DOMAIN sandbox = 1 .. NextSandbox - 1
           /\ NextWorker \in Nat \ {0} /\ NextWorker \notin DOMAIN worker
           /\ DOMAIN worker = 1 .. NextWorker - 1 /\ IsFiniteSet(DOMAIN worker)
<1>0. MaxSandboxes \in Nat /\ MaxWorkers \in Nat /\ MaxRestarts \in Nat
  BY PluginAssumption
<1>1. PICK n \in 0 .. MaxSandboxes : DOMAIN sandbox = 1 .. n
  BY DEF PluginTypeInv
<1>2. PICK m \in 0 .. MaxWorkers : DOMAIN worker = 1 .. m
  BY DEF PluginTypeInv
<1>3. Cardinality(1 .. n) = n /\ Cardinality(1 .. m) = m /\ IsFiniteSet(1 .. m)
  BY <1>0, <1>1, <1>2, FS_Interval
<1>4. NextSandbox = n + 1 /\ NextWorker = m + 1
  BY <1>1, <1>2, <1>3 DEF NextSandbox, NextWorker
<1>5. Sandboxes = 1 .. n
  BY <1>0, <1>1, <1>3 DEF Sandboxes, Sandbox
<1> QED BY <1>0, <1>1, <1>2, <1>3, <1>4, <1>5

LEMMA SpawnedFinite ==
    ASSUME PluginTypeInv, NEW s
    PROVE  IsFiniteSet(Spawned(s)) /\ Cardinality(Spawned(s)) \in Nat
<1>1. Spawned(s) \subseteq DOMAIN worker
  BY DEF Spawned
<1> QED BY <1>1, Numbers, FS_Subset, FS_CardinalityType

\* A step that spawns no worker: no sandbox arms a timer without counting it, no worker
\* begins to load again.
SpawnsNone ==
    /\ DOMAIN sandbox' = DOMAIN sandbox /\ DOMAIN worker' = DOMAIN worker
    /\ \A s \in DOMAIN sandbox :
           /\ sandbox'[s] \in SandboxRow
           /\ sandbox'[s].timers + sandbox[s].restarts <= sandbox[s].timers + sandbox'[s].restarts
           /\ sandbox'[s].cancellable => sandbox'[s].timers > 0
           /\ \/ sandbox'[s].worker = sandbox[s].worker
              \/ FirstLoaded(s) /\ registered' = 0
    /\ \A w \in DOMAIN worker :
           /\ worker'[w] \in WorkerRow
           /\ worker'[w].of = worker[w].of /\ worker'[w].asked = worker[w].asked
           /\ worker'[w].state = "loading" => worker[w].state = "loading"

LEMMA SpawnsNoneOK ==
    ASSUME PluginInv, SpawnsNone,
           plugin' \in [enabled : BOOLEAN, status : {"disabled", "active", "quarantined"}],
           \/ registered' \in {0, registered}
           \/ \E w \in DOMAIN worker : /\ worker[w].asked /\ worker[w].state = "loading"
                                       /\ worker'[w].state # "loading" /\ registered' = worker[w].of,
           request' \in [Request -> RequestState],
           \A r \in Request : request'[r].at = "stopping" =>
               \/ request[r].at = "stopping" /\ request'[r].sandbox = request[r].sandbox
               \/ registered # 0 /\ request'[r].sandbox = registered
    PROVE  PluginInv'
<1>1. PluginTypeInv'
  BY DEF PluginInv, PluginTypeInv, SpawnsNone
<1>2. BudgetInv'
  <2> SUFFICES ASSUME NEW s \in DOMAIN sandbox
               PROVE  /\ Spawned(s)' # {}
                      /\ Cardinality(Spawned(s)') + sandbox'[s].timers <= 1 + sandbox'[s].restarts
                      /\ sandbox'[s].cancellable => sandbox'[s].timers > 0
    BY DEF BudgetInv, SpawnsNone
  <2>1. Spawned(s)' = Spawned(s)
    BY DEF Spawned, SpawnsNone
  <2>2. PICK c, t, u, p, q : /\ c = Cardinality(Spawned(s)) /\ t = sandbox[s].timers
                             /\ u = sandbox'[s].timers /\ p = sandbox[s].restarts
                             /\ q = sandbox'[s].restarts
    OBVIOUS
  <2>3. t \in Nat /\ u \in Nat /\ p \in Nat /\ q \in Nat
    BY <2>2, PluginAssumption DEF PluginInv, PluginTypeInv, SpawnsNone, SandboxRow
  <2>4. c \in Nat /\ Spawned(s) # {} /\ c + t <= 1 + p /\ u + p <= t + q
    BY <2>2, SpawnedFinite DEF PluginInv, BudgetInv, SpawnsNone
  <2>5. c + u <= 1 + q
    BY <2>3, <2>4
  <2> QED BY <2>1, <2>2, <2>4, <2>5 DEF SpawnsNone
<1>3. ASSUME NEW s, FirstLoaded(s) PROVE FirstLoaded(s)'
  BY <1>3 DEF FirstLoaded, SpawnsNone
<1>4. ASSUME NEW x, x = registered', x # 0
      PROVE  sandbox'[x].worker # 0 /\ FirstLoaded(x)'
  <2>1. CASE x = registered
    BY <1>3, <1>4, <2>1 DEF PluginInv, PluginTypeInv, FirstWorkerInv, SpawnsNone
  <2>2. ASSUME NEW w \in DOMAIN worker, worker[w].asked, worker[w].state = "loading",
               worker'[w].state # "loading", x = worker[w].of
        PROVE  sandbox'[x].worker # 0 /\ FirstLoaded(x)'
    <3>1. sandbox'[x].worker # 0
      BY <1>4, <2>2 DEF PluginInv, PluginTypeInv, FirstWorkerInv, SpawnsNone
    <3>2. ASSUME NEW v \in DOMAIN worker, worker'[v].of = x, worker'[v].asked
          PROVE  worker'[v].state # "loading"
      <4>1. v = w
        BY <2>2, <3>2 DEF PluginInv, FirstWorkerInv, SpawnsNone
      <4> QED BY <2>2, <4>1
    <3> QED BY <3>1, <3>2 DEF FirstLoaded, SpawnsNone
  <2> QED BY <1>4, <2>1, <2>2
<1>5. ASSUME NEW w \in DOMAIN worker, worker'[w].asked, worker'[w].state = "loading"
      PROVE  sandbox'[worker'[w].of].worker # 0
  <2>1. worker[w].asked /\ worker[w].state = "loading" /\ worker'[w].of = worker[w].of
        /\ worker[w].of \in DOMAIN sandbox /\ sandbox[worker[w].of].worker # 0
    BY <1>5 DEF PluginInv, PluginTypeInv, FirstWorkerInv, SpawnsNone
  <2>2. ~ FirstLoaded(worker[w].of)
    BY <2>1 DEF FirstLoaded
  <2> QED BY <2>1, <2>2 DEF SpawnsNone
<1>6. ASSUME NEW r \in Request, request'[r].at = "stopping", NEW x, x = request'[r].sandbox
      PROVE  FirstLoaded(x)'
  <2>1. FirstLoaded(x)
    BY <1>6 DEF PluginInv, FirstWorkerInv
  <2> QED BY <1>3, <2>1
<1>7. \A v, w \in DOMAIN worker' :
          worker'[v].asked /\ worker'[w].asked /\ worker'[v].of = worker'[w].of => v = w
  BY DEF PluginInv, FirstWorkerInv, SpawnsNone
<1>8. FirstWorkerInv'
  BY <1>4, <1>5, <1>6, <1>7 DEF FirstWorkerInv, FirstLoaded, SpawnsNone
<1> QED BY <1>1, <1>2, <1>8 DEF PluginInv

-----------------------------------------------------------------------------
(* The steps of a plugin that spawn no worker.                             *)

LEMMA StoppedRow ==
    ASSUME NEW b \in SandboxRow, b.cancellable => b.timers > 0
    PROVE  LET c == Stopped(b)
           IN /\ c \in SandboxRow /\ c.worker = b.worker /\ c.restarts = b.restarts
              /\ c.timers <= b.timers /\ c.cancellable = FALSE
<1>0. MaxRestarts \in Nat
  BY PluginAssumption
<1>1. PICK t : t = IF b.cancellable THEN b.timers - 1 ELSE b.timers
  OBVIOUS
<1>2. t \in 0 .. MaxRestarts /\ t <= b.timers
  BY <1>0, <1>1 DEF SandboxRow
<1>3. Stopped(b) = [b EXCEPT !.stopped = TRUE, !.cancellable = FALSE, !.timers = t]
  BY <1>1 DEF Stopped, SandboxRow
<1>4. PICK c : c = Stopped(b)
  OBVIOUS
<1>5. /\ c \in SandboxRow /\ c.worker = b.worker /\ c.restarts = b.restarts
      /\ c.timers = t /\ c.cancellable = FALSE
  BY <1>2, <1>3, <1>4 DEF SandboxRow
<1> QED BY <1>2, <1>4, <1>5

LEMMA RestartedRow ==
    ASSUME NEW b \in SandboxRow, b.cancellable => b.timers > 0, b.timers <= b.restarts
    PROVE  LET c == Restarted(b)
           IN /\ c \in SandboxRow /\ c.worker = b.worker
              /\ c.timers + b.restarts <= b.timers + c.restarts
              /\ c.cancellable => c.timers > 0
<1>0. MaxRestarts \in Nat
  BY PluginAssumption
<1>1. b.timers \in Nat /\ b.restarts \in Nat /\ b.restarts <= MaxRestarts
  BY <1>0 DEF SandboxRow
<1>2. CASE b.stopped
  BY <1>1, <1>2 DEF Restarted
<1>3. CASE ~ b.stopped /\ b.restarts >= MaxRestarts
  <2>1. PICK c : c = [b EXCEPT !.stopped = TRUE] /\ c = Restarted(b)
    BY <1>3 DEF Restarted
  <2>2. c \in SandboxRow /\ c.worker = b.worker /\ c.timers = b.timers
        /\ c.restarts = b.restarts /\ c.cancellable = b.cancellable
    BY <2>1 DEF SandboxRow
  <2>3. b.timers + b.restarts <= b.timers + b.restarts
    BY <1>1
  <2>4. c.timers + b.restarts <= b.timers + c.restarts
    BY <2>2, <2>3
  <2> QED BY <2>1, <2>2, <2>4
<1>4. CASE ~ b.stopped /\ ~ (b.restarts >= MaxRestarts)
  <2>1. PICK n, t : n = b.restarts + 1 /\ t = b.timers + 1
    OBVIOUS
  <2>2. n \in 0 .. MaxRestarts /\ t \in 0 .. MaxRestarts /\ t > 0 /\ t + b.restarts <= b.timers + n
    BY <1>0, <1>1, <1>4, <2>1
  <2>3. Restarted(b) = [b EXCEPT !.restarts = n, !.timers = t, !.cancellable = TRUE]
    BY <1>4, <2>1 DEF Restarted, SandboxRow
  <2>4. PICK c : c = Restarted(b)
    OBVIOUS
  <2>5. /\ c \in SandboxRow /\ c.worker = b.worker /\ c.restarts = n
        /\ c.timers = t /\ c.cancellable = TRUE
    BY <2>2, <2>3, <2>4 DEF SandboxRow
  <2> QED BY <2>2, <2>4, <2>5
<1> QED BY <1>2, <1>3, <1>4

\* The states of a request.
LEMMA RequestStates ==
    /\ \A e \in BOOLEAN, s \in Sandbox, w \in Worker :
           LET q == [at |-> "stopping", enable |-> e, sandbox |-> s, worker |-> w]
           IN q \in RequestState /\ q.at = "stopping" /\ q.sandbox = s
    /\ \A s \in Sandbox :
           LET q == [at |-> "starting", sandbox |-> s]
           IN q \in RequestState /\ q.at = "starting"
    /\ \A how \in {"answered", "failed"} : [at |-> how] \in RequestState
    /\ [at |-> "idle"] \in RequestState
BY DEF RequestState

LEMMA DomainsAreNumbers ==
    ASSUME PluginTypeInv
    PROVE  DOMAIN sandbox \subseteq Sandbox /\ DOMAIN worker \subseteq Worker
<1> MaxSandboxes \in Nat /\ MaxWorkers \in Nat
  BY PluginAssumption
<1> QED BY DEF PluginTypeInv, Sandbox, Worker

\* What the rows of a sandbox and of a worker are.
LEMMA Rows ==
    ASSUME PluginInv, NEW s \in DOMAIN sandbox
    PROVE  /\ sandbox[s] \in SandboxRow
           /\ sandbox[s].cancellable => sandbox[s].timers > 0
           /\ sandbox[s].timers <= sandbox[s].restarts
           /\ sandbox[s].timers \in Nat /\ sandbox[s].restarts \in Nat
<1>1. sandbox[s] \in SandboxRow /\ sandbox[s].timers \in Nat /\ sandbox[s].restarts \in Nat
  BY PluginAssumption DEF PluginInv, PluginTypeInv, SandboxRow
<1>2. Cardinality(Spawned(s)) \in Nat /\ Cardinality(Spawned(s)) # 0
  BY SpawnedFinite, FS_EmptySet DEF PluginInv, BudgetInv
<1>3. sandbox[s].timers <= sandbox[s].restarts
  <2>1. PICK c, t, q : c = Cardinality(Spawned(s)) /\ t = sandbox[s].timers /\ q = sandbox[s].restarts
    OBVIOUS
  <2>2. c \in Nat /\ c # 0 /\ t \in Nat /\ q \in Nat /\ c + t <= 1 + q
    BY <1>1, <1>2, <2>1 DEF PluginInv, BudgetInv
  <2>3. t <= q
    BY <2>2
  <2> QED BY <2>1, <2>3
<1> QED BY <1>1, <1>3 DEF PluginInv, BudgetInv

LEMMA SandboxesKept ==
    ASSUME PluginInv
    PROVE  \A s \in DOMAIN sandbox :
               /\ sandbox[s] \in SandboxRow
               /\ sandbox[s].timers + sandbox[s].restarts <= sandbox[s].timers + sandbox[s].restarts
               /\ sandbox[s].cancellable => sandbox[s].timers > 0
<1> SUFFICES ASSUME NEW s \in DOMAIN sandbox
             PROVE  sandbox[s].timers + sandbox[s].restarts <= sandbox[s].timers + sandbox[s].restarts
  BY Rows
<1>1. sandbox[s].timers \in Nat /\ sandbox[s].restarts \in Nat
  BY Rows
<1> QED BY <1>1

\* A step of a worker w to the state st, which says what becomes of the rest.
LEMMA WorkerRows ==
    ASSUME PluginInv, NEW w \in DOMAIN worker, NEW v,
           v.of = worker[w].of, v.asked = worker[w].asked, v \in WorkerRow,
           v.state = "loading" => worker[w].state = "loading",
           worker' = [worker EXCEPT ![w] = v]
    PROVE  /\ DOMAIN worker' = DOMAIN worker /\ worker'[w] = v
           /\ \A u \in DOMAIN worker :
                  /\ worker'[u] \in WorkerRow
                  /\ worker'[u].of = worker[u].of /\ worker'[u].asked = worker[u].asked
                  /\ worker'[u].state = "loading" => worker[u].state = "loading"
BY DEF PluginInv, PluginTypeInv

LEMMA SettledRequests ==
    ASSUME PluginInv, NEW w \in DOMAIN worker, NEW how \in {"answered", "failed"},
           request' = Settled(w, how)
    PROVE  /\ request' \in [Request -> RequestState]
           /\ \A r \in Request : request'[r].at = "stopping" =>
                  request[r].at = "stopping" /\ request'[r].sandbox = request[r].sandbox
<1>1. request \in [Request -> RequestState]
  BY DEF PluginInv, PluginTypeInv
<1>2. ASSUME NEW r \in Request
      PROVE  request'[r] = request[r] \/ request'[r] = [at |-> how]
  BY DEF Settled
<1>3. [at |-> how] \in RequestState /\ [at |-> how].at # "stopping"
  BY RequestStates
<1>4. request' \in [Request -> RequestState]
  BY <1>1, <1>2, <1>3 DEF Settled
<1> QED BY <1>2, <1>3, <1>4

LEMMA StepWorkerReady ==
    ASSUME PluginInv, NEW w \in Worker, WorkerReady(w)
    PROVE  PluginInv'
<1>1. w \in DOMAIN worker /\ worker[w].state = "loading" /\ plugin' = plugin /\ sandbox' = sandbox
      /\ worker' = [worker EXCEPT ![w].state = "ready", ![w].readyTimer = FALSE]
      /\ registered' = (IF worker[w].asked THEN worker[w].of ELSE registered)
      /\ request' = Settled(w, "answered")
  BY DEF WorkerReady
<1>2. PICK v : v = [[worker[w] EXCEPT !.state = "ready"] EXCEPT !.readyTimer = FALSE]
  OBVIOUS
<1>3. v \in WorkerRow /\ v.of = worker[w].of /\ v.asked = worker[w].asked /\ v.state = "ready"
  BY <1>1, <1>2 DEF PluginInv, PluginTypeInv, WorkerRow
<1>4. worker' = [worker EXCEPT ![w] = v]
  BY <1>1, <1>2
<1>5. SpawnsNone
  BY <1>1, <1>3, <1>4, WorkerRows, SandboxesKept DEF SpawnsNone
<1>6. worker'[w].state # "loading"
  BY <1>1, <1>3, <1>4
<1> QED BY <1>1, <1>5, <1>6, SettledRequests, SpawnsNoneOK DEF PluginInv, PluginTypeInv

LEMMA StepReadyTimeout ==
    ASSUME PluginInv, NEW w \in Worker, ReadyTimeout(w)
    PROVE  PluginInv'
<1>1. w \in DOMAIN worker /\ worker[w].state = "loading" /\ plugin' = plugin /\ sandbox' = sandbox
      /\ worker' = [worker EXCEPT ![w].state = "terminating", ![w].readyTimer = FALSE]
      /\ registered' = registered /\ request' = Settled(w, "failed")
  BY DEF ReadyTimeout
<1>2. PICK v : v = [[worker[w] EXCEPT !.state = "terminating"] EXCEPT !.readyTimer = FALSE]
  OBVIOUS
<1>3. v \in WorkerRow /\ v.of = worker[w].of /\ v.asked = worker[w].asked
      /\ v.state = "terminating"
  BY <1>1, <1>2 DEF PluginInv, PluginTypeInv, WorkerRow
<1>4. worker' = [worker EXCEPT ![w] = v]
  BY <1>1, <1>2
<1>5. SpawnsNone
  BY <1>1, <1>3, <1>4, WorkerRows, SandboxesKept DEF SpawnsNone
<1> QED BY <1>1, <1>5, SettledRequests, SpawnsNoneOK DEF PluginInv, PluginTypeInv

\* scheduleRestart leaves every other sandbox alone.
LEMMA RestartRows ==
    ASSUME PluginInv, NEW s \in DOMAIN sandbox, ScheduleRestart(s)
    PROVE  /\ DOMAIN sandbox' = DOMAIN sandbox
           /\ plugin' \in [enabled : BOOLEAN, status : {"disabled", "active", "quarantined"}]
           /\ \A x \in DOMAIN sandbox :
                  /\ sandbox'[x] \in SandboxRow /\ sandbox'[x].worker = sandbox[x].worker
                  /\ sandbox'[x].timers + sandbox[x].restarts
                         <= sandbox[x].timers + sandbox'[x].restarts
                  /\ sandbox'[x].cancellable => sandbox'[x].timers > 0
<1>1. sandbox' = [sandbox EXCEPT ![s] = Restarted(sandbox[s])]
  BY DEF ScheduleRestart
<1>2. plugin' \in [enabled : BOOLEAN, status : {"disabled", "active", "quarantined"}]
  BY DEF ScheduleRestart, PluginInv, PluginTypeInv
<1>3. ASSUME NEW x \in DOMAIN sandbox
      PROVE  /\ sandbox'[x] \in SandboxRow /\ sandbox'[x].worker = sandbox[x].worker
             /\ sandbox'[x].timers + sandbox[x].restarts
                    <= sandbox[x].timers + sandbox'[x].restarts
             /\ sandbox'[x].cancellable => sandbox'[x].timers > 0
  <2>1. CASE x = s
    BY <1>1, <2>1, Rows, RestartedRow
  <2>2. CASE x # s
    BY <1>1, <2>2, Rows
  <2> QED BY <2>1, <2>2
<1> QED BY <1>1, <1>2, <1>3

LEMMA StepWorkerFails ==
    ASSUME PluginInv, NEW w \in Worker, WorkerFails(w)
    PROVE  PluginInv'
<1>1. w \in DOMAIN worker /\ ScheduleRestart(worker[w].of) /\ registered' = registered
      /\ worker' = [worker EXCEPT ![w].state = "failed", ![w].readyTimer = FALSE]
      /\ request' = Settled(w, "failed")
  BY DEF WorkerFails
<1>2. PICK v : v = [[worker[w] EXCEPT !.state = "failed"] EXCEPT !.readyTimer = FALSE]
  OBVIOUS
<1>3. v \in WorkerRow /\ v.of = worker[w].of /\ v.asked = worker[w].asked /\ v.state = "failed"
      /\ worker[w].of \in DOMAIN sandbox
  BY <1>1, <1>2 DEF PluginInv, PluginTypeInv, WorkerRow
<1>4. worker' = [worker EXCEPT ![w] = v]
  BY <1>1, <1>2
<1>5. SpawnsNone
  BY <1>1, <1>3, <1>4, WorkerRows, RestartRows DEF SpawnsNone
<1> QED BY <1>1, <1>3, <1>5, RestartRows, SettledRequests, SpawnsNoneOK

LEMMA StepWorkerExits ==
    ASSUME PluginInv, NEW w \in Worker, WorkerExits(w)
    PROVE  PluginInv'
<1>1. PICK st : st = IF worker[w].state = "loading" THEN "quit" ELSE "gone"
  OBVIOUS
<1>2. w \in DOMAIN worker /\ ScheduleRestart(worker[w].of) /\ registered' = registered
      /\ worker' = [worker EXCEPT ![w].state = st, ![w].readyTimer = FALSE]
      /\ request' = request
  BY <1>1 DEF WorkerExits
<1>3. PICK v : v = [[worker[w] EXCEPT !.state = st] EXCEPT !.readyTimer = FALSE]
  OBVIOUS
<1>4. v \in WorkerRow /\ v.of = worker[w].of /\ v.asked = worker[w].asked /\ v.state # "loading"
      /\ worker[w].of \in DOMAIN sandbox
  BY <1>1, <1>2, <1>3 DEF PluginInv, PluginTypeInv, WorkerRow
<1>5. worker' = [worker EXCEPT ![w] = v]
  BY <1>2, <1>3
<1>6. SpawnsNone
  BY <1>2, <1>4, <1>5, WorkerRows, RestartRows DEF SpawnsNone
<1> QED BY <1>2, <1>4, <1>6, RestartRows, SpawnsNoneOK DEF PluginInv, PluginTypeInv


\* Of a stop: the registered sandbox has a worker, and its first one is not loading.
LEMMA StopRegisteredOK ==
    ASSUME PluginInv, registered # 0, NEW r \in Request, NEW enable \in BOOLEAN,
           StopRegistered(r, enable), registered' = registered,
           plugin' \in [enabled : BOOLEAN, status : {"disabled", "active", "quarantined"}]
    PROVE  PluginInv'
<1>1. PICK s, w : s = registered /\ w = sandbox[s].worker
  OBVIOUS
<1>2. s \in DOMAIN sandbox /\ s \in Sandbox /\ w # 0
  BY <1>1, DomainsAreNumbers DEF PluginInv, PluginTypeInv, FirstWorkerInv
<1>3. w \in Worker
  BY <1>1, <1>2, Rows DEF SandboxRow
<1>4. /\ sandbox' = [sandbox EXCEPT ![s] = Stopped(sandbox[s])]
      /\ worker' = [worker EXCEPT ![w].state = IF @ \in Gone THEN @ ELSE "terminating"]
      /\ request' = [request EXCEPT ![r] = [at |-> "stopping", enable |-> enable,
                                            sandbox |-> s, worker |-> w]]
  BY <1>1 DEF StopRegistered
<1>5. ASSUME NEW x \in DOMAIN sandbox
      PROVE  /\ sandbox'[x] \in SandboxRow /\ sandbox'[x].worker = sandbox[x].worker
             /\ sandbox'[x].timers + sandbox[x].restarts
                    <= sandbox[x].timers + sandbox'[x].restarts
             /\ sandbox'[x].cancellable => sandbox'[x].timers > 0
  <2>1. CASE x = s
    <3>1. PICK c : c = Stopped(sandbox[s]) /\ sandbox'[x] = c
      BY <1>4, <2>1
    <3>2. /\ c \in SandboxRow /\ c.worker = sandbox[s].worker
          /\ c.restarts = sandbox[s].restarts /\ c.timers <= sandbox[s].timers
          /\ c.cancellable = FALSE
      <4>1. sandbox[s] \in SandboxRow /\ (sandbox[s].cancellable => sandbox[s].timers > 0)
        BY <1>2, Rows
      <4> QED BY <3>1, <4>1, StoppedRow
    <3>3. PICK t, u, n : t = c.timers /\ u = sandbox[s].timers /\ n = sandbox[s].restarts
      OBVIOUS
    <3>4. t \in Nat /\ u \in Nat /\ n \in Nat
      BY <1>2, <3>2, <3>3, Rows, PluginAssumption DEF SandboxRow
    <3>5. t + n <= u + n
      BY <3>2, <3>3, <3>4
    <3> QED BY <2>1, <3>1, <3>2, <3>3, <3>5
  <2>2. CASE x # s
    BY <1>4, <2>2, SandboxesKept
  <2> QED BY <2>1, <2>2
<1>6. DOMAIN sandbox' = DOMAIN sandbox /\ DOMAIN worker' = DOMAIN worker
  BY <1>4
<1>7. ASSUME NEW u \in DOMAIN worker
      PROVE  /\ worker'[u] \in WorkerRow
             /\ worker'[u].of = worker[u].of /\ worker'[u].asked = worker[u].asked
             /\ worker'[u].state = "loading" => worker[u].state = "loading"
  <2>1. worker[u] \in WorkerRow
    BY DEF PluginInv, PluginTypeInv
  <2>2. \/ worker'[u] = worker[u]
        \/ worker'[u] = [worker[u] EXCEPT !.state = IF @ \in Gone THEN @ ELSE "terminating"]
    BY <1>4
  <2> QED BY <2>1, <2>2 DEF WorkerRow, Gone
<1>8. SpawnsNone
  BY <1>5, <1>6, <1>7 DEF SpawnsNone
<1>9. PICK q : q = [at |-> "stopping", enable |-> enable, sandbox |-> s, worker |-> w]
  OBVIOUS
<1>10. q \in RequestState /\ q.sandbox = s
  BY <1>2, <1>3, <1>9, RequestStates
<1>11. request' = [request EXCEPT ![r] = q] /\ request \in [Request -> RequestState]
  BY <1>4, <1>9 DEF PluginInv, PluginTypeInv
<1>12. /\ request' \in [Request -> RequestState]
       /\ \A x \in Request : request'[x].at = "stopping" =>
              \/ request[x].at = "stopping" /\ request'[x].sandbox = request[x].sandbox
              \/ registered # 0 /\ request'[x].sandbox = registered
  BY <1>1, <1>10, <1>11
<1> QED BY <1>8, <1>12, SpawnsNoneOK

-----------------------------------------------------------------------------
(* The steps of a plugin that spawn a worker.                              *)

\* The new worker is the next one, and its sandbox has one more.
LEMMA SpawnedOneMore ==
    ASSUME PluginInv, NextWorker \in Worker, NEW s \in Sandbox, NEW asked \in BOOLEAN,
           worker' = Spawn(s, asked)
    PROVE  /\ DOMAIN worker' = DOMAIN worker \cup {NextWorker}
           /\ \E n \in 0 .. MaxWorkers : DOMAIN worker' = 1 .. n
           /\ \A w \in DOMAIN worker : worker'[w] = worker[w]
           /\ worker'[NextWorker] \in WorkerRow /\ worker'[NextWorker].of = s
           /\ worker'[NextWorker].asked = asked
           /\ \A x : x # s => Spawned(x)' = Spawned(x)
           /\ Spawned(s)' # {} /\ Cardinality(Spawned(s)') = Cardinality(Spawned(s)) + 1
<1>0. PluginTypeInv /\ MaxWorkers \in Nat
  BY PluginAssumption DEF PluginInv
<1>1. PICK n, v : n = NextWorker
                  /\ v = [of |-> s, state |-> "loading", readyTimer |-> TRUE, asked |-> asked]
  OBVIOUS
<1>2. v \in WorkerRow /\ v.of = s /\ v.asked = asked
  BY <1>1 DEF WorkerRow
<1>3. worker' = Extend(worker, n, v)
  BY <1>1 DEF Spawn
<1>4. n \in Nat \ {0} /\ n \notin DOMAIN worker /\ DOMAIN worker = 1 .. n - 1 /\ n <= MaxWorkers
  BY <1>0, <1>1, Numbers DEF Worker
<1>5. DOMAIN worker' = DOMAIN worker \cup {n} /\ worker'[n] = v
      /\ \A w \in DOMAIN worker : worker'[w] = worker[w]
  BY <1>3, <1>4 DEF Extend
<1>6. DOMAIN worker' = 1 .. n /\ n \in 0 .. MaxWorkers
  BY <1>0, <1>4, <1>5
<1>7. ASSUME NEW x, x # s PROVE Spawned(x)' = Spawned(x)
  BY <1>2, <1>4, <1>5, <1>7 DEF Spawned
<1>8. Spawned(s)' = Spawned(s) \cup {n} /\ n \notin Spawned(s)
  BY <1>2, <1>4, <1>5 DEF Spawned
<1>9. Cardinality(Spawned(s) \cup {n}) = Cardinality(Spawned(s)) + 1
  BY <1>0, <1>8, SpawnedFinite, FS_AddElement
<1> QED BY <1>1, <1>2, <1>5, <1>6, <1>7, <1>8, <1>9

\* startPlugin, after a stop or not: x is what the stop has left of the sandboxes.
LEMMA SpawnsFirst ==
    ASSUME PluginInv, NextSandbox \in Sandbox, NextWorker \in Worker,
           NEW x, DOMAIN x = DOMAIN sandbox,
           \A s \in DOMAIN sandbox :
               /\ x[s] \in SandboxRow /\ x[s].timers = sandbox[s].timers
               /\ x[s].restarts = sandbox[s].restarts /\ x[s].cancellable = sandbox[s].cancellable
               /\ x[s].worker = sandbox[s].worker \/ (FirstLoaded(s) /\ registered' = 0),
           sandbox' = Extend(x, NextSandbox, NewSandbox),
           worker' = Spawn(NextSandbox, TRUE),
           registered' \in {0, registered},
           plugin' \in [enabled : BOOLEAN, status : {"disabled", "active", "quarantined"}],
           request' \in [Request -> RequestState],
           \A r \in Request : request'[r].at = "stopping" =>
               request[r].at = "stopping" /\ request'[r].sandbox = request[r].sandbox
    PROVE  PluginInv'
<1>0. PluginTypeInv /\ MaxSandboxes \in Nat /\ MaxRestarts \in Nat
  BY PluginAssumption DEF PluginInv
<1>1. PICK n, m : n = NextSandbox /\ m = NextWorker
  OBVIOUS
<1>2. /\ n \in Nat \ {0} /\ n \notin DOMAIN sandbox /\ DOMAIN sandbox = 1 .. n - 1
      /\ n <= MaxSandboxes /\ m \in Nat \ {0} /\ m \in Worker /\ n \in Sandbox
      /\ m \notin DOMAIN worker
  BY <1>0, <1>1, Numbers DEF Sandbox
<1>3. PICK b : b = [worker |-> m, restarts |-> 0, stopped |-> FALSE, timers |-> 0,
                    cancellable |-> FALSE]
  OBVIOUS
<1>4. b \in SandboxRow /\ b.worker = m /\ b.restarts = 0 /\ b.timers = 0 /\ b.cancellable = FALSE
  BY <1>0, <1>2, <1>3 DEF SandboxRow
<1>5. sandbox' = Extend(x, n, b)
  BY <1>1, <1>3 DEF NewSandbox
<1>6. DOMAIN sandbox' = DOMAIN sandbox \cup {n} /\ sandbox'[n] = b
      /\ \A s \in DOMAIN sandbox : sandbox'[s] = x[s]
  BY <1>2, <1>5 DEF Extend
<1>7. DOMAIN sandbox' = 1 .. n /\ n \in 0 .. MaxSandboxes
  BY <1>0, <1>2, <1>6
<1>8. /\ DOMAIN worker' = DOMAIN worker \cup {m}
      /\ \E k \in 0 .. MaxWorkers : DOMAIN worker' = 1 .. k
      /\ \A w \in DOMAIN worker : worker'[w] = worker[w]
      /\ worker'[m] \in WorkerRow /\ worker'[m].of = n /\ worker'[m].asked = TRUE
      /\ \A s : s # n => Spawned(s)' = Spawned(s)
      /\ Spawned(n)' # {} /\ Cardinality(Spawned(n)') = Cardinality(Spawned(n)) + 1
  BY <1>1, <1>2, SpawnedOneMore
<1>w. /\ \A w \in DOMAIN worker' : w \in DOMAIN worker \/ w = m
      /\ m \in DOMAIN worker' /\ m \notin DOMAIN worker
      /\ \A w \in DOMAIN worker : worker'[w] = worker[w]
      /\ worker'[m].of = n /\ worker'[m].asked = TRUE
  BY <1>2, <1>8
<1>o. \A w \in DOMAIN worker : worker[w].of \in DOMAIN sandbox /\ worker[w].of # n
  BY <1>0, <1>2 DEF PluginTypeInv
<1>9. PluginTypeInv'
  BY <1>0, <1>2, <1>4, <1>6, <1>7, <1>8 DEF PluginTypeInv
<1>10. BudgetInv'
  <2>1. Spawned(n) = {}
    BY <1>0, <1>2 DEF PluginTypeInv, Spawned
  <2>2. Cardinality(Spawned(n)') = 1
    BY <1>8, <2>1, FS_EmptySet
  <2>3. ASSUME NEW s \in DOMAIN sandbox
        PROVE  /\ Spawned(s)' # {}
               /\ Cardinality(Spawned(s)') + sandbox'[s].timers <= 1 + sandbox'[s].restarts
               /\ sandbox'[s].cancellable => sandbox'[s].timers > 0
    <3>1. s # n /\ Spawned(s)' = Spawned(s)
      BY <1>2, <1>8
    <3> QED BY <1>6, <3>1 DEF PluginInv, BudgetInv
  <2> QED BY <1>4, <1>6, <1>8, <2>2, <2>3 DEF BudgetInv
<1>11. ASSUME NEW s \in DOMAIN sandbox, FirstLoaded(s) PROVE FirstLoaded(s)'
  <2>1. s # n
    BY <1>2
  <2>2. ASSUME NEW w \in DOMAIN worker', worker'[w].of = s, worker'[w].asked
        PROVE  worker'[w].state # "loading"
    <3>1. w # m
      BY <1>w, <2>1, <2>2
    <3>2. w \in DOMAIN worker
      BY <1>w, <3>1
    <3> QED BY <1>w, <1>11, <2>2, <3>2 DEF FirstLoaded
  <2> QED BY <2>2 DEF FirstLoaded
<1>12. ASSUME NEW s, s = registered', s # 0
       PROVE  sandbox'[s].worker # 0 /\ FirstLoaded(s)'
  BY <1>0, <1>6, <1>11, <1>12 DEF PluginInv, PluginTypeInv, FirstWorkerInv
<1>13. ASSUME NEW r \in Request, request'[r].at = "stopping", NEW s, s = request'[r].sandbox
       PROVE  FirstLoaded(s)'
  BY <1>0, <1>11, <1>13 DEF PluginInv, PluginTypeInv, FirstWorkerInv
<1>14. ASSUME NEW w \in DOMAIN worker, worker[w].asked, worker[w].state = "loading"
       PROVE  sandbox'[worker[w].of].worker # 0
  <2>1. worker[w].of \in DOMAIN sandbox /\ sandbox[worker[w].of].worker # 0
    BY <1>0, <1>14 DEF PluginInv, PluginTypeInv, FirstWorkerInv
  <2>2. ~ FirstLoaded(worker[w].of)
    BY <1>14 DEF FirstLoaded
  <2> QED BY <1>6, <2>1, <2>2
<1>15. ASSUME NEW v \in DOMAIN worker', NEW w \in DOMAIN worker',
              worker'[v].asked, worker'[w].asked, worker'[v].of = worker'[w].of
       PROVE  v = w
  <2>1. CASE v \in DOMAIN worker /\ w \in DOMAIN worker
    <3>1. worker'[v] = worker[v] /\ worker'[w] = worker[w]
      BY <1>w, <2>1
    <3> QED BY <1>15, <2>1, <3>1 DEF PluginInv, FirstWorkerInv
  <2>2. CASE v = m /\ w \in DOMAIN worker
    <3>1. worker'[w].of # n
      BY <1>w, <1>o, <2>2
    <3> QED BY <1>w, <1>15, <2>2, <3>1
  <2>3. CASE w = m /\ v \in DOMAIN worker
    <3>1. worker'[v].of # n
      BY <1>w, <1>o, <2>3
    <3> QED BY <1>w, <1>15, <2>3, <3>1
  <2>4. CASE v = m /\ w = m
    BY <2>4
  <2>5. (v \in DOMAIN worker \/ v = m) /\ (w \in DOMAIN worker \/ w = m)
    BY <1>w
  <2> QED BY <2>1, <2>2, <2>3, <2>4, <2>5
<1>16. ASSUME NEW w \in DOMAIN worker', worker'[w].asked, worker'[w].state = "loading"
       PROVE  sandbox'[worker'[w].of].worker # 0
  <2>1. CASE w = m
    BY <1>2, <1>4, <1>6, <1>w, <2>1
  <2>2. CASE w \in DOMAIN worker
    <3>1. worker'[w] = worker[w]
      BY <1>w, <2>2
    <3>2. worker[w].asked /\ worker[w].state = "loading"
      BY <1>16, <3>1
    <3>3. sandbox'[worker[w].of].worker # 0
      BY <1>14, <2>2, <3>2
    <3> QED BY <3>1, <3>3
  <2>3. w \in DOMAIN worker \/ w = m
    BY <1>w
  <2> QED BY <2>1, <2>2, <2>3
<1>17. FirstWorkerInv'
  BY <1>12, <1>13, <1>15, <1>16 DEF FirstWorkerInv, FirstLoaded
<1> QED BY <1>9, <1>10, <1>17 DEF PluginInv

LEMMA StepEnable ==
    ASSUME PluginInv, NEW r \in Request, Enable(r)
    PROVE  PluginInv'
<1>1. plugin' \in [enabled : BOOLEAN, status : {"disabled", "active", "quarantined"}]
      /\ registered' = registered
  <2>1. plugin' = [enabled |-> TRUE, status |-> "active"] /\ registered' = registered
    BY DEF Enable
  <2> QED BY <2>1
<1>2. CASE registered # 0
  BY <1>1, <1>2, StopRegisteredOK DEF Enable
<1>3. CASE registered = 0
  <2>1. PICK q : q = [at |-> "starting", sandbox |-> NextSandbox]
    OBVIOUS
  <2>2. /\ NextSandbox \in Sandbox /\ NextWorker \in Worker
        /\ sandbox' = Extend(sandbox, NextSandbox, NewSandbox)
        /\ worker' = Spawn(NextSandbox, TRUE)
        /\ request' = [request EXCEPT ![r] = q]
    BY <1>3, <2>1 DEF Enable, StartPlugin
  <2>3. q \in RequestState /\ q.at = "starting"
    BY <2>1, <2>2, RequestStates
  <2>4. request \in [Request -> RequestState]
    BY DEF PluginInv, PluginTypeInv
  <2>5. /\ request' \in [Request -> RequestState]
        /\ \A x \in Request : request'[x].at = "stopping" =>
               request[x].at = "stopping" /\ request'[x].sandbox = request[x].sandbox
    BY <2>2, <2>3, <2>4
  <2>6. PICK x : x = sandbox
    OBVIOUS
  <2>s. \A s \in DOMAIN sandbox : sandbox[s] \in SandboxRow
    BY DEF PluginInv, PluginTypeInv
  <2>7. /\ DOMAIN x = DOMAIN sandbox /\ sandbox' = Extend(x, NextSandbox, NewSandbox)
        /\ \A s \in DOMAIN sandbox :
               /\ x[s] \in SandboxRow /\ x[s].timers = sandbox[s].timers
               /\ x[s].restarts = sandbox[s].restarts
               /\ x[s].cancellable = sandbox[s].cancellable
               /\ x[s].worker = sandbox[s].worker \/ (FirstLoaded(s) /\ registered' = 0)
    BY <2>2, <2>6, <2>s
  <2>8. registered' \in {0, registered}
    BY <1>1
  <2> HIDE <2>6
  <2> QED BY <1>1, <2>2, <2>5, <2>7, <2>8, SpawnsFirst
<1> QED BY <1>2, <1>3

LEMMA StepDisable ==
    ASSUME PluginInv, NEW r \in Request, Disable(r)
    PROVE  PluginInv'
<1>1. plugin' \in [enabled : BOOLEAN, status : {"disabled", "active", "quarantined"}]
      /\ registered' = registered
  <2>1. plugin' = [enabled |-> FALSE, status |-> "disabled"] /\ registered' = registered
    BY DEF Disable
  <2> QED BY <2>1
<1>2. CASE registered # 0
  BY <1>1, <1>2, StopRegisteredOK DEF Disable
<1>3. CASE registered = 0
  <2>1. PICK q : q = [at |-> "answered"]
    OBVIOUS
  <2>2. request' = [request EXCEPT ![r] = q] /\ sandbox' = sandbox /\ worker' = worker
    BY <1>3, <2>1 DEF Disable
  <2>3. q \in RequestState /\ q.at # "stopping"
    BY <2>1, RequestStates
  <2>4. request \in [Request -> RequestState]
    BY DEF PluginInv, PluginTypeInv
  <2>5. /\ request' \in [Request -> RequestState]
        /\ \A x \in Request : request'[x].at = "stopping" =>
               request[x].at = "stopping" /\ request'[x].sandbox = request[x].sandbox
    BY <2>2, <2>3, <2>4
  <2>6. SpawnsNone
    BY <2>2, SandboxesKept DEF PluginInv, PluginTypeInv, SpawnsNone
  <2> QED BY <1>1, <2>5, <2>6, SpawnsNoneOK
<1> QED BY <1>2, <1>3

LEMMA StepStopEnds ==
    ASSUME PluginInv, NEW r \in Request, StopEnds(r)
    PROVE  PluginInv'
<1>1. PICK s, x : s = request[r].sandbox /\ x = [sandbox EXCEPT ![s].worker = 0]
  OBVIOUS
<1>2. request[r].at = "stopping" /\ registered' = 0 /\ plugin' = plugin
  BY DEF StopEnds
<1>3. s \in DOMAIN sandbox /\ FirstLoaded(s) /\ request \in [Request -> RequestState]
      /\ plugin \in [enabled : BOOLEAN, status : {"disabled", "active", "quarantined"}]
  BY <1>1, <1>2 DEF PluginInv, PluginTypeInv, FirstWorkerInv
<1>4. DOMAIN x = DOMAIN sandbox
  BY <1>1
<1>5. ASSUME NEW y \in DOMAIN sandbox
      PROVE  /\ x[y] \in SandboxRow /\ x[y].timers = sandbox[y].timers
             /\ x[y].restarts = sandbox[y].restarts /\ x[y].cancellable = sandbox[y].cancellable
             /\ x[y].worker = sandbox[y].worker \/ (FirstLoaded(y) /\ registered' = 0)
  <2>1. sandbox[y] \in SandboxRow
    BY Rows
  <2>2. CASE y = s
    <3>1. PICK b : b = [sandbox[y] EXCEPT !.worker = 0] /\ x[y] = b
      BY <1>1, <2>2
    <3>2. /\ b \in SandboxRow /\ b.timers = sandbox[y].timers
          /\ b.restarts = sandbox[y].restarts /\ b.cancellable = sandbox[y].cancellable
      BY <2>1, <3>1 DEF SandboxRow
    <3> QED BY <1>2, <1>3, <2>2, <3>1, <3>2
  <2>3. CASE y # s
    <3>1. x[y] = sandbox[y]
      BY <1>1, <2>3
    <3> QED BY <2>1, <3>1
  <2> QED BY <2>2, <2>3
<1>6. CASE request[r].enable
  <2>1. PICK q : q = [at |-> "starting", sandbox |-> NextSandbox]
    OBVIOUS
  <2>2. /\ NextSandbox \in Sandbox /\ NextWorker \in Worker
        /\ sandbox' = Extend(x, NextSandbox, NewSandbox)
        /\ worker' = Spawn(NextSandbox, TRUE)
        /\ request' = [request EXCEPT ![r] = q]
    BY <1>1, <1>6, <2>1 DEF StopEnds
  <2>3. q \in RequestState /\ q.at = "starting"
    BY <2>1, <2>2, RequestStates
  <2>4. /\ request' \in [Request -> RequestState]
        /\ \A y \in Request : request'[y].at = "stopping" =>
               request[y].at = "stopping" /\ request'[y].sandbox = request[y].sandbox
    BY <1>3, <2>2, <2>3
  <2> QED BY <1>2, <1>3, <1>4, <1>5, <2>2, <2>4, SpawnsFirst
<1>7. CASE ~ request[r].enable
  <2>1. PICK q : q = [at |-> "answered"]
    OBVIOUS
  <2>2. request' = [request EXCEPT ![r] = q] /\ sandbox' = x /\ worker' = worker
    BY <1>1, <1>7, <2>1 DEF StopEnds
  <2>3. q \in RequestState /\ q.at # "stopping"
    BY <2>1, RequestStates
  <2>4. /\ request' \in [Request -> RequestState]
        /\ \A y \in Request : request'[y].at = "stopping" =>
               request[y].at = "stopping" /\ request'[y].sandbox = request[y].sandbox
    BY <1>3, <2>2, <2>3
  <2>5. SpawnsNone
    BY <1>4, <1>5, <2>2, SandboxesKept DEF PluginInv, PluginTypeInv, SpawnsNone
  <2> QED BY <1>2, <1>3, <2>4, <2>5, SpawnsNoneOK
<1> QED BY <1>6, <1>7

LEMMA StepRestartTimer ==
    ASSUME PluginInv, NEW s \in Sandbox, RestartTimer(s)
    PROVE  PluginInv'
<1>0. PluginTypeInv /\ MaxRestarts \in Nat
  BY PluginAssumption DEF PluginInv
<1>1. PICK m, t, c : m = NextWorker /\ t = sandbox[s].timers - 1
                     /\ c = (sandbox[s].cancellable /\ sandbox[s].timers > 1)
  OBVIOUS
<1>2. /\ s \in DOMAIN sandbox /\ sandbox[s].timers > 0 /\ m \in Worker
      /\ worker' = Spawn(s, FALSE) /\ registered' = registered /\ plugin' = plugin
      /\ request' = request
  BY <1>0, <1>1, Numbers DEF RestartTimer
<1>3. PICK b : b = [[[sandbox[s] EXCEPT !.worker = m] EXCEPT !.timers = t] EXCEPT !.cancellable = c]
  OBVIOUS
<1>4. sandbox[s] \in SandboxRow /\ sandbox[s].timers \in Nat /\ sandbox[s].restarts \in Nat
      /\ sandbox[s].cancellable \in BOOLEAN
  BY <1>2, Rows DEF SandboxRow
<1>5. t \in 0 .. MaxRestarts /\ (c => t > 0) /\ c \in BOOLEAN
  <2>1. PICK k : k = sandbox[s].timers
    OBVIOUS
  <2>2. k \in 0 .. MaxRestarts /\ k > 0 /\ t = k - 1
    BY <1>1, <1>2, <1>4, <2>1 DEF SandboxRow
  <2>3. t \in 0 .. MaxRestarts /\ (k > 1 => t > 0)
    BY <1>0, <2>2
  <2>4. c \in BOOLEAN /\ (c => k > 1)
    BY <1>1, <2>1
  <2> QED BY <2>3, <2>4
<1>6. b \in SandboxRow /\ b.worker = m /\ b.timers = t /\ b.restarts = sandbox[s].restarts
      /\ b.cancellable = c
  BY <1>2, <1>3, <1>4, <1>5 DEF SandboxRow
<1>7. sandbox' = [sandbox EXCEPT ![s] = b]
  <2>1. sandbox' = [sandbox EXCEPT ![s].worker = m, ![s].timers = t, ![s].cancellable = c]
    BY <1>1 DEF RestartTimer
  <2> QED BY <1>2, <1>3, <2>1
<1>8. DOMAIN sandbox' = DOMAIN sandbox /\ sandbox'[s] = b
      /\ \A x \in DOMAIN sandbox : x # s => sandbox'[x] = sandbox[x]
  BY <1>2, <1>7
<1>9. /\ DOMAIN worker' = DOMAIN worker \cup {m} /\ m \notin DOMAIN worker /\ m # 0
      /\ \E n \in 0 .. MaxWorkers : DOMAIN worker' = 1 .. n
      /\ \A w \in DOMAIN worker : worker'[w] = worker[w]
      /\ worker'[m] \in WorkerRow /\ worker'[m].of = s /\ worker'[m].asked = FALSE
      /\ \A x : x # s => Spawned(x)' = Spawned(x)
      /\ Spawned(s)' # {} /\ Cardinality(Spawned(s)') = Cardinality(Spawned(s)) + 1
  BY <1>0, <1>1, <1>2, Numbers, SpawnedOneMore
<1>10. PluginTypeInv'
  BY <1>0, <1>2, <1>6, <1>8, <1>9 DEF PluginTypeInv
<1>11. BudgetInv'
  <2>1. PICK n, u, p : n = Cardinality(Spawned(s)) /\ u = sandbox[s].timers /\ p = sandbox[s].restarts
    OBVIOUS
  <2>2. n \in Nat /\ n + u <= 1 + p /\ u \in Nat /\ p \in Nat /\ t = u - 1
    BY <1>0, <1>1, <1>2, <1>4, <2>1, SpawnedFinite DEF PluginInv, BudgetInv
  <2>3. (n + 1) + t <= 1 + p
    BY <2>2
  <2>4. Cardinality(Spawned(s)') + sandbox'[s].timers <= 1 + sandbox'[s].restarts
    BY <1>6, <1>8, <1>9, <2>1, <2>3
  <2>5. ASSUME NEW x \in DOMAIN sandbox, x # s
        PROVE  /\ Spawned(x)' # {}
               /\ Cardinality(Spawned(x)') + sandbox'[x].timers <= 1 + sandbox'[x].restarts
               /\ sandbox'[x].cancellable => sandbox'[x].timers > 0
    <3>1. Spawned(x)' = Spawned(x) /\ sandbox'[x] = sandbox[x]
      BY <1>8, <1>9, <2>5
    <3> QED BY <3>1 DEF PluginInv, BudgetInv
  <2> QED BY <1>5, <1>6, <1>8, <1>9, <2>4, <2>5 DEF BudgetInv
<1>12. ASSUME NEW x, FirstLoaded(x) PROVE FirstLoaded(x)'
  BY <1>9, <1>12 DEF FirstLoaded
<1>13. \A v, w \in DOMAIN worker' :
          worker'[v].asked /\ worker'[w].asked /\ worker'[v].of = worker'[w].of => v = w
  BY <1>9 DEF PluginInv, FirstWorkerInv
<1>14. \A x \in DOMAIN sandbox : sandbox[x].worker # 0 => sandbox'[x].worker # 0
  BY <1>6, <1>8, <1>9
<1>15. \A w \in DOMAIN worker' :
          worker'[w].asked /\ worker'[w].state = "loading" => sandbox'[worker'[w].of].worker # 0
  BY <1>0, <1>9, <1>14 DEF PluginInv, PluginTypeInv, FirstWorkerInv
<1>16. registered' # 0 => sandbox'[registered'].worker # 0
  BY <1>0, <1>2, <1>14 DEF PluginInv, PluginTypeInv, FirstWorkerInv
<1>17. FirstWorkerInv'
  <2>1. registered # 0 => FirstLoaded(registered)'
    <3>1. ASSUME NEW x, x = registered, x # 0 PROVE FirstLoaded(x)'
      BY <1>12, <3>1 DEF PluginInv, FirstWorkerInv
    <3> QED BY <1>2, <3>1
  <2>2. ASSUME NEW r \in Request, request'[r].at = "stopping", NEW x, x = request'[r].sandbox
        PROVE  FirstLoaded(x)'
    BY <1>2, <1>12, <2>2 DEF PluginInv, FirstWorkerInv
  <2> QED BY <1>2, <1>13, <1>15, <1>16, <2>1, <2>2 DEF FirstWorkerInv, FirstLoaded
<1> QED BY <1>10, <1>11, <1>17 DEF PluginInv

LEMMA PluginInvInit == PluginInit => PluginInv
<1> SUFFICES ASSUME PluginInit PROVE PluginInv
  OBVIOUS
<1>1. MaxSandboxes \in Nat /\ MaxWorkers \in Nat
  BY PluginAssumption
<1>2. DOMAIN sandbox = {} /\ DOMAIN worker = {} /\ registered = 0
      /\ \A r \in Request : request[r] = [at |-> "idle"]
  BY DEF PluginInit
<1>3. DOMAIN sandbox = 1 .. 0 /\ DOMAIN worker = 1 .. 0 /\ 0 \in 0 .. MaxSandboxes
      /\ 0 \in 0 .. MaxWorkers
  BY <1>1, <1>2
<1>4. request \in [Request -> RequestState] /\ \A r \in Request : request[r].at # "stopping"
  BY <1>2, RequestStates DEF PluginInit
<1>5. plugin \in [enabled : BOOLEAN, status : {"disabled", "active", "quarantined"}]
  BY DEF PluginInit
<1>6. PluginTypeInv
  BY <1>2, <1>3, <1>4, <1>5 DEF PluginTypeInv
<1> QED BY <1>2, <1>4, <1>6 DEF PluginInv, BudgetInv, FirstWorkerInv

LEMMA PluginInvStep == PluginInv /\ [PluginNext]_pluginVars => PluginInv'
<1> SUFFICES ASSUME PluginInv, [PluginNext]_pluginVars PROVE PluginInv'
  OBVIOUS
<1>1. CASE UNCHANGED pluginVars
  <2>1. SpawnsNone
    BY <1>1, SandboxesKept DEF pluginVars, PluginInv, PluginTypeInv, SpawnsNone
  <2> QED BY <1>1, <2>1, SpawnsNoneOK DEF pluginVars, PluginInv, PluginTypeInv
<1>2. CASE \E r \in Request : Enable(r) \/ Disable(r) \/ StopEnds(r)
  BY <1>2, StepEnable, StepDisable, StepStopEnds
<1>3. CASE \E w \in Worker : WorkerReady(w) \/ ReadyTimeout(w) \/ WorkerFails(w) \/ WorkerExits(w)
  BY <1>3, StepWorkerReady, StepReadyTimeout, StepWorkerFails, StepWorkerExits
<1>4. CASE \E s \in Sandbox : RestartTimer(s)
  BY <1>4, StepRestartTimer
<1> QED BY <1>1, <1>2, <1>3, <1>4 DEF PluginNext

THEOREM PluginInvariant == PluginSpec => []PluginInv
<1> QED BY PluginInvInit, PluginInvStep, PTL DEF PluginSpec

\* However workers fail, exit and are stopped, a sandbox spawns one worker and one more
\* for each restart that it counts, MaxRestarts of them at the most.
THEOREM RestartBudgetHolds == PluginSpec => []RestartBudget
<1>1. PluginInv => RestartBudget
  BY Numbers DEF PluginInv, PluginTypeInv, BudgetInv, RestartBudget
<1> QED BY <1>1, PluginInvariant, PTL

-----------------------------------------------------------------------------
(* The AI request queue.                                                   *)

\* A state of the queue in which the counter, the slots, the queue and the statuses
\* tell one story; a slot may be free while a task waits, as it is before a pump.
Consistent(q) ==
    /\ q \in AiState /\ IsFiniteSet(q.slots)
    /\ q.running = Cardinality(q.slots) /\ q.running <= Concurrency
    /\ q.slots = {t \in Task : q.status[t] = "running"}
    /\ Range(q.waiting) = {t \in Task : q.status[t] = "queued"} /\ IsInjective(q.waiting)

Pumped(q) == Consistent(q) /\ (q.waiting # <<>> => q.running = Concurrency)

\* What may become of the tasks from one state of the queue to a later one.
Follows(q, r) ==
    /\ \A t \in Task : q.status[t] \in Final => r.status[t] = q.status[t]
    /\ \A t \in Task : q.status[t] = "running" => r.status[t] \in Final \cup {"running"}

AiInv ==
    /\ Pumped(AiNow)
    /\ slots \subseteq runners
    /\ runners \subseteq {t \in Task : status[t] \in Final \cup {"running"}}

LEMMA FollowsOn ==
    ASSUME NEW p, NEW q, NEW r, Follows(p, q), Follows(q, r)
    PROVE  Follows(p, r)
<1>1. ASSUME NEW t \in Task, p.status[t] \in Final PROVE r.status[t] = p.status[t]
  BY <1>1 DEF Follows
<1>2. ASSUME NEW t \in Task, p.status[t] = "running" PROVE r.status[t] \in Final \cup {"running"}
  <2>1. q.status[t] \in Final \cup {"running"}
    BY <1>2 DEF Follows
  <2> QED BY <2>1 DEF Follows
<1> QED BY <1>1, <1>2 DEF Follows

LEMMA StateParts ==
    ASSUME NEW q \in AiState
    PROVE  /\ q.waiting \in Seq(Task) /\ Len(q.waiting) \in Nat
           /\ DOMAIN q.waiting = 1 .. Len(q.waiting) /\ q.slots \subseteq Task /\ q.running \in Nat
           /\ q.status \in [Task -> {"none", "queued", "running"} \cup Final]
           /\ q = [waiting |-> q.waiting, slots |-> q.slots, running |-> q.running,
                   status |-> q.status]
BY DEF AiState

\* pump hands the free slots to the head of the queue and leaves no slot free while a
\* task waits.
LEMMA PumpFills ==
    ASSUME NEW q, Consistent(q)
    PROVE  Pumped(Pump(q)) /\ Follows(q, Pump(q))
<1>0. Concurrency \in Nat \ {0} /\ q \in AiState /\ IsFiniteSet(q.slots)
      /\ q.running = Cardinality(q.slots) /\ q.running <= Concurrency
  BY AiAssumption DEF Consistent
<1>1. PICK w, len, c, run, st :
          /\ w = q.waiting /\ len = Len(q.waiting) /\ c = q.slots /\ run = q.running /\ st = q.status
  OBVIOUS
<1>2. /\ w \in Seq(Task) /\ len \in Nat /\ len = Len(w) /\ DOMAIN w = 1 .. len /\ c \subseteq Task
      /\ run \in Nat /\ run <= Concurrency /\ run = Cardinality(c) /\ IsFiniteSet(c)
      /\ st \in [Task -> {"none", "queued", "running"} \cup Final]
      /\ c = {t \in Task : st[t] = "running"}
      /\ Range(w) = {t \in Task : st[t] = "queued"} /\ IsInjective(w)
  BY <1>0, <1>1, StateParts DEF Consistent
<1>a. run \in Nat /\ len \in Nat /\ run <= Concurrency /\ Concurrency \in Nat
  BY <1>0, <1>2
<1>3. PICK n : n = IF run >= Concurrency THEN 0
                   ELSE IF Concurrency - run < len THEN Concurrency - run ELSE len
  OBVIOUS
<1>4. n \in 0 .. len /\ run + n <= Concurrency /\ n \in Nat
      /\ (n # len => run + n = Concurrency)
  BY <1>a, <1>3
<1>5. PICK started : started = {w[i] : i \in 1 .. n}
  OBVIOUS
<1>6. PICK p : p = Pump(q)
  OBVIOUS
<1>7. p = [waiting |-> SubSeq(w, n + 1, len), slots |-> c \cup started, running |-> run + n,
           status |-> [t \in Task |-> IF t \in started THEN "running" ELSE st[t]]]
  BY <1>1, <1>3, <1>5, <1>6 DEF Pump
<1> HIDE <1>1, <1>3
<1>8. /\ p.waiting = SubSeq(w, n + 1, len) /\ p.slots = c \cup started /\ p.running = run + n
      /\ p.status = [t \in Task |-> IF t \in started THEN "running" ELSE st[t]]
  BY <1>7
<1>9. \A i \in 1 .. len : w[i] \in Task /\ st[w[i]] = "queued"
  BY <1>2 DEF Range
<1>10. started \subseteq Task /\ \A t \in started : st[t] = "queued"
  <2>1. \A i \in 1 .. n : i \in 1 .. len
    BY <1>a, <1>4
  <2> QED BY <1>5, <1>9, <2>1
<1>11. IsFiniteSet(started) /\ Cardinality(started) = n
  <2> DEFINE f == [i \in 1 .. n |-> w[i]]
  <2>1. f \in Bijection(1 .. n, started)
    <3>1. f \in [1 .. n -> started] /\ \A t \in started : \E i \in 1 .. n : f[i] = t
      BY <1>5
    <3>2. \A i, j \in 1 .. n : f[i] = f[j] => i = j
      BY <1>2, <1>4 DEF IsInjective
    <3> HIDE DEF f
    <3> QED BY <3>1, <3>2 DEF Bijection, Injection, Surjection, IsInjective
  <2>2. IsFiniteSet(1 .. n) /\ Cardinality(1 .. n) = n
    BY <1>4, FS_Interval
  <2>3. ExistsBijection(1 .. n, started)
    BY <2>1 DEF ExistsBijection
  <2> QED BY <2>2, <2>3, FS_Bijection
<1>12. c \cap started = {}
  BY <1>2, <1>10
<1>13. IsFiniteSet(c \cup started) /\ Cardinality(c \cup started) = run + n
  <2>1. IsFiniteSet(c \cup started)
        /\ Cardinality(c \cup started) =
               Cardinality(c) + Cardinality(started) - Cardinality(c \cap started)
    BY <1>2, <1>11, FS_Union
  <2>2. Cardinality(c \cap started) = 0
    BY <1>12, FS_EmptySet
  <2> QED BY <1>2, <1>4, <1>11, <2>1, <2>2
<1>14. /\ SubSeq(w, n + 1, len) \in Seq(Task)
       /\ Len(SubSeq(w, n + 1, len)) = len - n
       /\ DOMAIN SubSeq(w, n + 1, len) = 1 .. len - n
       /\ \A i \in 1 .. len - n : SubSeq(w, n + 1, len)[i] = w[n + i]
  <2>1. \A i \in n + 1 .. len : w[i] \in Task
    BY <1>4, <1>9
  <2>2. /\ SubSeq(w, n + 1, len) \in Seq(Task)
        /\ Len(SubSeq(w, n + 1, len)) = IF n + 1 <= len THEN len - (n + 1) + 1 ELSE 0
        /\ \A i \in 1 .. len - (n + 1) + 1 : SubSeq(w, n + 1, len)[i] = w[n + 1 + i - 1]
    BY <1>2, <1>4, <2>1, SubSeqProperties
  <2>3. Len(SubSeq(w, n + 1, len)) = len - n
    BY <1>2, <1>4, <2>2
  <2>4. DOMAIN SubSeq(w, n + 1, len) = 1 .. len - n
    BY <2>2, <2>3, LenProperties
  <2>5. \A i \in 1 .. len - n : n + 1 + i - 1 = n + i
    BY <1>2, <1>4
  <2>6. len - (n + 1) + 1 = len - n
    BY <1>2, <1>4
  <2> QED BY <2>2, <2>3, <2>4, <2>5, <2>6
<1>v. PICK v : v = SubSeq(w, n + 1, len)
  OBVIOUS
<1>s. /\ p.waiting = v /\ v \in Seq(Task) /\ Len(v) = len - n /\ DOMAIN v = 1 .. len - n
      /\ \A i \in 1 .. len - n : v[i] = w[n + i]
  BY <1>8, <1>14, <1>v
<1>15. p \in AiState
  <2>1. [t \in Task |-> IF t \in started THEN "running" ELSE st[t]]
            \in [Task -> {"none", "queued", "running"} \cup Final]
    BY <1>2
  <2>2. v \in Seq(Task) /\ c \cup started \subseteq Task /\ run + n \in Nat
    BY <1>2, <1>a, <1>4, <1>10, <1>s
  <2>3. p = [waiting |-> v, slots |-> c \cup started, running |-> run + n,
             status |-> [t \in Task |-> IF t \in started THEN "running" ELSE st[t]]]
    BY <1>7, <1>v
  <2> QED BY <2>1, <2>2, <2>3 DEF AiState
<1>16. p.slots = {t \in Task : p.status[t] = "running"}
  BY <1>2, <1>8, <1>10
<1>17. \A i, j \in 1 .. len : w[i] = w[j] => i = j
  BY <1>2 DEF IsInjective
<1>18. IsInjective(p.waiting)
  <2>1. ASSUME NEW i \in 1 .. len - n, NEW j \in 1 .. len - n, p.waiting[i] = p.waiting[j]
        PROVE  i = j
    <3>1. w[n + i] = w[n + j]
      BY <1>s, <2>1
    <3>2. n + i \in 1 .. len /\ n + j \in 1 .. len
      BY <1>a, <1>4
    <3>3. n + i = n + j
      BY <1>17, <3>1, <3>2
    <3> QED BY <1>4, <3>3
  <2> QED BY <1>s, <2>1 DEF IsInjective
<1>19. Range(p.waiting) = {t \in Task : p.status[t] = "queued"}
  <2>1. ASSUME NEW t \in Range(p.waiting) PROVE t \in Task /\ p.status[t] = "queued"
    <3>1. PICK i \in 1 .. len - n : t = w[n + i]
      BY <1>s DEF Range
    <3>2. n + i \in 1 .. len /\ \A j \in 1 .. n : j \in 1 .. len /\ j # n + i
      BY <1>a, <1>4
    <3>3. t \notin started
      <4>1. \A j \in 1 .. n : w[j] # w[n + i]
        BY <1>17, <3>2
      <4> QED BY <1>5, <3>1, <4>1
    <3> QED BY <1>8, <1>9, <3>1, <3>2, <3>3
  <2>2. ASSUME NEW t \in Task, p.status[t] = "queued" PROVE t \in Range(p.waiting)
    <3>1. t \notin started /\ st[t] = "queued"
      BY <1>8, <2>2
    <3>2. PICK i \in 1 .. len : t = w[i]
      BY <1>2, <3>1 DEF Range
    <3>3. i \notin 1 .. n
      BY <1>5, <3>1, <3>2
    <3>4. i - n \in 1 .. len - n /\ n + (i - n) = i
      BY <1>2, <1>4, <3>3
    <3> QED BY <1>s, <3>2, <3>4 DEF Range
  <2> QED BY <2>1, <2>2
<1>20. p.waiting # <<>> => p.running = Concurrency
  <2>1. CASE n = len
    <3>1. Len(v) = 0
      BY <1>a, <1>s, <2>1
    <3>2. v = <<>>
      BY <1>s, <3>1
    <3> QED BY <1>s, <3>2
  <2>2. CASE n # len
    BY <1>4, <1>8, <2>2
  <2> QED BY <2>1, <2>2
<1>21. Pumped(p)
  BY <1>4, <1>8, <1>13, <1>15, <1>16, <1>18, <1>19, <1>20 DEF Pumped, Consistent
<1>22. Follows(q, p)
  <2>1. st = q.status
    BY <1>1
  <2>2. \A t \in Task : st[t] # "queued" => p.status[t] = st[t]
    BY <1>8, <1>10
  <2> QED BY <1>2, <2>1, <2>2 DEF Follows, Final
<1> QED BY <1>6, <1>21, <1>22
\* A task that holds a slot, or was settled before, is settled: in the first case the
\* slot goes to the head of the queue.
LEMMA SettleOK ==
    ASSUME NEW q, Pumped(q), NEW t \in Task, NEW s \in Final,
           q.status[t] \in Final \cup {"running"}
    PROVE  /\ Pumped(Settle(q, t, s)) /\ Follows(q, Settle(q, t, s))
           /\ Settle(q, t, s).status[t] \in Final
<1>1. CASE q.status[t] \in Final
  <2>1. Settle(q, t, s) = q
    BY <1>1 DEF Settle
  <2> QED BY <1>1, <2>1 DEF Follows
<1>2. CASE q.status[t] = "running"
  <2>0. q \in AiState /\ Consistent(q) /\ t \in q.slots /\ q.status[t] \notin Final
    BY <1>2 DEF Pumped, Consistent, Final
  <2>1. PICK r : r = [[q EXCEPT !.status[t] = s] EXCEPT !.slots = @ \ {t}, !.running = @ - 1]
    OBVIOUS
  <2>2. Settle(q, t, s) = Pump(r)
    BY <2>0, <2>1 DEF Settle, AiState
  <2>3. /\ r = [waiting |-> q.waiting, slots |-> q.slots \ {t}, running |-> q.running - 1,
                status |-> [q.status EXCEPT ![t] = s]]
    BY <2>0, <2>1 DEF AiState
  <2> HIDE <2>1
  <2>4. /\ r.waiting = q.waiting /\ r.slots = q.slots \ {t} /\ r.running = q.running - 1
        /\ r.status = [q.status EXCEPT ![t] = s]
    BY <2>3
  <2>5. IsFiniteSet(r.slots) /\ r.running = Cardinality(r.slots) /\ r.running \in Nat
        /\ r.running <= Concurrency
    <3>1. IsFiniteSet(q.slots) /\ q.running = Cardinality(q.slots) /\ q.running <= Concurrency
          /\ q.running \in Nat /\ Concurrency \in Nat
      BY <2>0, AiAssumption, StateParts DEF Consistent
    <3>2. IsFiniteSet(r.slots) /\ Cardinality(r.slots) = Cardinality(q.slots) - 1
      BY <2>0, <2>4, <3>1, FS_RemoveElement
    <3>3. Cardinality(r.slots) \in Nat
      BY <3>2, FS_CardinalityType
    <3> QED BY <2>4, <3>1, <3>2, <3>3
  <2>6. r.status \in [Task -> {"none", "queued", "running"} \cup Final]
        /\ r.status[t] = s /\ \A u \in Task \ {t} : r.status[u] = q.status[u]
    BY <2>0, <2>4, StateParts
  <2>7. r \in AiState
    <3>1. q.waiting \in Seq(Task) /\ r.slots \subseteq Task
      BY <2>0, <2>4, StateParts
    <3>2. r = [waiting |-> q.waiting, slots |-> r.slots, running |-> r.running,
               status |-> r.status]
      BY <2>3, <2>4
    <3> QED BY <2>5, <2>6, <3>1, <3>2 DEF AiState
  <2>8. s # "running" /\ s # "queued"
    BY DEF Final
  <2>9. r.slots = {u \in Task : r.status[u] = "running"}
    BY <2>0, <2>4, <2>6, <2>8 DEF Consistent
  <2>10. Range(r.waiting) = {u \in Task : r.status[u] = "queued"} /\ IsInjective(r.waiting)
    BY <1>2, <2>0, <2>4, <2>6, <2>8 DEF Consistent
  <2>11. Consistent(r)
    BY <2>5, <2>7, <2>9, <2>10 DEF Consistent
  <2>12. Follows(q, r)
    BY <1>2, <2>0, <2>6 DEF Follows
  <2>13. Pumped(Pump(r)) /\ Follows(r, Pump(r))
    BY <2>11, PumpFills
  <2>14. Follows(q, Pump(r))
    BY <2>12, <2>13, FollowsOn
  <2>15. Pump(r).status[t] \in Final
    BY <2>6, <2>13 DEF Follows
  <2> QED BY <2>2, <2>13, <2>14, <2>15
<1> QED BY <1>1, <1>2

\* A sequence without one of its elements.
LEMMA RemovedAt ==
    ASSUME NEW S, NEW w \in Seq(S), IsInjective(w), NEW i \in DOMAIN w
    PROVE  /\ RemoveAt(w, i) \in Seq(S) /\ IsInjective(RemoveAt(w, i))
           /\ Range(RemoveAt(w, i)) = Range(w) \ {w[i]}
<1>1. PICK len : len = Len(w)
  OBVIOUS
<1>2. len \in Nat /\ DOMAIN w = 1 .. len /\ i \in 1 .. len /\ i \in Nat
      /\ \A j \in 1 .. len : w[j] \in S
  BY <1>1
<1>3. PICK a, b, v : a = SubSeq(w, 1, i - 1) /\ b = SubSeq(w, i + 1, len) /\ v = RemoveAt(w, i)
  OBVIOUS
<1>4. v = a \o b
  BY <1>1, <1>3 DEF RemoveAt
<1>5. a \in Seq(S) /\ Len(a) = i - 1 /\ \A j \in 1 .. i - 1 : a[j] = w[j]
  <2>1. \A j \in 1 .. i - 1 : w[j] \in S
    BY <1>2
  <2>2. /\ a \in Seq(S) /\ Len(a) = IF 1 <= i - 1 THEN i - 1 - 1 + 1 ELSE 0
        /\ \A j \in 1 .. i - 1 - 1 + 1 : a[j] = w[1 + j - 1]
    BY <1>2, <1>3, <2>1, SubSeqProperties
  <2>3. \A j \in 1 .. i - 1 : j \in 1 .. i - 1 - 1 + 1 /\ 1 + j - 1 = j
    BY <1>2
  <2>4. Len(a) = i - 1
    BY <1>2, <2>2
  <2>5. \A j \in 1 .. i - 1 : a[j] = w[j]
    BY <2>2, <2>3
  <2> QED BY <2>2, <2>4, <2>5
<1>6. b \in Seq(S) /\ Len(b) = len - i /\ \A j \in 1 .. len - i : b[j] = w[i + j]
  <2>1. \A j \in i + 1 .. len : w[j] \in S
    BY <1>2
  <2>2. /\ b \in Seq(S) /\ Len(b) = IF i + 1 <= len THEN len - (i + 1) + 1 ELSE 0
        /\ \A j \in 1 .. len - (i + 1) + 1 : b[j] = w[i + 1 + j - 1]
    BY <1>2, <1>3, <2>1, SubSeqProperties
  <2>3. \A j \in 1 .. len - i : j \in 1 .. len - (i + 1) + 1 /\ i + 1 + j - 1 = i + j
    BY <1>2
  <2>4. Len(b) = len - i
    BY <1>2, <2>2
  <2>5. \A j \in 1 .. len - i : b[j] = w[i + j]
    BY <2>2, <2>3
  <2> QED BY <2>2, <2>4, <2>5
<1>7. /\ v \in Seq(S) /\ Len(v) = len - 1
      /\ \A j \in 1 .. len - 1 : v[j] = IF j < i THEN w[j] ELSE w[j + 1]
  <2>1. /\ v \in Seq(S) /\ Len(v) = i - 1 + (len - i)
        /\ \A j \in 1 .. i - 1 + (len - i) : v[j] = IF j <= i - 1 THEN a[j] ELSE b[j - (i - 1)]
    BY <1>4, <1>5, <1>6, ConcatProperties
  <2>2. i - 1 + (len - i) = len - 1
    BY <1>2
  <2>3. ASSUME NEW j \in 1 .. len - 1, j < i PROVE v[j] = w[j]
    <3>1. j \in 1 .. i - 1 /\ j <= i - 1
      BY <1>2, <2>3
    <3> QED BY <1>5, <2>1, <2>2, <3>1
  <2>4. ASSUME NEW j \in 1 .. len - 1, ~(j < i) PROVE v[j] = w[j + 1]
    <3>1. j - (i - 1) \in 1 .. len - i /\ ~(j <= i - 1) /\ i + (j - (i - 1)) = j + 1
      BY <1>2, <2>4
    <3>2. b[j - (i - 1)] = w[j + 1]
      BY <1>6, <3>1
    <3> QED BY <2>1, <2>2, <3>1, <3>2
  <2> QED BY <2>1, <2>2, <2>3, <2>4
<1>8. DOMAIN v = 1 .. len - 1
  BY <1>7
<1> HIDE <1>1, <1>3
<1>9. PICK e : e = [j \in 1 .. len - 1 |-> IF j < i THEN j ELSE j + 1]
  OBVIOUS
<1>10. /\ \A j \in 1 .. len - 1 : e[j] \in 1 .. len /\ e[j] # i /\ v[j] = w[e[j]]
       /\ \A j, k \in 1 .. len - 1 : e[j] = e[k] => j = k
  BY <1>2, <1>7, <1>9
<1>11. \A k \in 1 .. len : k # i => \E j \in 1 .. len - 1 : e[j] = k
  <2>1. ASSUME NEW k \in 1 .. len, k < i PROVE \E j \in 1 .. len - 1 : e[j] = k
    <3>1. k \in 1 .. len - 1 /\ e[k] = k
      BY <1>2, <1>9, <2>1
    <3> QED BY <3>1
  <2>2. ASSUME NEW k \in 1 .. len, k > i PROVE \E j \in 1 .. len - 1 : e[j] = k
    <3>1. k - 1 \in 1 .. len - 1 /\ e[k - 1] = k
      BY <1>2, <1>9, <2>2
    <3> QED BY <3>1
  <2> QED BY <1>2, <2>1, <2>2
<1>12. \A j, k \in 1 .. len : w[j] = w[k] => j = k
  BY <1>2 DEF IsInjective
<1>13. IsInjective(v)
  BY <1>8, <1>10, <1>12 DEF IsInjective
<1>14. Range(v) = Range(w) \ {w[i]}
  <2>1. ASSUME NEW x \in Range(v) PROVE x \in Range(w) /\ x # w[i]
    <3>1. PICK j \in 1 .. len - 1 : x = w[e[j]]
      BY <1>8, <1>10 DEF Range
    <3> QED BY <1>2, <1>10, <1>12, <3>1 DEF Range
  <2>2. ASSUME NEW x \in Range(w), x # w[i] PROVE x \in Range(v)
    <3>1. PICK k \in 1 .. len : x = w[k]
      BY <1>2 DEF Range
    <3>2. PICK j \in 1 .. len - 1 : e[j] = k
      BY <1>11, <2>2, <3>1
    <3> QED BY <1>8, <1>10, <3>1, <3>2 DEF Range
  <2> QED BY <2>1, <2>2
<1> QED BY <1>3, <1>7, <1>13, <1>14
\* cancel: a task that waits leaves the queue, one that holds a slot gives it up.
LEMMA CancelledOK ==
    ASSUME NEW q, Pumped(q), NEW t \in Task
    PROVE  Pumped(Cancelled(t, q)) /\ Follows(q, Cancelled(t, q))
<1>0. q \in AiState /\ Consistent(q)
  BY DEF Pumped, Consistent
<1>1. CASE t \in Range(q.waiting)
  <2>1. q.status[t] = "queued" /\ t \notin q.slots /\ q.status[t] \notin Final
    BY <1>0, <1>1 DEF Consistent, Final
  <2>2. PICK i : i = CHOOSE k \in DOMAIN q.waiting : q.waiting[k] = t
    OBVIOUS
  <2>3. i \in DOMAIN q.waiting /\ q.waiting[i] = t
    BY <1>1, <2>2 DEF Range
  <2>4. PICK v : v = RemoveAt(q.waiting, i)
    OBVIOUS
  <2>5. q.waiting \in Seq(Task) /\ IsInjective(q.waiting)
    BY <1>0, StateParts DEF Consistent
  <2>6. v \in Seq(Task) /\ IsInjective(v) /\ Range(v) = Range(q.waiting) \ {t}
    BY <2>3, <2>4, <2>5, RemovedAt
  <2>7. PICK r : r = [q EXCEPT !.waiting = v]
    OBVIOUS
  <2>8. Cancelled(t, q) = Settle(r, t, "cancelled")
    BY <1>0, <1>1, <2>2, <2>4, <2>7 DEF Cancelled, AiState
  <2>9. r = [waiting |-> v, slots |-> q.slots, running |-> q.running, status |-> q.status]
    BY <1>0, <2>7 DEF AiState
  <2> HIDE <2>2, <2>4, <2>7
  <2>10. PICK p : p = Cancelled(t, q)
    OBVIOUS
  <2>11. p = [r EXCEPT !.status[t] = "cancelled"]
    BY <2>1, <2>8, <2>9, <2>10 DEF Settle
  <2>12. p = [waiting |-> v, slots |-> q.slots, running |-> q.running,
              status |-> [q.status EXCEPT ![t] = "cancelled"]]
    BY <2>9, <2>11
  <2>13. /\ p.waiting = v /\ p.slots = q.slots /\ p.running = q.running
         /\ p.status = [q.status EXCEPT ![t] = "cancelled"]
    BY <2>12
  <2>14. /\ p.status \in [Task -> {"none", "queued", "running"} \cup Final]
         /\ p.status[t] = "cancelled" /\ \A u \in Task \ {t} : p.status[u] = q.status[u]
    <3>1. q.status \in [Task -> {"none", "queued", "running"} \cup Final]
      BY <1>0, StateParts
    <3>2. "cancelled" \in Final
      BY DEF Final
    <3> QED BY <2>13, <3>1, <3>2
  <2>15. p \in AiState
    <3>1. q.slots \subseteq Task /\ q.running \in Nat
      BY <1>0, StateParts
    <3>2. p = [waiting |-> v, slots |-> q.slots, running |-> q.running, status |-> p.status]
      BY <2>12, <2>13
    <3> QED BY <2>6, <2>14, <3>1, <3>2 DEF AiState
  <2>16. p.slots = {u \in Task : p.status[u] = "running"}
    BY <1>0, <2>1, <2>13, <2>14 DEF Consistent
  <2>17. Range(p.waiting) = {u \in Task : p.status[u] = "queued"}
    BY <1>0, <2>1, <2>6, <2>13, <2>14 DEF Consistent
  <2>18. Consistent(p)
    BY <1>0, <2>6, <2>13, <2>15, <2>16, <2>17 DEF Consistent
  <2>19. q.waiting # <<>>
    BY <2>3
  <2>20. Pumped(p)
    BY <2>13, <2>18, <2>19 DEF Pumped
  <2>21. Follows(q, p)
    BY <2>1, <2>14 DEF Follows
  <2> QED BY <2>10, <2>20, <2>21
<1>2. CASE t \notin Range(q.waiting) /\ t \in q.slots
  <2>1. q.status[t] = "running" /\ "cancelled" \in Final
    BY <1>0, <1>2 DEF Consistent, Final
  <2>2. Cancelled(t, q) = Settle(q, t, "cancelled")
    BY <1>2 DEF Cancelled
  <2> QED BY <2>1, <2>2, SettleOK
<1>3. CASE t \notin Range(q.waiting) /\ t \notin q.slots
  <2>1. Cancelled(t, q) = q
    BY <1>3 DEF Cancelled
  <2> QED BY <2>1 DEF Follows
<1> QED BY <1>1, <1>2, <1>3

\* cancelAll cancels the tasks of a set one after the other.
CancelStep(f, q, s) ==
    IF s = {} THEN q ELSE Cancelled(CHOOSE t \in s : TRUE, f[s \ {CHOOSE t \in s : TRUE}])

\* The recursion defines a function: for a least number of tasks for which there were
\* none, the one for a task less could be extended.
LEMMA CancelsExist ==
    ASSUME NEW q, NEW S, IsFiniteSet(S)
    PROVE  \E f : f = [s \in SUBSET S |-> CancelStep(f, q, s)]
<1> DEFINE Upto(n) == {s \in SUBSET S : Cardinality(s) <= n}
           Defined(n) == \E f : f = [s \in Upto(n) |-> CancelStep(f, q, s)]
           T == {n \in Nat : ~ Defined(n)}
<1>0. \A s \in SUBSET S : IsFiniteSet(s) /\ Cardinality(s) \in Nat
                          /\ Cardinality(s) <= Cardinality(S) /\ (Cardinality(s) = 0 <=> s = {})
  BY FS_Subset, FS_CardinalityType, FS_EmptySet
<1>1. ASSUME NEW f, NEW g, NEW s, s # {},
             f[s \ {CHOOSE t \in s : TRUE}] = g[s \ {CHOOSE t \in s : TRUE}]
      PROVE  CancelStep(f, q, s) = CancelStep(g, q, s)
  BY <1>1 DEF CancelStep
<1>2. Defined(0)
  <2> DEFINE f == [s \in Upto(0) |-> q]
  <2>1. \A s \in Upto(0) : s = {}
    BY <1>0
  <2>2. \A s \in Upto(0) : CancelStep(f, q, s) = q
    BY <2>1 DEF CancelStep
  <2>3. f = [s \in Upto(0) |-> CancelStep(f, q, s)]
    <3>1. f = [s \in Upto(0) |-> q]
      OBVIOUS
    <3> HIDE DEF f, Upto
    <3> QED BY <2>2, <3>1
  <2> QED BY <2>3
<1>3. ASSUME NEW n \in Nat, Defined(n) PROVE Defined(n + 1)
  <2>1. PICK f : f = [s \in Upto(n) |-> CancelStep(f, q, s)]
    BY <1>3
  <2> DEFINE g == [s \in Upto(n + 1) |-> IF s \in Upto(n) THEN f[s] ELSE CancelStep(f, q, s)]
  <2>2. \A s \in Upto(n) : s \in Upto(n + 1)
    BY <1>0
  <2>3. \A s \in Upto(n) : f[s] = g[s]
    <3> HIDE DEF Upto
    <3> QED BY <2>2
  <2>4. \A s \in Upto(n + 1) : s \notin Upto(n) => g[s] = CancelStep(f, q, s)
    <3> HIDE DEF Upto
    <3> QED OBVIOUS
  <2>5. g = [s \in Upto(n + 1) |-> g[s]]
    OBVIOUS
  <2>6. ASSUME NEW s \in Upto(n + 1), s # {}
        PROVE  s \ {CHOOSE t \in s : TRUE} \in Upto(n)
    <3>1. PICK t : t = CHOOSE u \in s : TRUE
      OBVIOUS
    <3>2. t \in s
      BY <2>6, <3>1
    <3>3. s \in SUBSET S /\ Cardinality(s) <= n + 1
      OBVIOUS
    <3>4. Cardinality(s \ {t}) = Cardinality(s) - 1 /\ s \ {t} \in SUBSET S
      BY <1>0, <3>2, <3>3, FS_RemoveElement
    <3>5. Cardinality(s \ {t}) <= n
      BY <1>0, <3>3, <3>4
    <3> QED BY <3>1, <3>4, <3>5
  <2>7. \A s \in Upto(n) : f[s] = CancelStep(f, q, s)
    <3> HIDE DEF Upto
    <3> QED BY <2>1
  <2> HIDE DEF g, Upto
  <2>8. ASSUME NEW s \in Upto(n + 1) PROVE g[s] = CancelStep(g, q, s)
    <3>1. CancelStep(f, q, s) = CancelStep(g, q, s)
      <4>1. CASE s = {}
        BY <4>1 DEF CancelStep
      <4>2. CASE s # {}
        BY <1>1, <2>3, <2>6, <4>2
      <4> QED BY <4>1, <4>2
    <3>2. g[s] = CancelStep(f, q, s)
      BY <2>3, <2>4, <2>7
    <3> QED BY <3>1, <3>2
  <2>9. g = [s \in Upto(n + 1) |-> CancelStep(g, q, s)]
    BY <2>5, <2>8
  <2> QED BY <2>9
<1> HIDE DEF Defined
<1>4. T = {}
  <2> SUFFICES ASSUME T # {} PROVE FALSE
    OBVIOUS
  <2>1. PICK n \in T : \A m \in T : n <= m
    BY LeastNumber
  <2>2. n # 0 /\ n \in Nat /\ n - 1 \in Nat
    BY <1>2, <2>1
  <2>3. Defined(n - 1)
    BY <2>1, <2>2
  <2>4. Defined(n)
    BY <1>3, <2>2, <2>3
  <2> QED BY <2>1, <2>4
<1>5. Defined(Cardinality(S))
  BY <1>4, FS_CardinalityType
<1>6. Upto(Cardinality(S)) = SUBSET S
  BY <1>0
<1> HIDE DEF Upto
<1> QED BY <1>5, <1>6 DEF Defined

\* Whatever set of tasks is cancelled, the queue stays consistent and pumped.
LEMMA CancelsOK ==
    ASSUME NEW q, Pumped(q), NEW S, S \subseteq Task, IsFiniteSet(S)
    PROVE  Pumped(FoldSet(Cancelled, q, S)) /\ Follows(q, FoldSet(Cancelled, q, S))
<1>1. PICK f : /\ f = [s \in SUBSET S |-> CancelStep(f, q, s)]
               /\ FoldSet(Cancelled, q, S) = f[S]
  <2>1. FoldSet(Cancelled, q, S) = (CHOOSE f : f = [s \in SUBSET S |-> CancelStep(f, q, s)])[S]
    BY DEF FoldSet, MapThenFoldSet, CancelStep
  <2>2. \E f : f = [s \in SUBSET S |-> CancelStep(f, q, s)]
    BY CancelsExist
  <2>3. PICK g : g = CHOOSE f : f = [s \in SUBSET S |-> CancelStep(f, q, s)]
    OBVIOUS
  <2>4. g = [s \in SUBSET S |-> CancelStep(g, q, s)]
    BY <2>2, <2>3, Zenon
  <2>5. FoldSet(Cancelled, q, S) = g[S]
    BY <2>1, <2>3, Zenon
  <2> QED BY <2>4, <2>5
<1> DEFINE OK(n) == \A s \in SUBSET S : Cardinality(s) = n => Pumped(f[s]) /\ Follows(q, f[s])
           T == {n \in Nat : ~ OK(n)}
<1>2. \A s \in SUBSET S : IsFiniteSet(s) /\ Cardinality(s) \in Nat /\ (Cardinality(s) = 0 <=> s = {})
  BY FS_Subset, FS_CardinalityType, FS_EmptySet
<1>3. \A s \in SUBSET S : f[s] = CancelStep(f, q, s)
  BY <1>1
<1>4. OK(0)
  <2>1. f[{}] = q
    BY <1>3 DEF CancelStep
  <2>2. Follows(q, q)
    BY DEF Follows
  <2> QED BY <1>2, <2>1, <2>2
<1>5. ASSUME NEW n \in Nat, OK(n) PROVE OK(n + 1)
  <2>1. ASSUME NEW s \in SUBSET S, Cardinality(s) = n + 1
        PROVE  Pumped(f[s]) /\ Follows(q, f[s])
    <3>1. s # {} /\ IsFiniteSet(s)
      BY <1>2, <2>1
    <3>2. PICK t : t = CHOOSE u \in s : TRUE
      OBVIOUS
    <3>3. t \in s /\ t \in Task
      BY <3>1, <3>2
    <3>4. f[s] = Cancelled(t, f[s \ {t}])
      BY <1>3, <3>1, <3>2 DEF CancelStep
    <3> HIDE <3>2
    <3>5. s \ {t} \in SUBSET S /\ Cardinality(s \ {t}) = n
      <4>1. Cardinality(s \ {t}) = Cardinality(s) - 1
        BY <3>1, <3>3, FS_RemoveElement
      <4> QED BY <2>1, <4>1
    <3>6. Pumped(f[s \ {t}]) /\ Follows(q, f[s \ {t}])
      BY <1>5, <3>5
    <3>7. PICK r : r = f[s \ {t}]
      OBVIOUS
    <3>8. Pumped(Cancelled(t, r)) /\ Follows(r, Cancelled(t, r)) /\ Follows(q, r)
      BY <3>3, <3>6, <3>7, CancelledOK
    <3>9. Follows(q, Cancelled(t, r))
      BY <3>8, FollowsOn
    <3> QED BY <3>4, <3>7, <3>8, <3>9
  <2> QED BY <2>1
<1> HIDE DEF OK
<1>6. T = {}
  <2> SUFFICES ASSUME T # {} PROVE FALSE
    OBVIOUS
  <2>1. PICK n \in T : \A m \in T : n <= m
    BY LeastNumber
  <2>2. n # 0 /\ n \in Nat /\ n - 1 \in Nat
    BY <1>4, <2>1
  <2>3. OK(n - 1)
    BY <2>1, <2>2
  <2>4. OK(n)
    BY <1>5, <2>2, <2>3
  <2> QED BY <2>1, <2>4
<1>7. OK(Cardinality(S))
  BY <1>6, FS_CardinalityType
<1> QED BY <1>1, <1>7 DEF OK
LEMMA AiInvInit ==
    ASSUME AiInit
    PROVE  AiInv
<1>1. PICK q : q = AiNow
  OBVIOUS
<1>2. q = [waiting |-> <<>>, slots |-> {}, running |-> 0, status |-> [t \in Task |-> "none"]]
  BY <1>1 DEF AiNow, AiInit
<1>3. q.waiting = <<>> /\ q.slots = {} /\ q.running = 0 /\ q.status = [t \in Task |-> "none"]
  BY <1>2
<1>4. q \in AiState
  <2>1. [t \in Task |-> "none"] \in [Task -> {"none", "queued", "running"} \cup Final]
    OBVIOUS
  <2>2. <<>> \in Seq(Task) /\ 0 \in Nat /\ {} \in SUBSET Task
    OBVIOUS
  <2> QED BY <1>2, <2>1, <2>2 DEF AiState
<1>5. IsFiniteSet(q.slots) /\ q.running = Cardinality(q.slots) /\ q.running <= Concurrency
  BY <1>3, FS_EmptySet, AiAssumption
<1>6. q.slots = {t \in Task : q.status[t] = "running"}
  BY <1>3
<1>7. Range(q.waiting) = {t \in Task : q.status[t] = "queued"} /\ IsInjective(q.waiting)
  <2>1. DOMAIN q.waiting = {}
    BY <1>3
  <2> QED BY <1>3, <2>1 DEF Range, IsInjective
<1>8. Pumped(AiNow)
  BY <1>1, <1>3, <1>4, <1>5, <1>6, <1>7 DEF Pumped, Consistent
<1> QED BY <1>8 DEF AiInv, AiInit

\* A transition of the queue to a pumped state keeps the invariant, whatever runners it
\* starts; the one that has just ended belongs to a task that is settled.
LEMMA AiMoves ==
    ASSUME AiInv, NEW q, Pumped(q), Follows(AiNow, q), NEW ended,
           waiting' = q.waiting, slots' = q.slots, running' = q.running, status' = q.status,
           runners' = (runners \cup (q.slots \ slots)) \ ended,
           \A t \in Task \cap ended : q.status[t] \in Final
    PROVE  AiInv'
<1>1. AiNow' = [waiting |-> q.waiting, slots |-> q.slots, running |-> q.running,
                status |-> q.status]
  BY DEF AiNow
<1>2. AiNow' = q
  BY <1>1, StateParts DEF Pumped, Consistent
<1>3. Pumped(AiNow')
  BY <1>2
<1>4. /\ q.slots = {t \in Task : q.status[t] = "running"}
      /\ \A t \in Task : status[t] \in Final \cup {"running"} =>
                            q.status[t] \in Final \cup {"running"}
  BY DEF Pumped, Consistent, Follows, AiNow
<1>5. slots \subseteq runners /\ runners \subseteq {t \in Task : status[t] \in Final \cup {"running"}}
  BY DEF AiInv
<1>6. slots' \subseteq runners'
  BY <1>4, <1>5 DEF Final
<1>7. runners' \subseteq {t \in Task : status'[t] \in Final \cup {"running"}}
  BY <1>4, <1>5
<1> QED BY <1>3, <1>6, <1>7 DEF AiInv, Pumped, Consistent, AiNow, AiState

LEMMA AiSetMoves ==
    ASSUME AiInv, NEW q, Pumped(q), Follows(AiNow, q), AiSet(q)
    PROVE  AiInv'
<1>1. PICK none : none = {}
  OBVIOUS
<1>2. /\ waiting' = q.waiting /\ slots' = q.slots /\ running' = q.running /\ status' = q.status
      /\ runners' = (runners \cup (q.slots \ slots)) \ none
      /\ \A t \in Task \cap none : q.status[t] \in Final
  BY <1>1 DEF AiSet
<1> HIDE <1>1
<1> QED BY <1>2, AiMoves

LEMMA StepEnqueue ==
    ASSUME AiInv, NEW t \in Task, Enqueue(t)
    PROVE  \E q : Pumped(q) /\ Follows(AiNow, q) /\ AiSet(q)
<1>1. PICK q, r : q = AiNow /\ r = [AiNow EXCEPT !.waiting = Append(@, t), !.status[t] = "queued"]
  OBVIOUS
<1>2. AiSet(Pump(r)) /\ q.status[t] = "none"
  BY <1>1 DEF Enqueue, AiNow
<1>3. Consistent(q) /\ q \in AiState
  BY <1>1 DEF AiInv, Pumped, Consistent
<1>4. r = [waiting |-> Append(q.waiting, t), slots |-> q.slots, running |-> q.running,
           status |-> [q.status EXCEPT ![t] = "queued"]]
  BY <1>1 DEF AiNow
<1> HIDE <1>1
<1>5. /\ r.waiting = Append(q.waiting, t) /\ r.slots = q.slots /\ r.running = q.running
      /\ r.status = [q.status EXCEPT ![t] = "queued"]
  BY <1>4
<1>6. PICK w, v, len : w = q.waiting /\ v = Append(w, t) /\ len = Len(w)
  OBVIOUS
<1>7. w \in Seq(Task) /\ IsInjective(w) /\ Range(w) = {u \in Task : q.status[u] = "queued"}
  BY <1>3, <1>6, StateParts DEF Consistent
<1>8. /\ len \in Nat /\ DOMAIN w = 1 .. len /\ v \in Seq(Task) /\ DOMAIN v = 1 .. len + 1
      /\ v[len + 1] = t /\ \A i \in 1 .. len : v[i] = w[i]
  BY <1>6, <1>7
<1>9. r.waiting = v
  BY <1>5, <1>6
<1> HIDE <1>6
<1>10. t \notin Range(w)
  BY <1>2, <1>7
<1>11. Range(v) = Range(w) \cup {t}
  <2>1. \A i \in 1 .. len + 1 : i \in 1 .. len \/ i = len + 1
    BY <1>8
  <2>2. len + 1 \in 1 .. len + 1 /\ \A i \in 1 .. len : i \in 1 .. len + 1
    BY <1>8
  <2> QED BY <1>8, <2>1, <2>2 DEF Range
<1>12. IsInjective(v)
  <2>1. ASSUME NEW i \in 1 .. len + 1, NEW j \in 1 .. len + 1, v[i] = v[j]
        PROVE  i = j
    <3>1. \A k \in 1 .. len : v[k] # t
      BY <1>8, <1>10 DEF Range
    <3>2. CASE i = len + 1 \/ j = len + 1
      BY <1>8, <2>1, <3>1, <3>2
    <3>3. CASE i \in 1 .. len /\ j \in 1 .. len
      BY <1>7, <1>8, <2>1, <3>3 DEF IsInjective
    <3> QED BY <1>8, <3>2, <3>3
  <2> QED BY <1>8, <2>1 DEF IsInjective
<1>13. /\ r.status \in [Task -> {"none", "queued", "running"} \cup Final]
       /\ r.status[t] = "queued" /\ \A u \in Task \ {t} : r.status[u] = q.status[u]
  BY <1>3, <1>5, StateParts
<1>14. r \in AiState
  <2>1. q.slots \subseteq Task /\ q.running \in Nat
    BY <1>3, StateParts
  <2>2. r = [waiting |-> v, slots |-> q.slots, running |-> q.running, status |-> r.status]
    BY <1>4, <1>5, <1>9
  <2> QED BY <1>8, <1>13, <2>1, <2>2 DEF AiState
<1>15. r.slots = {u \in Task : r.status[u] = "running"}
  BY <1>2, <1>3, <1>5, <1>13 DEF Consistent
<1>16. Range(r.waiting) = {u \in Task : r.status[u] = "queued"}
  BY <1>7, <1>9, <1>11, <1>13
<1>17. Consistent(r)
  BY <1>3, <1>5, <1>9, <1>12, <1>14, <1>15, <1>16 DEF Consistent
<1>18. Pumped(Pump(r)) /\ Follows(r, Pump(r))
  BY <1>17, PumpFills
<1>19. Follows(q, r)
  BY <1>2, <1>13 DEF Follows, Final
<1>20. Follows(q, Pump(r))
  BY <1>18, <1>19, FollowsOn
<1> QED BY <1>1, <1>2, <1>18, <1>20

LEMMA StepCancelAll ==
    ASSUME AiInv, CancelAll
    PROVE  \E q : Pumped(q) /\ Follows(AiNow, q) /\ AiSet(q)
<1>1. PICK q, d, e : /\ q = AiNow /\ d = FoldSet(Cancelled, AiNow, Range(waiting))
                     /\ e = FoldSet(Cancelled, d, d.slots)
  OBVIOUS
<1>2. AiSet(e)
  BY <1>1 DEF CancelAll
<1>3. Pumped(q) /\ q.waiting = waiting /\ d = FoldSet(Cancelled, q, Range(waiting))
  BY <1>1 DEF AiInv, AiNow
<1>4. Range(waiting) \subseteq Task /\ IsFiniteSet(Range(waiting))
  <2>1. waiting \in Seq(Task) /\ IsInjective(waiting)
    BY <1>3, StateParts DEF Pumped, Consistent
  <2>2. PICK n \in Nat : n = Len(waiting) /\ DOMAIN waiting = 1 .. n
    BY <2>1
  <2>3. waiting \in Bijection(1 .. n, Range(waiting))
    <3>1. waiting \in [1 .. n -> Range(waiting)]
      BY <2>1, <2>2 DEF Range
    <3>2. /\ \A x \in Range(waiting) : \E i \in 1 .. n : waiting[i] = x
          /\ \A i, j \in 1 .. n : waiting[i] = waiting[j] => i = j
      BY <2>1, <2>2 DEF Range, IsInjective
    <3> QED BY <3>1, <3>2 DEF Bijection, Injection, Surjection, IsInjective
  <2>4. IsFiniteSet(1 .. n)
    BY FS_Interval
  <2>5. IsFiniteSet(Range(waiting))
    BY <2>3, <2>4, FS_Bijection DEF ExistsBijection
  <2>6. Range(waiting) \subseteq Task
    BY <2>1 DEF Range
  <2> QED BY <2>5, <2>6
<1>5. Pumped(d) /\ Follows(q, d)
  BY <1>3, <1>4, CancelsOK
<1>6. d.slots \subseteq Task /\ IsFiniteSet(d.slots)
  BY <1>5, StateParts DEF Pumped, Consistent
<1>7. Pumped(e) /\ Follows(d, e)
  BY <1>1, <1>5, <1>6, CancelsOK
<1>8. Follows(q, e)
  BY <1>5, <1>7, FollowsOn
<1> QED BY <1>1, <1>2, <1>7, <1>8

LEMMA StepRunnerEnds ==
    ASSUME AiInv, NEW t \in Task, NEW ok \in BOOLEAN, RunnerEnds(t, ok)
    PROVE  \E q : /\ Pumped(q) /\ Follows(AiNow, q) /\ q.status[t] \in Final
                  /\ waiting' = q.waiting /\ slots' = q.slots
                  /\ running' = q.running /\ status' = q.status
                  /\ runners' = (runners \cup (q.slots \ slots)) \ {t}
<1>1. PICK s : s = IF ok THEN "done" ELSE IF t \in aborted THEN "cancelled" ELSE "error"
  OBVIOUS
<1>2. s \in Final
  BY <1>1 DEF Final
<1>3. PICK q, p : q = AiNow /\ p = Settle(AiNow, t, s)
  OBVIOUS
<1>4. /\ waiting' = p.waiting /\ slots' = p.slots /\ running' = p.running /\ status' = p.status
      /\ runners' = (runners \cup (p.slots \ slots)) \ {t}
  BY <1>1, <1>3 DEF RunnerEnds
<1>5. Pumped(q) /\ q.status[t] \in Final \cup {"running"} /\ p = Settle(q, t, s)
  BY <1>3 DEF AiInv, AiNow, RunnerEnds
<1>6. Pumped(p) /\ Follows(q, p) /\ p.status[t] \in Final
  BY <1>2, <1>5, SettleOK
<1> QED BY <1>3, <1>4, <1>6

\* Every step of the queue leads to a pumped state that follows from the one before.
LEMMA AiMovesOn ==
    ASSUME AiInv, [AiNext]_aiVars
    PROVE  AiInv' /\ Follows(AiNow, AiNow') /\ runners' \ runners \subseteq slots'
<1>0. Pumped(AiNow) /\ slots \subseteq runners /\ AiNow.slots = slots
  BY DEF AiInv, AiNow
<1>a. ASSUME NEW q, Pumped(q), waiting' = q.waiting, slots' = q.slots, running' = q.running,
             status' = q.status
      PROVE  AiNow' = q
  <2>1. AiNow' = [waiting |-> q.waiting, slots |-> q.slots, running |-> q.running,
                  status |-> q.status]
    BY <1>a DEF AiNow
  <2> QED BY <1>a, <2>1, StateParts DEF Pumped, Consistent
<1>b. ASSUME NEW q, Pumped(q), Follows(AiNow, q), AiSet(q)
      PROVE  AiInv' /\ Follows(AiNow, AiNow') /\ runners' \ runners \subseteq slots'
  <2>1. AiInv'
    BY <1>b, AiSetMoves
  <2>2. AiNow' = q
    BY <1>a, <1>b DEF AiSet
  <2>3. runners' \ runners \subseteq slots'
    BY <1>b DEF AiSet
  <2> QED BY <1>b, <2>1, <2>2, <2>3
<1>1. CASE \E t \in Task : Enqueue(t)
  BY <1>b, <1>1, StepEnqueue
<1>2. ASSUME NEW t \in Task, CancelTask(t)
      PROVE  AiInv' /\ Follows(AiNow, AiNow') /\ runners' \ runners \subseteq slots'
  <2>1. PICK q : q = AiNow
    OBVIOUS
  <2>2. Pumped(Cancelled(t, q)) /\ Follows(q, Cancelled(t, q))
    BY <1>0, <2>1, CancelledOK
  <2>3. AiSet(Cancelled(t, q))
    BY <1>2, <2>1 DEF CancelTask
  <2> QED BY <1>b, <2>1, <2>2, <2>3
<1>3. CASE CancelAll
  BY <1>b, <1>3, StepCancelAll
<1>4. ASSUME NEW t \in Task, NEW ok \in BOOLEAN, RunnerEnds(t, ok)
      PROVE  AiInv' /\ Follows(AiNow, AiNow') /\ runners' \ runners \subseteq slots'
  <2>1. PICK q : /\ Pumped(q) /\ Follows(AiNow, q) /\ q.status[t] \in Final
                 /\ waiting' = q.waiting /\ slots' = q.slots
                 /\ running' = q.running /\ status' = q.status
                 /\ runners' = (runners \cup (q.slots \ slots)) \ {t}
    BY <1>4, StepRunnerEnds
  <2>2. \A u \in Task \cap {t} : q.status[u] \in Final
    BY <2>1
  <2>3. AiInv'
    BY <2>1, <2>2, AiMoves
  <2>4. AiNow' = q
    BY <1>a, <2>1
  <2> QED BY <2>1, <2>3, <2>4
<1>5. CASE UNCHANGED aiVars
  <2>1. UNCHANGED <<waiting, slots, running, status, runners>>
    BY <1>5 DEF aiVars
  <2>2. AiNow' = AiNow
    BY <2>1 DEF AiNow
  <2>3. AiInv'
    BY <2>1 DEF AiInv, AiNow, Pumped, Consistent, AiState
  <2> QED BY <2>1, <2>2, <2>3 DEF Follows
<1> QED BY <1>1, <1>2, <1>3, <1>4, <1>5 DEF AiNext

THEOREM AiInvariant == AiSpec => []AiInv
<1>1. AiInit => AiInv
  BY AiInvInit
<1>2. AiInv /\ [AiNext]_aiVars => AiInv'
  BY AiMovesOn
<1> QED BY <1>1, <1>2, PTL DEF AiSpec

\* The counter, the slots, the queue and the statuses agree after every call, however
\* many tasks there are, and no slot is free while a task waits (queue.ts:122-162).
THEOREM SlotsAgreeHolds == AiSpec => []SlotsAgree
<1>1. AiInv => SlotsAgree
  BY DEF AiInv, Pumped, Consistent, AiNow, SlotsAgree
<1> QED BY <1>1, AiInvariant, PTL

\* A task is settled once, and a settled task starts no runner.
THEOREM SettledOnceHolds == AiSpec => SettledOnce
<1> DEFINE Once == /\ \A t \in Task : status[t] \in Final => status'[t] = status[t]
                   /\ \A t \in runners' \ runners : status[t] \notin Final
<1>1. AiInv /\ [AiNext]_aiVars => Once
  <2> SUFFICES ASSUME AiInv, [AiNext]_aiVars PROVE Once
    OBVIOUS
  <2>1. AiInv' /\ Follows(AiNow, AiNow') /\ runners' \ runners \subseteq slots'
    BY AiMovesOn
  <2>2. \A t \in Task : status[t] \in Final => status'[t] = status[t]
    BY <2>1 DEF Follows, AiNow
  <2>3. slots' \subseteq {t \in Task : status'[t] = "running"}
    BY <2>1 DEF AiInv, Pumped, Consistent, AiNow
  <2>4. \A t \in runners' \ runners : status[t] \notin Final
    BY <2>1, <2>2, <2>3 DEF Final
  <2> QED BY <2>2, <2>4
<1>2. AiInv /\ [AiNext]_aiVars => [Once]_aiVars
  BY <1>1
<1> QED BY <1>2, AiInvariant, PTL DEF AiSpec, SettledOnce

-----------------------------------------------------------------------------
(* Bulk operations.                                                        *)

Note == [content : Content, where : {"live", "trash", "purged"}]

\* What a plan for some notes may ask for.
PlanOK(scoped, plan) ==
    /\ DOMAIN plan.diffs \subseteq DOMAIN scoped /\ \A id \in DOMAIN plan.diffs : plan.diffs[id] \in Content
    /\ plan.added \in Seq(Content)
    /\ Range(plan.removed) \subseteq DOMAIN scoped

LEMMA ContentParts ==
    ASSUME NEW c \in Content
    PROVE  /\ c.title \in Seq(Word) /\ c.body \in Seq(Word) /\ c.tags \in SUBSET STRING
           /\ c = [title |-> c.title, body |-> c.body, tags |-> c.tags]
BY DEF Content

LEMMA ReplacedOK ==
    ASSUME NEW op, op.replace \in Word, NEW c \in Content
    PROVE  Replaced(op, c) \in Content
<1>1. ASSUME NEW text \in Seq(Word) PROVE ReplaceIn(op, text) \in Seq(Word)
  <2>1. PICK n \in Nat : DOMAIN text = 1 .. n /\ n = Len(text)
    OBVIOUS
  <2>2. \A i \in 1 .. n : text[i] \in Word
    BY <2>1
  <2>3. ReplaceIn(op, text) \in [1 .. n -> Word]
    BY <2>1, <2>2 DEF ReplaceIn
  <2> QED BY <2>1, <2>3
<1>2. PICK a, b : a = ReplaceIn(op, c.title) /\ b = ReplaceIn(op, c.body)
  OBVIOUS
<1>3. a \in Seq(Word) /\ b \in Seq(Word)
  BY <1>1, <1>2, ContentParts
<1>4. PICK ti, bo : /\ ti = IF op.scope = "body" THEN c.title ELSE a
                    /\ bo = IF op.scope = "title" THEN c.body ELSE b
  OBVIOUS
<1>5. Replaced(op, c) = [c EXCEPT !.title = ti, !.body = bo]
  BY <1>2, <1>4 DEF Replaced
<1>6. ti \in Seq(Word) /\ bo \in Seq(Word)
  BY <1>3, <1>4, ContentParts
<1> HIDE <1>2, <1>4
<1>7. Replaced(op, c) = [title |-> ti, body |-> bo, tags |-> c.tags]
  BY <1>5, ContentParts
<1> QED BY <1>6, <1>7, ContentParts DEF Content

LEMMA TaggedOK ==
    ASSUME NEW op, op.tag \in STRING, NEW c \in Content,
           op.action \in {"add", "remove", "rename"}, op.action = "rename" => op.newTag \in STRING
    PROVE  Tagged(op, c) \in Content
<1>1. PICK s : s = CASE op.action = "add" -> c.tags \cup {op.tag}
                     [] op.action = "remove" -> c.tags \ {op.tag}
                     [] op.action = "rename" ->
                            IF op.tag \in c.tags THEN (c.tags \ {op.tag}) \cup {op.newTag} ELSE c.tags
  OBVIOUS
<1>2. s \in SUBSET STRING
  BY <1>1, ContentParts
<1>3. Tagged(op, c) = [c EXCEPT !.tags = s]
  BY <1>1 DEF Tagged
<1> HIDE <1>1
<1>4. Tagged(op, c) = [title |-> c.title, body |-> c.body, tags |-> s]
  BY <1>3, ContentParts
<1> QED BY <1>2, <1>4, ContentParts DEF Content

\* A section begins at each heading.
LEMMA SectionsOK ==
    ASSUME NEW text \in Seq(Word)
    PROVE  SplitByHeading(text) \in Seq(Seq(Word))
<1>1. PICK len \in Nat : len = Len(text) /\ DOMAIN text = 1 .. len
  OBVIOUS
<1>2. PICK heads : heads = {i \in DOMAIN text : text[i] = Heading}
  OBVIOUS
<1>3. PICK last : last = Cardinality(heads)
  OBVIOUS
<1>4. heads \subseteq 1 .. len /\ IsFiniteSet(heads) /\ last \in Nat
  <2>1. heads \subseteq 1 .. len
    BY <1>1, <1>2
  <2>2. IsFiniteSet(1 .. len)
    BY FS_Interval
  <2>3. IsFiniteSet(heads)
    BY <2>1, <2>2, FS_Subset
  <2> QED BY <1>3, <2>1, <2>3, FS_CardinalityType
<1> DEFINE Rank(i) == Cardinality({h \in heads : h <= i})
           Nth(k) == CHOOSE i \in heads : Rank(i) = k
<1>5. SplitByHeading(text) =
          [k \in 1 .. last |->
              SubSeq(text, Nth(k) + 1, IF k < last THEN Nth(k + 1) - 1 ELSE Len(text))]
  BY <1>2, <1>3 DEF SplitByHeading
<1> HIDE <1>2, <1>3
<1>6. ASSUME NEW i \in heads, NEW j \in heads, i < j PROVE Rank(i) < Rank(j)
  <2>0. i \in Nat /\ j \in Nat /\ \A h \in heads : h \in Nat
    BY <1>4
  <2>1. {h \in heads : h <= i} \subseteq {h \in heads : h <= j}
    <3>1. \A h \in heads : h <= i => h <= j
      BY <1>6, <2>0
    <3> QED BY <3>1
  <2>2. j \in {h \in heads : h <= j} /\ j \notin {h \in heads : h <= i}
    BY <1>1, <1>4, <1>6
  <2>3. IsFiniteSet({h \in heads : h <= j})
    BY <1>4, FS_Subset
  <2>4. Rank(i) \in Nat /\ Rank(j) \in Nat
    BY <1>4, FS_Subset, FS_CardinalityType
  <2>5. Rank(i) <= Rank(j) /\ Rank(i) # Rank(j)
    BY <2>1, <2>2, <2>3, FS_Subset
  <2> QED BY <2>4, <2>5
<1>7. ASSUME NEW i \in heads PROVE Rank(i) \in 1 .. last
  <2>1. i \in {h \in heads : h <= i} /\ IsFiniteSet({h \in heads : h <= i})
    BY <1>1, <1>4, FS_Subset
  <2>2. Rank(i) \in Nat /\ Rank(i) # 0
    BY <2>1, FS_CardinalityType, FS_EmptySet
  <2>3. Rank(i) <= last
    BY <1>3, <1>4, FS_Subset
  <2> QED BY <1>4, <2>2, <2>3
<1>8. \A k \in 1 .. last : \E i \in heads : Rank(i) = k
  <2>1. PICK g : g = [i \in heads |-> Rank(i)]
    OBVIOUS
  <2>2. DOMAIN g = heads /\ \A i \in heads : g[i] = Rank(i)
    BY <2>1
  <2>3. g \in [heads -> 1 .. last]
    BY <1>7, <2>1
  <2> HIDE DEF Rank
  <2>4. \A i, j \in heads : g[i] = g[j] => i = j
    <3>1. ASSUME NEW i \in heads, NEW j \in heads, Rank(i) = Rank(j) PROVE i = j
      <4>1. ~(i < j) /\ ~(j < i)
        BY <1>4, <1>6, <1>7, <3>1
      <4> QED BY <1>1, <1>4, <4>1
    <3> QED BY <2>2, <3>1
  <2>5. g \in Injection(heads, 1 .. last)
    BY <2>3, <2>4 DEF Injection, IsInjective
  <2>6. IsFiniteSet(1 .. last) /\ Cardinality(1 .. last) = last
    BY <1>4, FS_Interval
  <2>7. g \in Surjection(heads, 1 .. last)
    BY <1>3, <2>5, <2>6, FS_Injection
  <2> QED BY <2>2, <2>7 DEF Surjection
<1>9. \A k \in 1 .. last : Nth(k) \in 1 .. len
  BY <1>4, <1>8
<1> HIDE DEF Nth, Rank
<1>10. ASSUME NEW k \in 1 .. last
       PROVE  SubSeq(text, Nth(k) + 1, IF k < last THEN Nth(k + 1) - 1 ELSE Len(text)) \in Seq(Word)
  <2>1. PICK a, b : a = Nth(k) + 1 /\ b = IF k < last THEN Nth(k + 1) - 1 ELSE Len(text)
    OBVIOUS
  <2>2. k < last => k + 1 \in 1 .. last
    BY <1>4
  <2>3. a \in Int /\ b \in Int /\ a >= 1 /\ b <= len
    BY <1>1, <1>9, <2>1, <2>2
  <2>4. \A i \in a .. b : text[i] \in Word
    BY <1>1, <2>3
  <2>5. SubSeq(text, a, b) \in Seq(Word)
    BY <2>3, <2>4, SubSeqProperties
  <2> QED BY <2>1, <2>5
<1>11. SplitByHeading(text) \in [1 .. last -> Seq(Word)]
  BY <1>5, <1>10
<1> QED BY <1>4, <1>11

LEMMA JoinedOK ==
    ASSUME NEW scoped, \A id \in DOMAIN scoped : scoped[id] \in Content,
           NEW c \in Content, NEW id
    PROVE  Joined(scoped, c, id) \in Content
<1>1. CASE id \notin DOMAIN scoped
  BY <1>1 DEF Joined
<1>2. CASE id \in DOMAIN scoped
  <2>1. PICK d \in Content : d = scoped[id]
    BY <1>2
  <2>2. PICK bo, ta : bo = c.body \o <<Separator>> \o d.body /\ ta = c.tags \cup d.tags
    OBVIOUS
  <2>3. Joined(scoped, c, id) = [c EXCEPT !.body = bo, !.tags = ta]
    BY <1>2, <2>1, <2>2 DEF Joined
  <2>4. bo \in Seq(Word) /\ ta \in SUBSET STRING
    <3>1. <<Separator>> \in Seq(Word)
      BY DEF Word
    <3>2. c.body \in Seq(Word) /\ d.body \in Seq(Word)
      BY ContentParts
    <3>3. c.body \o <<Separator>> \in Seq(Word)
      BY <3>1, <3>2
    <3>4. bo \in Seq(Word)
      BY <2>2, <3>2, <3>3
    <3>5. ta \in SUBSET STRING
      BY <2>2, ContentParts
    <3> QED BY <3>4, <3>5
  <2> HIDE <2>2
  <2>5. Joined(scoped, c, id) = [title |-> c.title, body |-> bo, tags |-> ta]
    BY <2>3, ContentParts
  <2> QED BY <2>4, <2>5, ContentParts DEF Content
<1> QED BY <1>1, <1>2

\* A merge joins its sources to the target, from the first to the last.
JoinStep(f, scoped, b, w, s) ==
    IF s = {} THEN b ELSE Joined(scoped, f[s \ {Max(s)}], w[Max(s)])

LEMMA MaxOK ==
    ASSUME NEW n \in Nat, NEW s, s \subseteq 1 .. n, s # {}
    PROVE  Max(s) \in s
<1> DEFINE T == {n - k : k \in s}
<1>1. T \subseteq Nat /\ T # {}
  <2>1. \A k \in s : k \in Nat /\ n - k \in Nat
    OBVIOUS
  <2> QED BY <2>1
<1>2. PICK m \in T : \A k \in T : m <= k
  <2> HIDE DEF T
  <2> QED BY <1>1, LeastNumber
<1>3. PICK x \in s : m = n - x
  BY <1>2
<1>4. \A y \in s : x >= y
  <2>1. ASSUME NEW y \in s PROVE x >= y
    <3>1. n - x <= n - y /\ x \in Nat /\ y \in Nat
      BY <1>2, <1>3
    <3> QED BY <3>1
  <2> QED BY <2>1
<1> QED BY <1>4 DEF Max

Joins(f, scoped, b, w, S) == f = [s \in SUBSET S |-> JoinStep(f, scoped, b, w, s)]

LEMMA JoinsExist ==
    ASSUME NEW scoped, NEW b, NEW w, NEW len \in Nat, NEW S, S = 1 .. len
    PROVE  \E f : Joins(f, scoped, b, w, S)
<1> DEFINE Upto(n) == {s \in SUBSET S : Cardinality(s) <= n}
           Defined(n) == \E f : f = [s \in Upto(n) |-> JoinStep(f, scoped, b, w, s)]
           T == {n \in Nat : ~ Defined(n)}
<1>f. IsFiniteSet(S)
  BY FS_Interval
<1>m. \A s \in SUBSET S : s # {} => Max(s) \in s
  BY MaxOK
<1>0. \A s \in SUBSET S : IsFiniteSet(s) /\ Cardinality(s) \in Nat
                          /\ Cardinality(s) <= Cardinality(S) /\ (Cardinality(s) = 0 <=> s = {})
  BY <1>f, FS_Subset, FS_CardinalityType, FS_EmptySet
<1>1. ASSUME NEW f, NEW g, NEW s, s # {}, f[s \ {Max(s)}] = g[s \ {Max(s)}]
      PROVE  JoinStep(f, scoped, b, w, s) = JoinStep(g, scoped, b, w, s)
  BY <1>1 DEF JoinStep
<1>2. Defined(0)
  <2> DEFINE f == [s \in Upto(0) |-> b]
  <2>1. \A s \in Upto(0) : s = {}
    BY <1>0
  <2>2. \A s \in Upto(0) : JoinStep(f, scoped, b, w, s) = b
    BY <2>1 DEF JoinStep
  <2>3. f = [s \in Upto(0) |-> JoinStep(f, scoped, b, w, s)]
    <3>1. f = [s \in Upto(0) |-> b]
      OBVIOUS
    <3> HIDE DEF f, Upto
    <3> QED BY <2>2, <3>1
  <2> QED BY <2>3
<1>3. ASSUME NEW n \in Nat, Defined(n) PROVE Defined(n + 1)
  <2>1. PICK f : f = [s \in Upto(n) |-> JoinStep(f, scoped, b, w, s)]
    BY <1>3
  <2> DEFINE g == [s \in Upto(n + 1) |-> IF s \in Upto(n) THEN f[s]
                                          ELSE JoinStep(f, scoped, b, w, s)]
  <2>2. \A s \in Upto(n) : s \in Upto(n + 1)
    BY <1>0
  <2>3. \A s \in Upto(n) : f[s] = g[s]
    <3> HIDE DEF Upto
    <3> QED BY <2>2
  <2>4. \A s \in Upto(n + 1) : s \notin Upto(n) => g[s] = JoinStep(f, scoped, b, w, s)
    <3> HIDE DEF Upto
    <3> QED OBVIOUS
  <2>5. g = [s \in Upto(n + 1) |-> g[s]]
    OBVIOUS
  <2>6. ASSUME NEW s \in Upto(n + 1), s # {}
        PROVE  s \ {Max(s)} \in Upto(n)
    <3>1. PICK m : m = Max(s)
      OBVIOUS
    <3>2. s \in SUBSET S /\ Cardinality(s) <= n + 1
      OBVIOUS
    <3>3. m \in s
      BY <1>m, <2>6, <3>1, <3>2
    <3>4. Cardinality(s \ {m}) = Cardinality(s) - 1 /\ s \ {m} \in SUBSET S
      BY <1>0, <3>2, <3>3, FS_RemoveElement
    <3>5. Cardinality(s \ {m}) <= n
      BY <1>0, <3>2, <3>4
    <3> QED BY <3>1, <3>4, <3>5
  <2>7. \A s \in Upto(n) : f[s] = JoinStep(f, scoped, b, w, s)
    <3> HIDE DEF Upto
    <3> QED BY <2>1
  <2> HIDE DEF g, Upto
  <2>8. ASSUME NEW s \in Upto(n + 1) PROVE g[s] = JoinStep(g, scoped, b, w, s)
    <3>1. JoinStep(f, scoped, b, w, s) = JoinStep(g, scoped, b, w, s)
      <4>1. CASE s = {}
        BY <4>1 DEF JoinStep
      <4>2. CASE s # {}
        BY <1>1, <2>3, <2>6, <4>2
      <4> QED BY <4>1, <4>2
    <3>2. g[s] = JoinStep(f, scoped, b, w, s)
      BY <2>3, <2>4, <2>7
    <3> QED BY <3>1, <3>2
  <2>9. g = [s \in Upto(n + 1) |-> JoinStep(g, scoped, b, w, s)]
    BY <2>5, <2>8
  <2> QED BY <2>9
<1> HIDE DEF Defined
<1>4. T = {}
  <2> SUFFICES ASSUME T # {} PROVE FALSE
    OBVIOUS
  <2>1. PICK n \in T : \A m \in T : n <= m
    BY LeastNumber
  <2>2. n # 0 /\ n \in Nat /\ n - 1 \in Nat
    BY <1>2, <2>1
  <2>3. Defined(n - 1)
    BY <2>1, <2>2
  <2>4. Defined(n)
    BY <1>3, <2>2, <2>3
  <2> QED BY <2>1, <2>4
<1>5. Defined(Cardinality(S))
  BY <1>f, <1>4, FS_CardinalityType
<1>6. Upto(Cardinality(S)) = SUBSET S
  BY <1>0
<1> HIDE DEF Upto
<1> QED BY <1>5, <1>6 DEF Defined, Joins

LEMMA JoinsOK ==
    ASSUME NEW scoped, \A id \in DOMAIN scoped : scoped[id] \in Content,
           NEW t \in DOMAIN scoped, NEW w \in Seq(Nat)
    PROVE  Merged(scoped, t, w) \in Content
<1>b. PICK b \in Content : b = scoped[t]
  OBVIOUS
<1>0. PICK len \in Nat : len = Len(w) /\ DOMAIN w = 1 .. len
  OBVIOUS
<1>s. PICK S : S = 1 .. len
  OBVIOUS
<1>1. PICK f : /\ f = [s \in SUBSET S |-> JoinStep(f, scoped, b, w, s)]
               /\ Merged(scoped, t, w) = f[S]
  <2>1. Merged(scoped, t, w) =
            (CHOOSE f : Joins(f, scoped, b, w, S))[S]
    BY <1>0, <1>b, <1>s DEF Merged, FoldLeft, MapThenFoldSet, JoinStep, Joins
  <2>2. \E f : Joins(f, scoped, b, w, S)
    BY <1>s, JoinsExist
  <2>3. PICK g : g = CHOOSE f : Joins(f, scoped, b, w, S)
    OBVIOUS
  <2>4. Joins(g, scoped, b, w, S)
    BY <2>2, <2>3
  <2>5. Merged(scoped, t, w) = g[S]
    BY <2>1, <2>3, Zenon
  <2> QED BY <2>4, <2>5 DEF Joins
<1> DEFINE OK(n) == \A s \in SUBSET S : Cardinality(s) = n => f[s] \in Content
           T == {n \in Nat : ~ OK(n)}
<1>f. IsFiniteSet(S)
  BY <1>s, FS_Interval
<1>m. \A s \in SUBSET S : s # {} => Max(s) \in s
  BY <1>s, MaxOK
<1> HIDE <1>s
<1>3. \A s \in SUBSET S : f[s] = JoinStep(f, scoped, b, w, s)
  BY <1>1
<1>2. \A s \in SUBSET S : IsFiniteSet(s) /\ Cardinality(s) \in Nat /\ (Cardinality(s) = 0 <=> s = {})
  BY <1>f, FS_Subset, FS_CardinalityType, FS_EmptySet
<1>4. OK(0)
  <2>1. f[{}] = b
    BY <1>3 DEF JoinStep
  <2> QED BY <1>2, <2>1
<1>5. ASSUME NEW n \in Nat, OK(n) PROVE OK(n + 1)
  <2>1. ASSUME NEW s \in SUBSET S, Cardinality(s) = n + 1
        PROVE  f[s] \in Content
    <3>1. s # {} /\ IsFiniteSet(s)
      BY <1>2, <2>1
    <3>2. PICK m : m = Max(s)
      OBVIOUS
    <3>3. m \in s
      BY <1>m, <3>1, <3>2
    <3>4. f[s] = Joined(scoped, f[s \ {m}], w[m])
      BY <1>3, <3>1, <3>2 DEF JoinStep
    <3> HIDE <3>2
    <3>5. s \ {m} \in SUBSET S /\ Cardinality(s \ {m}) = n
      <4>1. Cardinality(s \ {m}) = Cardinality(s) - 1
        BY <3>1, <3>3, FS_RemoveElement
      <4> QED BY <2>1, <4>1
    <3>6. f[s \ {m}] \in Content
      BY <1>5, <3>5
    <3> QED BY <3>4, <3>6, JoinedOK
  <2> QED BY <2>1
<1> HIDE DEF OK
<1>6. T = {}
  <2> SUFFICES ASSUME T # {} PROVE FALSE
    OBVIOUS
  <2>1. PICK n \in T : \A m \in T : n <= m
    BY LeastNumber
  <2>2. n # 0 /\ n \in Nat /\ n - 1 \in Nat
    BY <1>4, <2>1
  <2>3. OK(n - 1)
    BY <2>1, <2>2
  <2>4. OK(n)
    BY <1>5, <2>2, <2>3
  <2> QED BY <2>1, <2>4
<1>7. OK(Cardinality(S))
  BY <1>6, <1>f, FS_CardinalityType
<1>8. f[S] \in Content
  BY <1>7 DEF OK
<1> QED BY <1>1, <1>8

\* What a plan changes and removes is in its scope, and what it writes is a content.
LEMMA PlanIsOK ==
    ASSUME NEW scoped, \A id \in DOMAIN scoped : scoped[id] \in Content, NEW op \in BulkOp
    PROVE  PlanOK(scoped, PlanBulk(scoped, op))
<1>0. PICK plan : plan = PlanBulk(scoped, op)
  OBVIOUS
<1>n. PlanOK(scoped, Nothing)
  <2>1. Nothing.diffs = <<>> /\ Nothing.added = <<>> /\ Nothing.removed = <<>>
    BY DEF Nothing
  <2>2. DOMAIN Nothing.diffs = {} /\ DOMAIN Nothing.removed = {} /\ Nothing.added \in Seq(Content)
    BY <2>1
  <2> QED BY <2>2 DEF PlanOK, Range
<1>e. ASSUME NEW after, DOMAIN after = DOMAIN scoped, \A id \in DOMAIN scoped : after[id] \in Content
      PROVE  PlanOK(scoped, PlanEach(scoped, after))
  <2>1. PICK d : d = Restrict(after, {id \in DOMAIN scoped : after[id] # scoped[id]})
    OBVIOUS
  <2>2. DOMAIN d \subseteq DOMAIN scoped /\ \A id \in DOMAIN d : d[id] \in Content
    BY <1>e, <2>1 DEF Restrict
  <2>3. PlanEach(scoped, after) = [diffs |-> d, added |-> <<>>, removed |-> <<>>]
    BY <2>1 DEF PlanEach, Nothing
  <2> HIDE <2>1
  <2>4. PICK p : p = PlanEach(scoped, after)
    OBVIOUS
  <2>5. p.diffs = d /\ p.added = <<>> /\ p.removed = <<>>
    BY <2>3, <2>4
  <2>6. DOMAIN p.removed = {} /\ p.added \in Seq(Content)
    BY <2>5
  <2>7. PlanOK(scoped, p)
    BY <2>2, <2>5, <2>6 DEF PlanOK, Range
  <2> QED BY <2>4, <2>7
<1>1. CASE op.type = "replace"
  <2>1. op.replace \in Word
    BY <1>1 DEF BulkOp
  <2>2. PICK after : after = [id \in DOMAIN scoped |-> Replaced(op, scoped[id])]
    OBVIOUS
  <2>3. DOMAIN after = DOMAIN scoped /\ \A id \in DOMAIN scoped : after[id] \in Content
    BY <2>1, <2>2, ReplacedOK
  <2>4. plan = PlanEach(scoped, after)
    BY <1>0, <1>1, <2>2 DEF PlanBulk
  <2> QED BY <1>0, <1>e, <2>3, <2>4
<1>2. CASE op.type = "tag"
  <2>1. /\ op.tag \in STRING /\ op.action \in {"add", "remove", "rename"}
        /\ op.action = "rename" => op.newTag \in STRING
    BY <1>2 DEF BulkOp
  <2>2. PICK after : after = [id \in DOMAIN scoped |-> Tagged(op, scoped[id])]
    OBVIOUS
  <2>3. DOMAIN after = DOMAIN scoped /\ \A id \in DOMAIN scoped : after[id] \in Content
    BY <2>1, <2>2, TaggedOK
  <2>4. plan = PlanEach(scoped, after)
    BY <1>0, <1>2, <2>2 DEF PlanBulk
  <2> QED BY <1>0, <1>e, <2>3, <2>4
<1>3. CASE op.type = "merge"
  <2>0. plan = PlanMerge(scoped, op)
    BY <1>0, <1>3 DEF PlanBulk
  <2>1. op.sources \in Seq(Nat)
    BY <1>3 DEF BulkOp
  <2>2. CASE op.target \notin DOMAIN scoped
    BY <1>0, <1>n, <2>0, <2>2 DEF PlanMerge
  <2>3. CASE op.target \in DOMAIN scoped
    <3>1. PICK t, w, m : t = op.target /\ w = op.sources /\ m = Merged(scoped, t, w)
      OBVIOUS
    <3>2. m \in Content
      BY <2>1, <2>3, <3>1, JoinsOK
    <3>3. PICK d, r : /\ d = [id \in {t} |-> Merged(scoped, id, w)]
                      /\ r = Restrict(w, {i \in DOMAIN w : w[i] \in DOMAIN scoped})
      OBVIOUS
    <3>4. plan = [Nothing EXCEPT !.diffs = d, !.removed = r]
      BY <2>0, <2>3, <3>1, <3>3 DEF PlanMerge
    <3>5. DOMAIN d = {t} /\ d[t] \in Content
      BY <3>1, <3>2, <3>3
    <3>6. Range(r) \subseteq DOMAIN scoped
      BY <3>3 DEF Restrict, Range
    <3> HIDE <3>3
    <3>7. plan = [diffs |-> d, added |-> <<>>, removed |-> r]
      BY <3>4 DEF Nothing
    <3>8. plan.diffs = d /\ plan.added = <<>> /\ plan.removed = r
      BY <3>7
    <3>9. plan.added \in Seq(Content)
      BY <3>8
    <3> QED BY <1>0, <2>3, <3>1, <3>5, <3>6, <3>8, <3>9 DEF PlanOK
  <2> QED BY <2>2, <2>3
<1>4. CASE op.type = "split"
  <2>0. plan = PlanSplit(scoped, op)
    BY <1>0, <1>4 DEF PlanBulk
  <2>1. PICK t, c : t = op.note /\ c = scoped[t]
    OBVIOUS
  <2>2. PICK ss : ss = SplitByHeading(c.body)
    OBVIOUS
  <2>3. CASE t \notin DOMAIN scoped \/ ss = <<>>
    <3>1. plan = Nothing
      BY <2>0, <2>1, <2>2, <2>3 DEF PlanSplit
    <3> QED BY <1>0, <1>n, <3>1
  <2>4. CASE t \in DOMAIN scoped /\ ss # <<>>
    <3>1. c \in Content /\ c.body \in Seq(Word)
      BY <2>1, <2>4, ContentParts
    <3>2. ss \in Seq(Seq(Word))
      BY <2>2, <3>1, SectionsOK
    <3>3. PICK len \in Nat : len = Len(ss) /\ DOMAIN ss = 1 .. len /\ len # 0
      BY <2>4, <3>2
    <3>4. \A k \in 1 .. len : ss[k] \in Seq(Word)
      BY <3>2, <3>3
    <3>5. \A k \in 1 .. len : Section(c, ss[k]) \in Content
      <4>1. ASSUME NEW text \in Seq(Word) PROVE Section(c, text) \in Content
        <5>1. PICK h : h = <<Heading>>
          OBVIOUS
        <5>2. h \in Seq(Word)
          BY <5>1 DEF Word
        <5>3. Section(c, text) = [c EXCEPT !.title = h, !.body = text]
          BY <5>1 DEF Section
        <5> HIDE <5>1
        <5>4. Section(c, text) = [title |-> h, body |-> text, tags |-> c.tags]
          BY <3>1, <5>3, ContentParts
        <5> QED BY <3>1, <5>2, <5>4, ContentParts DEF Content
      <4> QED BY <3>4, <4>1
    <3>6. PICK d, a : /\ d = [id \in {t} |-> Section(c, ss[1])]
                      /\ a = [k \in 1 .. Len(ss) - 1 |-> Section(c, ss[k + 1])]
      OBVIOUS
    <3>7. plan = [Nothing EXCEPT !.diffs = d, !.added = a]
      BY <2>0, <2>1, <2>2, <2>4, <3>6 DEF PlanSplit
    <3>8. DOMAIN d = {t} /\ d[t] \in Content
      BY <3>3, <3>5, <3>6
    <3>9. a \in Seq(Content)
      <4>1. \A k \in 1 .. len - 1 : k + 1 \in 1 .. len
        BY <3>3
      <4>2. a \in [1 .. len - 1 -> Content]
        BY <3>3, <3>5, <3>6, <4>1
      <4>3. len - 1 \in Nat
        BY <3>3
      <4> QED BY <4>2, <4>3
    <3> HIDE <3>6
    <3>10. plan = [diffs |-> d, added |-> a, removed |-> <<>>]
      BY <3>7 DEF Nothing
    <3>11. plan.diffs = d /\ plan.added = a /\ plan.removed = <<>>
      BY <3>10
    <3>12. DOMAIN plan.removed = {}
      BY <3>11
    <3> QED BY <1>0, <2>4, <3>8, <3>9, <3>11, <3>12 DEF PlanOK, Range
  <2> QED BY <2>3, <2>4
<1>5. op.type \in {"replace", "tag", "merge", "split"}
  BY DEF BulkOp
<1> QED BY <1>1, <1>2, <1>3, <1>4, <1>5

-----------------------------------------------------------------------------
(* The invariant of the journal.                                           *)

\* A row of the journal holds the content of every note that its operation changed or
\* removed, and the ids that the operation added, which are no older than that.
EntryOK(e, total) ==
    /\ e = [before |-> e.before, addedIds |-> e.addedIds, removed |-> e.removed,
            reversed |-> e.reversed, was |-> e.was, made |-> e.made]
    /\ e.reversed \in BOOLEAN
    /\ \E n, m \in 0 .. total :
           /\ n <= m /\ DOMAIN e.was = 1 .. n /\ DOMAIN e.made = 1 .. m /\ e.addedIds = n + 1 .. m
           /\ DOMAIN e.before \subseteq 1 .. n
           /\ \A id \in 1 .. n : e.made[id] # e.was[id] => id \in DOMAIN e.before
    /\ \A id \in DOMAIN e.before : e.before[id] = e.was[id].content /\ e.before[id] \in Content

BulkInv ==
    /\ notes \in Seq(Note)
    /\ journal \in Seq(Range(journal))
    /\ \A j \in DOMAIN journal : EntryOK(journal[j], Len(notes))

LEMMA EntryKept ==
    ASSUME NEW e, NEW t \in Nat, NEW u \in Nat, EntryOK(e, t), t <= u
    PROVE  EntryOK(e, u)
<1>1. \A n \in 0 .. t : n \in 0 .. u
  OBVIOUS
<1> QED BY <1>1 DEF EntryOK

LEMMA NoteParts ==
    ASSUME NEW n \in Note
    PROVE  /\ n.content \in Content /\ n.where \in {"live", "trash", "purged"}
           /\ n = [content |-> n.content, where |-> n.where]
BY DEF Note

LEMMA NotesParts ==
    ASSUME NEW s \in Seq(Note)
    PROVE  Len(s) \in Nat /\ DOMAIN s = 1 .. Len(s) /\ \A id \in DOMAIN s : s[id] \in Note
OBVIOUS

LEMMA WrittenOK ==
    ASSUME NEW n \in Note, NEW c \in Content
    PROVE  /\ WriteNote(n, c) = [content |-> c, where |-> n.where] /\ WriteNote(n, c) \in Note
           /\ NewNote(c) \in Note
<1>1. WriteNote(n, c) = [content |-> c, where |-> n.where]
  BY NoteParts DEF WriteNote
<1>2. n.where \in {"live", "trash", "purged"}
  BY NoteParts
<1> QED BY <1>1, <1>2 DEF Note, NewNote

LEMMA TrashedOK ==
    ASSUME NEW rows \in Seq(Note), NEW ids
    PROVE  /\ Trashed(rows, ids) \in Seq(Note) /\ Len(Trashed(rows, ids)) = Len(rows)
           /\ \A id \in DOMAIN rows :
                  /\ id \notin ids => Trashed(rows, ids)[id] = rows[id]
                  /\ id \in ids =>
                         Trashed(rows, ids)[id] = [content |-> rows[id].content, where |-> "trash"]
<1>1. PICK n \in Nat : n = Len(rows) /\ DOMAIN rows = 1 .. n
  OBVIOUS
<1>2. \A id \in 1 .. n : rows[id] \in Note
  BY <1>1
<1>3. PICK t : t = Trashed(rows, ids)
  OBVIOUS
<1>4. DOMAIN t = 1 .. n
      /\ \A id \in 1 .. n : t[id] = IF id \in ids THEN [rows[id] EXCEPT !.where = "trash"] ELSE rows[id]
  BY <1>1, <1>3 DEF Trashed
<1>5. ASSUME NEW x \in Note
      PROVE  /\ [x EXCEPT !.where = "trash"] = [content |-> x.content, where |-> "trash"]
             /\ [content |-> x.content, where |-> "trash"] \in Note
  <2>1. [x EXCEPT !.where = "trash"] = [content |-> x.content, where |-> "trash"]
    BY NoteParts
  <2> QED BY <2>1, NoteParts DEF Note
<1>6. t \in [1 .. n -> Note]
  <2>1. t = [id \in 1 .. n |-> t[id]]
    BY <1>1, <1>3 DEF Trashed
  <2>2. ASSUME NEW id \in 1 .. n PROVE t[id] \in Note
    <3>1. rows[id] \in Note /\ [rows[id] EXCEPT !.where = "trash"] \in Note
      BY <1>2, <1>5
    <3> QED BY <1>4, <3>1
  <2> QED BY <2>1, <2>2
<1>7. t \in Seq(Note) /\ Len(t) = n
  BY <1>6
<1> QED BY <1>1, <1>2, <1>3, <1>4, <1>5, <1>7

\* Notes that are made come after the notes there are.
LEMMA AppendedOK ==
    ASSUME NEW a \in Seq(Note), NEW b \in Seq(Note)
    PROVE  /\ a \o b \in Seq(Note) /\ Len(a \o b) = Len(a) + Len(b)
           /\ \A id \in DOMAIN a : (a \o b)[id] = a[id]
           /\ \A k \in DOMAIN b : Len(a) + k \in DOMAIN (a \o b) \ DOMAIN a
                                  /\ (a \o b)[Len(a) + k] = b[k]
<1>1. Len(a) \in Nat /\ Len(b) \in Nat /\ DOMAIN a = 1 .. Len(a) /\ DOMAIN b = 1 .. Len(b)
  OBVIOUS
<1>2. /\ a \o b \in Seq(Note) /\ Len(a \o b) = Len(a) + Len(b)
      /\ \A i \in 1 .. Len(a) + Len(b) : (a \o b)[i] = IF i <= Len(a) THEN a[i] ELSE b[i - Len(a)]
  BY ConcatProperties
<1>3. DOMAIN (a \o b) = 1 .. Len(a) + Len(b)
  BY <1>2
<1>4. \A id \in DOMAIN a : (a \o b)[id] = a[id]
  BY <1>1, <1>2
<1>5. ASSUME NEW k \in DOMAIN b
      PROVE  Len(a) + k \in DOMAIN (a \o b) \ DOMAIN a /\ (a \o b)[Len(a) + k] = b[k]
  <2>1. Len(a) + k \in 1 .. Len(a) + Len(b) /\ ~(Len(a) + k <= Len(a)) /\ Len(a) + k - Len(a) = k
    BY <1>1
  <2> QED BY <1>1, <1>2, <1>3, <2>1
<1> QED BY <1>2, <1>4, <1>5

LEMMA BulkInvInit ==
    ASSUME BulkInit
    PROVE  BulkInv
<1>1. PICK n \in Nat : n = Len(Seeded) /\ DOMAIN Seeded = 1 .. n /\ \A id \in 1 .. n : Seeded[id] \in Content
  BY BulkAssumption
<1>2. ASSUME NEW c \in Content PROVE NewNote(c) \in Note
  BY <1>2 DEF NewNote, Note
<1>3. notes = [id \in 1 .. n |-> NewNote(Seeded[id])]
  BY <1>1 DEF BulkInit
<1>4. notes \in [1 .. n -> Note]
  BY <1>1, <1>2, <1>3
<1>5. notes \in Seq(Note)
  BY <1>4
<1>6. journal = <<>> /\ DOMAIN journal = {}
  BY DEF BulkInit
<1>7. journal \in Seq(Range(journal))
  BY <1>6
<1> QED BY <1>5, <1>6, <1>7 DEF BulkInv

\* Notes change, or come after those there are, and the journal stays.
LEMMA NotesMove ==
    ASSUME BulkInv, notes' \in Seq(Note), Len(notes') >= Len(notes), UNCHANGED journal
    PROVE  BulkInv'
<1>1. Len(notes) \in Nat /\ Len(notes') \in Nat
  BY NotesParts DEF BulkInv
<1>2. \A j \in DOMAIN journal : EntryOK(journal[j], Len(notes'))
  BY <1>1, EntryKept DEF BulkInv
<1> QED BY <1>2 DEF BulkInv, Range

LEMMA StepApply ==
    ASSUME BulkInv, NEW op \in BulkOps, NEW scope \in SUBSET Existing, NEW crash \in BOOLEAN,
           Apply(op, scope, crash)
    PROVE  BulkInv'
<1>1. PICK s : s = notes
  OBVIOUS
<1>2. PICK n \in Nat : /\ s \in Seq(Note) /\ n = Len(s) /\ DOMAIN s = 1 .. n
                       /\ \A id \in 1 .. n : s[id] \in Note
  BY <1>1 DEF BulkInv
<1>3. scope \subseteq 1 .. n
  BY <1>1, <1>2 DEF Existing, In
<1>4. PICK scoped : scoped = [id \in scope |-> s[id].content]
  OBVIOUS
<1>5. PICK plan : plan = PlanBulk(scoped, op)
  OBVIOUS
<1>6. DOMAIN scoped = scope /\ \A id \in scope : scoped[id] = s[id].content /\ scoped[id] \in Content
  BY <1>2, <1>3, <1>4, NoteParts
<1>7. op \in BulkOp
  BY BulkAssumption
<1>8. PlanOK(scoped, plan)
  BY <1>5, <1>6, <1>7, PlanIsOK
<1>9. PICK w, b, r : /\ w = [id \in DOMAIN s |-> IF id \in DOMAIN plan.diffs
                                               THEN WriteNote(s[id], plan.diffs[id]) ELSE s[id]]
                     /\ b = [k \in DOMAIN plan.added |-> NewNote(plan.added[k])]
                     /\ r = Range(plan.removed)
  OBVIOUS
<1>10. PICK m \in Nat : m = n + Len(plan.added)
  BY <1>2, <1>8 DEF PlanOK
<1>11. PICK after : after = Trashed(w \o b, r)
  OBVIOUS
<1>12. PICK before : before = Snapshot(scoped, plan)
  OBVIOUS
<1>13. PICK e : e = [before |-> before, addedIds |-> n + 1 .. m, removed |-> r,
                     reversed |-> FALSE, was |-> s, made |-> after]
  OBVIOUS
<1>14. /\ notes' = after
       /\ journal' = IF crash THEN journal ELSE Append(journal, e)
  BY <1>1, <1>2, <1>4, <1>5, <1>9, <1>10, <1>11, <1>12, <1>13 DEF Apply
<1>15. DOMAIN plan.diffs \subseteq scope /\ r \subseteq scope
       /\ \A id \in DOMAIN plan.diffs : plan.diffs[id] \in Content
  BY <1>6, <1>8, <1>9 DEF PlanOK
<1>16. w \in Seq(Note) /\ Len(w) = n /\ DOMAIN w = 1 .. n
       /\ \A id \in 1 .. n : id \notin DOMAIN plan.diffs => w[id] = s[id]
  <2>1. \A id \in DOMAIN plan.diffs : WriteNote(s[id], plan.diffs[id]) \in Note
    BY <1>2, <1>3, <1>15, WrittenOK
  <2>2. w \in [1 .. n -> Note]
    BY <1>2, <1>9, <2>1
  <2> QED BY <1>2, <1>9, <2>2
<1>17. b \in Seq(Note) /\ Len(b) = Len(plan.added)
  <2>1. PICK k \in Nat : k = Len(plan.added) /\ DOMAIN plan.added = 1 .. k
                         /\ \A i \in 1 .. k : plan.added[i] \in Content
    BY <1>8 DEF PlanOK
  <2>2. \A i \in 1 .. k : NewNote(plan.added[i]) \in Note
    BY <2>1 DEF NewNote, Note
  <2>3. b \in [1 .. k -> Note]
    BY <1>9, <2>1, <2>2
  <2> QED BY <2>1, <2>3
<1>18. PICK full : full = w \o b
  OBVIOUS
<1>19. full \in Seq(Note) /\ Len(full) = m /\ \A id \in 1 .. n : full[id] = w[id]
  <2>1. w \in Seq(Note) /\ b \in Seq(Note)
    BY <1>16, <1>17
  <2>2. w \o b \in Seq(Note) /\ Len(w \o b) = Len(w) + Len(b) /\ \A id \in DOMAIN w : (w \o b)[id] = w[id]
    BY <2>1, AppendedOK
  <2>3. Len(w) = n /\ DOMAIN w = 1 .. n /\ Len(b) = Len(plan.added)
    BY <1>16, <1>17
  <2> HIDE <1>9
  <2> QED BY <1>10, <1>18, <2>2, <2>3
<1>20. DOMAIN full = 1 .. m
  BY <1>19
<1>21. after = Trashed(full, r)
  BY <1>11, <1>18
<1>22. after \in Seq(Note) /\ Len(after) = m /\ \A id \in 1 .. m : id \notin r => after[id] = full[id]
  <2>1. /\ Trashed(full, r) \in Seq(Note) /\ Len(Trashed(full, r)) = Len(full)
        /\ \A id \in DOMAIN full : id \notin r => Trashed(full, r)[id] = full[id]
    BY <1>19, TrashedOK
  <2> QED BY <1>19, <1>20, <1>21, <2>1
<1>23. n <= m
  <2>1. Len(b) \in Nat
    BY <1>17, NotesParts
  <2> QED BY <1>2, <1>10, <1>17, <2>1
<1>24. BulkInv' \/ ~crash
  BY <1>1, <1>2, <1>14, <1>22, <1>23, NotesMove
<1>25. ASSUME ~crash PROVE BulkInv'
  <2>1. DOMAIN before = DOMAIN plan.diffs \cup r /\ \A id \in DOMAIN before : before[id] = scoped[id]
    BY <1>9, <1>12 DEF Snapshot
  <2>2. \A id \in DOMAIN before : before[id] = s[id].content /\ before[id] \in Content /\ id \in 1 .. n
    BY <1>3, <1>6, <1>15, <2>1
  <2>3. \A id \in 1 .. n : after[id] # s[id] => id \in DOMAIN before
    BY <1>2, <1>10, <1>16, <1>19, <1>22, <1>23, <2>1
  <2>4. DOMAIN after = 1 .. m
    BY <1>22
  <2>5. /\ e.before = before /\ e.addedIds = n + 1 .. m /\ e.removed = r /\ e.reversed = FALSE
        /\ e.was = s /\ e.made = after
    BY <1>13
  <2>6. n \in 0 .. m /\ m \in 0 .. m
    BY <1>23
  <2>7. EntryOK(e, m)
    <3>1. e = [before |-> e.before, addedIds |-> e.addedIds, removed |-> e.removed,
               reversed |-> e.reversed, was |-> e.was, made |-> e.made]
      BY <1>13, <2>5
    <3>2. /\ n <= m /\ DOMAIN e.was = 1 .. n /\ DOMAIN e.made = 1 .. m /\ e.addedIds = n + 1 .. m
          /\ DOMAIN e.before \subseteq 1 .. n
          /\ \A id \in 1 .. n : e.made[id] # e.was[id] => id \in DOMAIN e.before
      BY <1>2, <1>23, <2>2, <2>3, <2>4, <2>5
    <3>3. \A id \in DOMAIN e.before : e.before[id] = e.was[id].content /\ e.before[id] \in Content
      BY <2>2, <2>5
    <3> QED BY <2>5, <2>6, <3>1, <3>2, <3>3 DEF EntryOK
  <2>8. \A j \in DOMAIN journal : EntryOK(journal[j], m)
    BY <1>1, <1>2, <1>23, EntryKept DEF BulkInv
  <2>9. PICK l, k : l = journal /\ k = Len(l)
    OBVIOUS
  <2>10. k \in Nat /\ DOMAIN l = 1 .. k /\ l \in Seq(Range(l))
    BY <2>9 DEF BulkInv
  <2>11. PICK l2 : l2 = Append(l, e)
    OBVIOUS
  <2>12. /\ DOMAIN l2 = 1 .. k + 1 /\ l2[k + 1] = e /\ \A j \in 1 .. k : l2[j] = l[j]
         /\ l2 = [j \in 1 .. k + 1 |-> l2[j]]
    <3>1. PICK S : S = Range(l) \cup {e}
      OBVIOUS
    <3>2. l \in Seq(S) /\ e \in S
      BY <2>10, <3>1, SeqMonotonic
    <3> HIDE <3>1
    <3>3. l2 \in Seq(S) /\ Len(l2) = k + 1 /\ l2[k + 1] = e /\ \A j \in 1 .. k : l2[j] = l[j]
      BY <2>9, <2>10, <2>11, <3>2
    <3>4. DOMAIN l2 = 1 .. k + 1 /\ l2 \in [1 .. k + 1 -> S]
      BY <2>10, <3>3
    <3> QED BY <3>3, <3>4
  <2>13. l2 \in Seq(Range(l2))
    <3>1. \A j \in 1 .. k + 1 : l2[j] \in Range(l2)
      BY <2>12 DEF Range
    <3>2. l2 \in [1 .. k + 1 -> Range(l2)]
      BY <2>12, <3>1
    <3>3. k + 1 \in Nat
      BY <2>10
    <3> QED BY <3>2, <3>3
  <2>14. \A j \in DOMAIN l2 : EntryOK(l2[j], m)
    <3>1. \A j \in 1 .. k + 1 : j \in 1 .. k \/ j = k + 1
      BY <2>10
    <3> QED BY <2>7, <2>8, <2>9, <2>10, <2>12, <3>1
  <2>15. journal' = l2 /\ notes' = after
    BY <1>14, <1>25, <2>9, <2>11
  <2> QED BY <1>22, <2>13, <2>14, <2>15 DEF BulkInv
<1> QED BY <1>24, <1>25

\* What an undo does to the notes: the snapshots are written back, what the operation
\* created is put away, and what is gone is made again.
LEMMA UndoEffect ==
    ASSUME BulkInv, NEW j \in DOMAIN journal, NEW crash \in BOOLEAN, Undo(j, crash)
    PROVE  /\ notes' \in Seq(Note) /\ Len(notes') >= Len(notes)
           /\ \A id \in DOMAIN journal[j].before :
                  IF id \in Existing THEN notes'[id].content = journal[j].before[id]
                  ELSE \E new \in DOMAIN notes' \ DOMAIN notes :
                           notes'[new] = NewNote(journal[j].before[id])
           /\ \A id \in journal[j].addedIds \cap DOMAIN notes : notes'[id].where # "live"
           /\ \A id \in DOMAIN notes :
                  id \notin DOMAIN journal[j].before \cup journal[j].addedIds => notes'[id] = notes[id]
<1>1. PICK s, e, x : s = notes /\ e = journal[j] /\ x = Existing
  OBVIOUS
<1>2. PICK n \in Nat : /\ s \in Seq(Note) /\ n = Len(s) /\ DOMAIN s = 1 .. n
                       /\ \A id \in 1 .. n : s[id] \in Note
  BY <1>1 DEF BulkInv
<1>3. x \subseteq 1 .. n /\ \A id \in 1 .. n : id \in x <=> s[id].where \in {"live", "trash"}
  BY <1>1, <1>2 DEF Existing, In
<1>4. PICK k, m \in 0 .. n : k <= m /\ e.addedIds = k + 1 .. m /\ DOMAIN e.before \subseteq 1 .. k
  BY <1>1, <1>2 DEF BulkInv, EntryOK
<1>5. \A id \in DOMAIN e.before : e.before[id] \in Content /\ id \notin e.addedIds /\ id \in 1 .. n
  <2>1. \A id \in DOMAIN e.before : e.before[id] \in Content
    BY <1>1 DEF BulkInv, EntryOK
  <2>2. \A id \in 1 .. k : id \notin k + 1 .. m /\ id \in 1 .. n
    BY <1>4
  <2> QED BY <1>4, <2>1, <2>2
<1>6. PICK c, w, gone : /\ c = e.addedIds \cap x /\ gone = DOMAIN e.before \ x
                        /\ w = [id \in DOMAIN s |-> IF id \in DOMAIN e.before \cap x
                                                   THEN WriteNote(s[id], e.before[id]) ELSE s[id]]
  OBVIOUS
<1>7. PICK g, b, t : /\ g \in Bijection(1 .. Cardinality(gone), gone)
                     /\ b = [i \in DOMAIN g |-> NewNote(e.before[g[i]])] /\ t = Trashed(w, c)
                     /\ notes' = t \o b
  <2>1. \E g \in Bijection(1 .. Cardinality(gone), gone) :
            notes' = Trashed(w, c) \o [i \in DOMAIN g |-> NewNote(e.before[g[i]])]
    BY <1>1, <1>6 DEF Undo
  <2> QED BY <2>1
<1>8. \A id \in DOMAIN e.before \cap x :
          WriteNote(s[id], e.before[id]) = [content |-> e.before[id], where |-> s[id].where]
          /\ WriteNote(s[id], e.before[id]) \in Note
  BY <1>2, <1>5, WrittenOK
<1>9. w \in Seq(Note) /\ Len(w) = n /\ DOMAIN w = 1 .. n
  <2>1. w \in [1 .. n -> Note]
    BY <1>2, <1>6, <1>8
  <2> QED BY <2>1
<1>10. \A id \in 1 .. n : w[id] = IF id \in DOMAIN e.before \cap x
                                  THEN WriteNote(s[id], e.before[id]) ELSE s[id]
  BY <1>2, <1>6
<1>11. /\ t \in Seq(Note) /\ Len(t) = n /\ DOMAIN t = 1 .. n
       /\ \A id \in 1 .. n : id \notin c => t[id] = w[id]
       /\ \A id \in 1 .. n : id \in c => t[id] = [content |-> w[id].content, where |-> "trash"]
  <2>1. /\ Trashed(w, c) \in Seq(Note) /\ Len(Trashed(w, c)) = Len(w)
        /\ \A id \in DOMAIN w : id \notin c => Trashed(w, c)[id] = w[id]
        /\ \A id \in DOMAIN w :
               id \in c => Trashed(w, c)[id] = [content |-> w[id].content, where |-> "trash"]
    BY <1>9, TrashedOK
  <2>2. PICK u : u = Trashed(w, c)
    OBVIOUS
  <2>3. t = u
    BY <1>7, <2>2
  <2>4. /\ u \in Seq(Note) /\ Len(u) = n
        /\ \A id \in 1 .. n : id \notin c => u[id] = w[id]
        /\ \A id \in 1 .. n : id \in c => u[id] = [content |-> w[id].content, where |-> "trash"]
    BY <1>9, <2>1, <2>2
  <2> HIDE <1>6, <1>7, <2>2
  <2>5. DOMAIN u = 1 .. n
    BY <2>4
  <2> QED BY <2>3, <2>4, <2>5
<1>12. PICK l \in Nat : l = Cardinality(gone)
  <2>1. gone \subseteq 1 .. n /\ IsFiniteSet(1 .. n)
    BY <1>5, <1>6, FS_Interval
  <2>2. IsFiniteSet(gone)
    BY <2>1, FS_Subset
  <2> QED BY <2>2, FS_CardinalityType
<1>13. g \in [1 .. l -> gone] /\ \A id \in gone : \E i \in 1 .. l : g[i] = id
  BY <1>7, <1>12 DEF Bijection, Injection, Surjection
<1>14. b \in Seq(Note) /\ Len(b) = l /\ DOMAIN b = 1 .. l
       /\ \A i \in 1 .. l : b[i] = NewNote(e.before[g[i]])
  <2>1. \A i \in 1 .. l : g[i] \in DOMAIN e.before
    BY <1>6, <1>13
  <2>2. \A i \in 1 .. l : NewNote(e.before[g[i]]) \in Note
    <3>1. ASSUME NEW d \in Content PROVE NewNote(d) \in Note
      BY DEF NewNote, Note
    <3> QED BY <1>5, <2>1, <3>1
  <2>3. DOMAIN g = 1 .. l
    BY <1>13
  <2>4. b \in [1 .. l -> Note]
    BY <1>7, <2>2, <2>3
  <2>5. b \in Seq(Note) /\ Len(b) = l /\ DOMAIN b = 1 .. l
    BY <2>4
  <2> QED BY <1>7, <2>3, <2>5
<1>15. PICK y : y = t \o b
  OBVIOUS
<1>16. /\ y \in Seq(Note) /\ Len(y) = n + l
       /\ \A id \in 1 .. n : y[id] = t[id]
       /\ \A i \in 1 .. l : n + i \in DOMAIN y \ 1 .. n /\ y[n + i] = b[i]
  <2>1. t \in Seq(Note) /\ b \in Seq(Note)
    BY <1>11, <1>14
  <2>2. /\ t \o b \in Seq(Note) /\ Len(t \o b) = Len(t) + Len(b)
        /\ \A id \in DOMAIN t : (t \o b)[id] = t[id]
        /\ \A i \in DOMAIN b : Len(t) + i \in DOMAIN (t \o b) \ DOMAIN t
                               /\ (t \o b)[Len(t) + i] = b[i]
    BY <2>1, AppendedOK
  <2>3. Len(t) = n /\ DOMAIN t = 1 .. n /\ Len(b) = l /\ DOMAIN b = 1 .. l
    BY <1>11, <1>14
  <2> HIDE <1>6, <1>7
  <2> QED BY <1>15, <2>2, <2>3
<1>17. Len(y) >= n
  BY <1>16
<1>c. \A id : (id \in c <=> id \in e.addedIds /\ id \in x)
  BY <1>6
<1>g. \A id : (id \in gone <=> id \in DOMAIN e.before /\ id \notin x)
  BY <1>6
<1> HIDE <1>6, <1>7, <1>15
<1>18. ASSUME NEW id \in DOMAIN e.before
       PROVE  IF id \in x THEN y[id].content = e.before[id]
              ELSE \E new \in DOMAIN y \ 1 .. n : y[new] = NewNote(e.before[id])
  <2>1. CASE id \in x
    <3>1. id \in 1 .. n /\ id \notin c
      BY <1>5, <1>c
    <3>2. y[id] = t[id] /\ t[id] = w[id]
      BY <1>11, <1>16, <3>1
    <3>3. id \in DOMAIN e.before \cap x
      BY <2>1
    <3>4. w[id] = WriteNote(s[id], e.before[id])
      BY <1>10, <3>1, <3>3
    <3>5. PICK v, z : v = e.before[id] /\ z = s[id].where
      OBVIOUS
    <3>6. y[id] = [content |-> v, where |-> z]
      BY <1>8, <3>2, <3>3, <3>4, <3>5
    <3>7. y[id].content = v
      BY <3>6
    <3> QED BY <2>1, <3>5, <3>7
  <2>2. CASE id \notin x
    <3>1. id \in gone
      BY <1>g, <2>2
    <3>2. PICK i \in 1 .. l : g[i] = id
      BY <1>13, <3>1
    <3>3. n + i \in DOMAIN y \ 1 .. n /\ y[n + i] = NewNote(e.before[id])
      BY <1>14, <1>16, <3>2
    <3> QED BY <2>2, <3>3
  <2> QED BY <2>1, <2>2
<1>19. ASSUME NEW id \in e.addedIds \cap 1 .. n PROVE y[id].where # "live"
  <2>0. id \in 1 .. n /\ y[id] = t[id]
    BY <1>16
  <2>1. CASE id \in x
    <3>1. id \in c
      BY <1>c, <2>1
    <3>2. PICK v : v = w[id].content
      OBVIOUS
    <3>3. y[id] = [content |-> v, where |-> "trash"]
      BY <1>11, <2>0, <3>1, <3>2
    <3> QED BY <3>3
  <2>2. CASE id \notin x
    <3>1. id \notin c /\ id \notin DOMAIN e.before \cap x
      BY <1>c, <2>2
    <3>2. y[id] = s[id]
      BY <1>10, <1>11, <2>0, <3>1
    <3>3. s[id].where # "live"
      BY <1>3, <2>0, <2>2
    <3> QED BY <3>2, <3>3
  <2> QED BY <2>1, <2>2
<1>20. ASSUME NEW id \in 1 .. n, id \notin DOMAIN e.before \cup e.addedIds PROVE y[id] = s[id]
  <2>1. id \notin c /\ id \notin DOMAIN e.before \cap x
    BY <1>c, <1>20
  <2> QED BY <1>10, <1>11, <1>16, <2>1
<1>21. notes' = y
  BY <1>7, <1>15
<1>22. /\ \A id \in DOMAIN e.before :
              IF id \in x THEN y[id].content = e.before[id]
              ELSE \E new \in DOMAIN y \ DOMAIN s : y[new] = NewNote(e.before[id])
       /\ \A id \in e.addedIds \cap DOMAIN s : y[id].where # "live"
       /\ \A id \in DOMAIN s : id \notin DOMAIN e.before \cup e.addedIds => y[id] = s[id]
  BY <1>2, <1>18, <1>19, <1>20
<1>23. y \in Seq(Note) /\ Len(y) >= Len(s)
  BY <1>2, <1>16, <1>17
<1> HIDE <1>2
<1> QED BY <1>1, <1>21, <1>22, <1>23

LEMMA StepUndo ==
    ASSUME BulkInv, NEW j \in DOMAIN journal, NEW crash \in BOOLEAN, Undo(j, crash)
    PROVE  BulkInv'
<1>1. notes' \in Seq(Note) /\ Len(notes') >= Len(notes)
  BY UndoEffect
<1>2. CASE crash
  <2>1. UNCHANGED journal
    BY <1>2 DEF Undo
  <2> QED BY <1>1, <2>1, NotesMove
<1>3. CASE ~crash
  <2>1. journal' = [journal EXCEPT ![j].reversed = TRUE]
    BY <1>3 DEF Undo
  <2>2. PICK u, v, l, l2 : u = Len(notes) /\ v = Len(notes') /\ l = journal /\ l2 = journal'
    OBVIOUS
  <2>3. /\ u \in Nat /\ v \in Nat /\ u <= v /\ l \in Seq(Range(l)) /\ j \in DOMAIN l
        /\ \A i \in DOMAIN l : EntryOK(l[i], u)
    BY <1>1, <2>2, NotesParts DEF BulkInv
  <2>4. PICK k \in Nat : DOMAIN l = 1 .. k
    BY <2>3
  <2>5. PICK e : e = [l[j] EXCEPT !.reversed = TRUE]
    OBVIOUS
  <2>6. l2 = [l EXCEPT ![j] = e]
    BY <2>1, <2>2, <2>5
  <2>7. DOMAIN l2 = 1 .. k /\ \A i \in 1 .. k : l2[i] = IF i = j THEN e ELSE l[i]
    BY <2>3, <2>4, <2>6
  <2>8. l2 = [i \in 1 .. k |-> l2[i]]
    BY <2>4, <2>6
  <2>9. l2 \in Seq(Range(l2))
    <3>1. \A i \in 1 .. k : l2[i] \in Range(l2)
      BY <2>7 DEF Range
    <3>2. l2 \in [1 .. k -> Range(l2)]
      BY <2>8, <3>1
    <3> QED BY <3>2
  <2>10. EntryOK(e, v)
    <3>1. EntryOK(l[j], v)
      BY <2>3, EntryKept
    <3>2. PICK d : d = l[j]
      OBVIOUS
    <3>3. d = [before |-> d.before, addedIds |-> d.addedIds, removed |-> d.removed,
               reversed |-> d.reversed, was |-> d.was, made |-> d.made]
      BY <3>1, <3>2 DEF EntryOK
    <3>4. e = [before |-> d.before, addedIds |-> d.addedIds, removed |-> d.removed,
               reversed |-> TRUE, was |-> d.was, made |-> d.made]
      BY <2>5, <3>2, <3>3
    <3>5. /\ e.before = d.before /\ e.addedIds = d.addedIds /\ e.removed = d.removed
          /\ e.reversed = TRUE /\ e.was = d.was /\ e.made = d.made
      BY <3>4
    <3> QED BY <3>1, <3>2, <3>4, <3>5 DEF EntryOK
  <2>11. \A i \in DOMAIN l2 : EntryOK(l2[i], v)
    BY <2>3, <2>4, <2>7, <2>10, EntryKept
  <2>12. notes' \in Seq(Note) /\ l2 = journal' /\ v = Len(notes')
    BY <1>1, <2>2
  <2> HIDE <2>1, <2>2
  <2> QED BY <2>9, <2>11, <2>12 DEF BulkInv
<1> QED BY <1>2, <1>3

\* What users do to the notes one by one keeps their number.
LEMMA StepUser ==
    ASSUME BulkInv, NEW id \in DOMAIN notes,
           Rewrite(id) \/ Move(id, "live", "trash") \/ Move(id, "trash", "live")
    PROVE  BulkInv'
<1>1. PICK s : s = notes
  OBVIOUS
<1>2. PICK n \in Nat : /\ s \in Seq(Note) /\ n = Len(s) /\ DOMAIN s = 1 .. n
                       /\ \A i \in 1 .. n : s[i] \in Note
  BY <1>1 DEF BulkInv
<1>3. \E x \in Note : notes' = [s EXCEPT ![id] = x]
  <2>0. s[id] \in Note /\ s[id].content \in Content
    BY <1>1, <1>2, NoteParts
  <2>1. CASE Rewrite(id)
    <3>1. PICK h, c : h = <<Heading>> /\ c = [s[id].content EXCEPT !.body = h]
      OBVIOUS
    <3>2. h \in Seq(Word)
      BY <3>1 DEF Word
    <3>3. notes' = [s EXCEPT ![id] = [s[id] EXCEPT !.content = c]]
      BY <1>1, <2>1, <3>1 DEF Rewrite
    <3>4. c \in Content
      <4>1. PICK d : d = s[id].content
        OBVIOUS
      <4>2. c = [title |-> d.title, body |-> h, tags |-> d.tags]
        BY <2>0, <3>1, <4>1, ContentParts
      <4> QED BY <2>0, <3>2, <4>1, <4>2, ContentParts DEF Content
    <3>5. [s[id] EXCEPT !.content = c] = WriteNote(s[id], c)
      BY DEF WriteNote
    <3> QED BY <2>0, <3>3, <3>4, <3>5, WrittenOK
  <2>2. CASE Move(id, "live", "trash") \/ Move(id, "trash", "live")
    <3>1. PICK where \in {"live", "trash"} : notes' = [s EXCEPT ![id] = [s[id] EXCEPT !.where = where]]
      BY <1>1, <2>2 DEF Move
    <3>2. [s[id] EXCEPT !.where = where] \in Note
      BY <2>0 DEF Note
    <3> QED BY <3>1, <3>2
  <2> QED BY <2>1, <2>2
<1>4. PICK x \in Note : notes' = [s EXCEPT ![id] = x]
  BY <1>3
<1>5. notes' \in Seq(Note) /\ Len(notes') = n
  <2>1. notes' \in [1 .. n -> Note]
    BY <1>1, <1>2, <1>4
  <2> QED BY <2>1
<1>6. UNCHANGED journal
  BY DEF Rewrite, Move, UserOp
<1> QED BY <1>1, <1>2, <1>5, <1>6, NotesMove

LEMMA StepEmptyTrash ==
    ASSUME BulkInv, EmptyTrash
    PROVE  BulkInv'
<1>1. PICK s : s = notes
  OBVIOUS
<1>2. PICK n \in Nat : /\ s \in Seq(Note) /\ n = Len(s) /\ DOMAIN s = 1 .. n
                       /\ \A i \in 1 .. n : s[i] \in Note
  BY <1>1 DEF BulkInv
<1>3. \A i \in 1 .. n : [s[i] EXCEPT !.where = "purged"] \in Note
  BY <1>2 DEF Note
<1>4. notes' = [i \in 1 .. n |-> IF s[i].where = "trash" THEN [s[i] EXCEPT !.where = "purged"]
                                 ELSE s[i]]
  BY <1>1, <1>2 DEF EmptyTrash
<1>5. notes' \in Seq(Note) /\ Len(notes') = n
  <2>1. notes' \in [1 .. n -> Note]
    BY <1>2, <1>3, <1>4
  <2> QED BY <2>1
<1>6. UNCHANGED journal
  BY DEF EmptyTrash, UserOp
<1> QED BY <1>1, <1>2, <1>5, <1>6, NotesMove

LEMMA BulkInvStep ==
    ASSUME BulkInv, [BulkNext]_bulkVars
    PROVE  BulkInv'
<1>1. ASSUME NEW op \in BulkOps, NEW scope \in SUBSET Existing, NEW crash \in BOOLEAN,
             Apply(op, scope, crash)
      PROVE  BulkInv'
  BY <1>1, StepApply
<1>2. ASSUME NEW j \in DOMAIN journal, NEW crash \in BOOLEAN, Undo(j, crash) PROVE BulkInv'
  BY <1>2, StepUndo
<1>3. ASSUME NEW id \in DOMAIN notes,
             Rewrite(id) \/ Move(id, "live", "trash") \/ Move(id, "trash", "live")
      PROVE  BulkInv'
  BY <1>3, StepUser
<1>4. CASE EmptyTrash
  BY <1>4, StepEmptyTrash
<1>5. CASE UNCHANGED bulkVars
  BY <1>5 DEF bulkVars, BulkInv, Range
<1> QED BY <1>1, <1>2, <1>3, <1>4, <1>5 DEF BulkNext

THEOREM BulkInvariant == BulkSpec => []BulkInv
BY BulkInvInit, BulkInvStep, PTL DEF BulkSpec

\* Any batch is reversible (bulk.ts:7-8): an undo restores what its operation changed or
\* removed and touches nothing else, for any operations, however many have been applied,
\* undone and edited since.
THEOREM UndoRestoresHolds == BulkSpec => UndoRestores
<1> DEFINE Restored(j) ==
        /\ \A id \in Changed(j) :
                IF id \in Existing THEN notes'[id].content = Original(j, id)
                ELSE \E new \in DOMAIN notes' \ DOMAIN notes :
                        notes'[new] = NewNote(Original(j, id))
        /\ \A id \in DOMAIN journal[j].made \ DOMAIN journal[j].was : notes'[id].where # "live"
        /\ \A id \in DOMAIN notes :
                id \notin DOMAIN journal[j].before \cup journal[j].addedIds =>
                notes'[id] = notes[id]
<1>1. ASSUME BulkInv, NEW j \in DOMAIN journal, NEW crash \in BOOLEAN, Undo(j, crash)
      PROVE  Restored(j)
  <2>1. PICK n, m \in 0 .. Len(notes) :
            /\ n <= m /\ DOMAIN journal[j].was = 1 .. n /\ DOMAIN journal[j].made = 1 .. m
            /\ journal[j].addedIds = n + 1 .. m
            /\ \A id \in 1 .. n : journal[j].made[id] # journal[j].was[id] =>
                                     id \in DOMAIN journal[j].before
    BY <1>1 DEF BulkInv, EntryOK
  <2>2. \A id \in DOMAIN journal[j].before : journal[j].before[id] = Original(j, id)
    BY <1>1 DEF BulkInv, EntryOK, Original
  <2>3. Changed(j) \subseteq DOMAIN journal[j].before
    BY <2>1 DEF Changed
  <2>4. DOMAIN journal[j].made \ DOMAIN journal[j].was \subseteq journal[j].addedIds \cap DOMAIN notes
    <3>1. Len(notes) \in Nat /\ DOMAIN notes = 1 .. Len(notes)
      BY <1>1, NotesParts DEF BulkInv
    <3>2. \A id \in 1 .. m : id \notin 1 .. n => id \in n + 1 .. m /\ id \in 1 .. Len(notes)
      BY <2>1, <3>1
    <3> QED BY <2>1, <3>1, <3>2
  <2> QED BY <1>1, <2>2, <2>3, <2>4, UndoEffect
<1>2. ASSUME BulkInv, [BulkNext]_bulkVars, NEW j \in DOMAIN journal, Reverses(j)
      PROVE  \E crash \in BOOLEAN : Undo(j, crash)
  <2>1. j \in DOMAIN journal /\ journal'[j].reversed /\ ~journal[j].reversed
    BY <1>2 DEF Reverses
  <2>2. UNCHANGED journal => FALSE
    BY <2>1
  <2>3. ASSUME NEW op \in BulkOps, NEW scope \in SUBSET Existing, NEW crash \in BOOLEAN,
               Apply(op, scope, crash)
        PROVE  FALSE
    <3>1. PICK e : journal' = Append(journal, e) \/ UNCHANGED journal
      BY <2>3 DEF Apply
    <3>2. journal \in Seq(Range(journal)) /\ j \in DOMAIN journal
      BY <1>2 DEF BulkInv
    <3>3. Append(journal, e)[j] = journal[j]
      BY <3>2
    <3> QED BY <2>1, <2>2, <3>1, <3>3
  <2>4. ASSUME NEW i \in DOMAIN journal, NEW crash \in BOOLEAN, Undo(i, crash)
        PROVE  i = j
    <3>1. UNCHANGED journal \/ journal' = [journal EXCEPT ![i].reversed = TRUE]
      BY <2>4 DEF Undo
    <3>2. i # j => [journal EXCEPT ![i].reversed = TRUE][j] = journal[j]
      BY <2>1
    <3> QED BY <2>1, <2>2, <3>1, <3>2
  <2>5. ASSUME NEW id \in DOMAIN notes,
               Rewrite(id) \/ Move(id, "live", "trash") \/ Move(id, "trash", "live")
        PROVE  FALSE
    BY <2>2, <2>5 DEF Rewrite, Move, UserOp
  <2>6. CASE EmptyTrash
    BY <2>2, <2>6 DEF EmptyTrash, UserOp
  <2>7. CASE UNCHANGED bulkVars
    BY <2>2, <2>7 DEF bulkVars
  <2> QED BY <1>2, <2>3, <2>4, <2>5, <2>6, <2>7 DEF BulkNext
<1>3. BulkInv /\ [BulkNext]_bulkVars => \A j \in DOMAIN journal : Reverses(j) => Restored(j)
  BY <1>1, <1>2
<1>4. BulkInv /\ [BulkNext]_bulkVars =>
          [\A j \in DOMAIN journal : Reverses(j) => Restored(j)]_bulkVars
  BY <1>3
<1> QED BY <1>4, BulkInvariant, PTL DEF BulkSpec, UndoRestores
====
