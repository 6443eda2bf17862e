------------------------------- MODULE AiQueue -------------------------------
(***************************************************************************)
(* AiRequestQueue (apps/server/src/ai/queue.ts): a FIFO queue that runs at *)
(* most Concurrency tasks at a time and lets a caller cancel any of them.  *)
(* What a task computes, and its promise, are left out: the status it is   *)
(* settled with stands for them.  A runner may ignore its abort signal.    *)
(***************************************************************************)
EXTENDS Naturals, Sequences, FiniteSets, SequencesExt

CONSTANTS
    Task,         \* the requests that callers make
    Concurrency   \* the slots of the queue

ASSUME AiAssumption == Concurrency \in Nat \ {0}

VARIABLES
    waiting,   \* the queued tasks, first in first out
    slots,     \* runningTasks: the tasks that hold a slot
    running,   \* the counter of occupied slots
    status,    \* the status of each task, "none" before it is enqueued
    aborted,   \* the tasks whose signal is aborted
    runners    \* the tasks whose run() has started and not ended

aiVars == <<waiting, slots, running, status, aborted, runners>>

-----------------------------------------------------------------------------
Final == {"done", "error", "cancelled"}

AiState == [waiting : Seq(Task), slots : SUBSET Task, running : Nat,
            status : [Task -> {"none", "queued", "running"} \cup Final]]

AiNow == [waiting |-> waiting, slots |-> slots, running |-> running, status |-> status]

\* pump: the free slots go to the head of the queue.
Pump(q) ==
    LET n == IF q.running >= Concurrency THEN 0
             ELSE IF Concurrency - q.running < Len(q.waiting)
                  THEN Concurrency - q.running ELSE Len(q.waiting)
        started == {q.waiting[i] : i \in 1 .. n}
    IN [waiting |-> SubSeq(q.waiting, n + 1, Len(q.waiting)),
        slots   |-> q.slots \cup started,
        running |-> q.running + n,
        status  |-> [t \in Task |-> IF t \in started THEN "running" ELSE q.status[t]]]

\* Mutants of Settle: without the finalized guard; without the pump.
SettleAgain(q, t, s) ==
    LET r == [q EXCEPT !.status[t] = s]
    IN IF q.status[t] = "queued" THEN r
       ELSE Pump([r EXCEPT !.slots = @ \ {t},
                           !.running = IF @ = 0 THEN 0 ELSE @ - 1])
SettleIdle(q, t, s) ==
    IF q.status[t] \in Final THEN q
    ELSE [q EXCEPT !.status[t] = s, !.slots = @ \ {t},
                   !.running = IF t \in q.slots THEN @ - 1 ELSE @]

\* settle: the first outcome of a task is its outcome; a slot it held is free.
Settle(q, t, s) ==
    IF q.status[t] \in Final THEN q
    ELSE LET r == [q EXCEPT !.status[t] = s]
         IN IF t \in q.slots THEN Pump([r EXCEPT !.slots = @ \ {t}, !.running = @ - 1])
                             ELSE r

\* cancel of a task that is queued or running; of any other, nothing.
Cancelled(t, q) ==
    IF t \in Range(q.waiting)
    THEN LET i == CHOOSE i \in DOMAIN q.waiting : q.waiting[i] = t
         IN Settle([q EXCEPT !.waiting = RemoveAt(@, i)], t, "cancelled")
    ELSE IF t \in q.slots THEN Settle(q, t, "cancelled") ELSE q

\* The runners that a transition of the queue starts, and the new state.
AiSet(q) ==
    /\ waiting' = q.waiting /\ slots' = q.slots
    /\ running' = q.running /\ status' = q.status
    /\ runners' = runners \cup (q.slots \ slots)

-----------------------------------------------------------------------------
AiInit ==
    /\ waiting = <<>> /\ slots = {} /\ running = 0
    /\ status = [t \in Task |-> "none"]
    /\ aborted = {} /\ runners = {}

Enqueue(t) ==
    /\ status[t] = "none"
    /\ AiSet(Pump([AiNow EXCEPT !.waiting = Append(@, t), !.status[t] = "queued"]))
    /\ UNCHANGED aborted

CancelTask(t) ==
    /\ status[t] \in {"queued", "running"}
    /\ aborted' = aborted \cup ({t} \cap slots)
    /\ AiSet(Cancelled(t, AiNow))

\* cancelAll: first what waits, then what runs at that moment; within either the
\* order makes no difference, because no slot is filled on the way.
CancelAll ==
    LET drained == FoldSet(Cancelled, AiNow, Range(waiting))
    IN /\ \E t \in Task : status[t] \in {"queued", "running"}
       /\ aborted' = aborted \cup drained.slots
       /\ AiSet(FoldSet(Cancelled, drained, drained.slots))

\* A runner ends; one that fails after its abort was cancelled, not in error.
RunnerEnds(t, ok) ==
    /\ t \in runners
    /\ LET q == Settle(AiNow, t,
                       IF ok THEN "done" ELSE IF t \in aborted THEN "cancelled" ELSE "error")
       IN /\ waiting' = q.waiting /\ slots' = q.slots
          /\ running' = q.running /\ status' = q.status
          /\ runners' = (runners \cup (q.slots \ slots)) \ {t}
    /\ UNCHANGED aborted

AiNext ==
    \/ \E t \in Task : Enqueue(t) \/ CancelTask(t)
    \/ CancelAll
    \/ \E t \in Task, ok \in BOOLEAN : RunnerEnds(t, ok)

\* An assumption on the callers: every run() ends.  The queue has no timeout of
\* its own, so a task that never ends holds its slot until it is cancelled.
AiFairness == \A t \in Task : WF_aiVars(\E ok \in BOOLEAN : RunnerEnds(t, ok))

AiSpec == AiInit /\ [][AiNext]_aiVars /\ AiFairness

-----------------------------------------------------------------------------
\* The counter, the slots, the queue and the statuses tell one story, and no
\* slot is free while a task waits.
SlotsAgree ==
    /\ [waiting |-> waiting, slots |-> slots, running |-> running, status |-> status] \in AiState
    /\ running = Cardinality(slots) /\ running <= Concurrency
    /\ slots = {t \in Task : status[t] = "running"}
    /\ Range(waiting) = {t \in Task : status[t] = "queued"} /\ IsInjective(waiting)
    /\ waiting # <<>> => running = Concurrency
    /\ slots \subseteq runners

\* "Each task is finalized exactly once" (queue.ts:9): the late answer of a
\* runner that was cancelled changes nothing, and a task that was cancelled while
\* it waited never starts a runner.
SettledOnce ==
    [][/\ \A t \in Task : status[t] \in Final => status'[t] = status[t]
       /\ \A t \in runners' \ runners : status[t] \notin Final]_aiVars

\* A task that is enqueued is settled, whatever is cancelled around it.
EveryTaskSettles == \A t \in Task : status[t] = "queued" ~> status[t] \in Final
=============================================================================
