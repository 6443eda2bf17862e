------------------------- MODULE SyncDelivery_proofs -------------------------
(***************************************************************************)
(* What a push and a pull deliver, for any devices and sizes, and whatever *)
(* is lost, late, repeated or cut off: an op is applied to the tables at   *)
(* most once, an ack tells the truth, no op is rejected twice, and a       *)
(* cursor skips nothing.                                                   *)
(***************************************************************************)
EXTENDS SyncSystem_proofs

-----------------------------------------------------------------------------
(***************************************************************************)
(* The inductive invariant, in parts, on top of those of the log.          *)
(***************************************************************************)

\* The number of a mutation is a key of those made; ids are not, since a clock starts again
\* with its tab.
UidKeys ==
    /\ \A o \in issued : o.uid <= Cardinality(issued) /\ o.lam \in 1..MaxLamport
    /\ \A o, p \in issued : o.uid = p.uid => o = p

InLog(o) == \E e \in log : e.op = o

\* The positions of a batch that the apply loop has passed are applied, and those ahead of it
\* are not; all of them are logged, and no op is there twice.
LoopInv ==
    /\ \A u \in applied : \E e \in log : e.op.uid = u
    /\ \A i \in DOMAIN srv.acks : srv.acks[i] = "accepted" =>
          /\ InLog(srv.batch[i])
          /\ srv.batch[i].uid \in applied <=> i < srv.next
          /\ \A j \in DOMAIN srv.acks :
                srv.acks[j] = "accepted" /\ i # j => srv.batch[i] # srv.batch[j]

\* A device has acks in hand only while it is to read them.
AcksInHand == \A d \in Device : phase[d] # "acks" => acks[d] = <<>>

\* A rejected id is logged, so that no later push is given it as new; and an answer that is
\* no duplicate, on its way to the device, is about an id that was never rejected.
RejectInv ==
    /\ \A d \in Device, l \in 1..MaxLamport :
          rejects[d][l] # 0 => rejects[d][l] = 1 /\ <<d, l>> \in LogIds
    /\ \A d \in srv.to, l \in 1..MaxLamport : \A i \in DOMAIN srv.acks :
          srv.acks[i] # "duplicate" /\ OpId(srv.batch[i]) = <<d, l>> => rejects[d][l] = 0
    /\ \A d \in Device, l \in 1..MaxLamport : \A i \in DOMAIN acks[d] :
          acks[d][i] = "rejected" /\ OpId(batch[d][i]) = <<d, l>> => rejects[d][l] = 0
    /\ \A d \in Device : quarantine[d] = {}

\* What lies between the cursor and the next one is in the page; both are numbers that the
\* counter has passed, so that a later entry is beyond them.
CursorInv ==
    \A d \in Device :
      /\ cursor[d] <= counter /\ next[d] <= counter
      /\ \A e \in log : e.seq <= cursor[d] => e.op.uid \in seen[d]
      /\ phase[d] \in {"page", "apply"} =>
            \A e \in log : e.seq <= next[d] => e.op.uid \in seen[d] \/ e.op \in page[d]

\* The parts that the log's own theorems rest on.
LogInv == TypeInv /\ OnlyIssued /\ LogKeys /\ AcksFit

\* They hold in every state.
LEMMA LogInvHolds == Spec => []LogInv
<1>1. Init => OnlyIssued /\ LogKeys /\ AcksFit
  BY EmptyRange DEF Init, EngineInit, ServerInit, NoPush, OnlyIssued, LogKeys, AcksFit, Logged
<1>2. TypeInv /\ OnlyIssued /\ LogKeys /\ AcksFit /\ [Next]_vars => (OnlyIssued /\ LogKeys /\ AcksFit)'
  BY IssuedStep, KeysStep, FitStep
<1> QED
  BY <1>1, <1>2, TypeInvariant, PTL DEF Spec, LogInv

-----------------------------------------------------------------------------
(***************************************************************************)
(* Mutations.                                                              *)
(***************************************************************************)

\* A step either makes one mutation, with the next number, or none.
LEMMA IssuedNext ==
  ASSUME TypeInv, [Next]_vars
  PROVE  \/ issued' = issued
         \/ \E o \in Op : /\ issued' = issued \cup {o}
                          /\ o.uid = Cardinality(issued) + 1
                          /\ o.lam \in 1..MaxLamport
<1>1. ASSUME NEW d \in Device, Edit(d)
      PROVE  \E o \in Op : /\ issued' = issued \cup {o}
                           /\ o.uid = Cardinality(issued) + 1
                           /\ o.lam \in 1..MaxLamport
  <2>1. PICK kind \in Edits, n \in Note, fields \in SUBSET Field, nb \in NotebookOrNone :
           Enqueue(d, kind, n, fields, nb)
    BY <1>1 DEF Edit, NotebookOrNone
  <2> DEFINE o == [dev |-> d, lam |-> lamport[d] + 1, uid |-> Cardinality(issued) + 1,
                   kind |-> kind, note |-> n, fields |-> fields, nb |-> nb]
  <2>2. issued' = issued \cup {o} /\ lamport[d] < MaxLamport
    BY <2>1 DEF Enqueue
  <2>3. issued' \subseteq Op
    BY <1>1, EditType DEF TypeInv, TypeOK, EngineTypeOK
  <2>4. o.lam \in 1..MaxLamport
    BY <2>2, SyncEngineAssumption DEF TypeInv, TypeOK, EngineTypeOK
  <2> QED
    BY <2>2, <2>3, <2>4
<1>2. ASSUME NEW d \in Device, DeviceStep(d), ~Edit(d) PROVE issued' = issued
  BY <1>2 DEF DeviceStep, Save, Start, Acks, Page, Apply, Finish, Ingest, Serve, LosePush,
     LosePull, Reopen, Persist, StartSync, RecvAcks, RecvPage, ApplyNext, EndPage, PushFails,
     PullFails, Restart
<1>3. CASE LateIngest \/ Tables \/ Reply \/ Server \/ Crash \/ UNCHANGED vars
  BY <1>3 DEF LateIngest, Tables, Reply, Server, Crash, PushFails, engineVars, vars
<1> QED
  BY <1>1, <1>2, <1>3 DEF Next

\* Every step keeps UidKeys.
LEMMA UidStep ==
  ASSUME TypeInv, UidKeys, [Next]_vars
  PROVE  UidKeys'
<1>1. CASE issued' = issued
  BY <1>1 DEF UidKeys
<1>2. ASSUME NEW o \in Op, issued' = issued \cup {o}, o.uid = Cardinality(issued) + 1,
             o.lam \in 1..MaxLamport
      PROVE  UidKeys'
  <2>1. IsFiniteSet(issued) /\ Cardinality(issued) \in Nat /\ issued \subseteq Op
    BY FS_CardinalityType DEF TypeInv, Bounded, TypeOK, EngineTypeOK
  <2>2. \A p \in issued : p.uid \in Nat /\ p.uid < o.uid
    BY <1>2, <2>1 DEF UidKeys, Op
  <2>3. o \notin issued
    BY <2>2
  <2>4. Cardinality(issued') = Cardinality(issued) + 1
    BY <1>2, <2>1, <2>3, FS_AddElement
  <2> QED
    BY <1>2, <2>1, <2>2, <2>4 DEF UidKeys
<1> QED
  BY <1>1, <1>2, IssuedNext

\* Two ops of the log or of the batch at hand that carry one number are one op.
LEMMA SameMutation ==
  ASSUME LogInv, UidKeys, NEW o \in issued, NEW e \in log, e.op.uid = o.uid
  PROVE  e.op = o
  BY DEF LogInv, OnlyIssued, UidKeys

-----------------------------------------------------------------------------
(***************************************************************************)
(* The apply loop of a push.                                               *)
(***************************************************************************)

\* All that happens to a push at the server: it comes in, the loop takes a turn, it is
\* answered or cut off, its device gives up on it.
LEMMA PushStep ==
  ASSUME LogInv, [Next]_vars
  PROVE  \/ /\ UNCHANGED <<log, applied>>
            /\ srv'.acks = srv.acks /\ srv'.batch = srv.batch /\ srv'.next = srv.next
            /\ srv'.to \subseteq srv.to
         \/ \E b \in Seq(Op), to \in SUBSET Device : /\ ServerIngest(b, to)
                                                    /\ Range(b) \subseteq issued
                                                    /\ UNCHANGED <<rejects, quarantine>>
         \/ Tables
         \/ UNCHANGED <<log, applied>> /\ srv' = NoPush
<1> USE DEF LogInv, TypeInv, TypeOK, EngineTypeOK
<1>1. ASSUME NEW d \in Device, Ingest(d)
      PROVE  \E b \in Seq(Op), to \in SUBSET Device : /\ ServerIngest(b, to)
                                                     /\ Range(b) \subseteq issued
                                                     /\ UNCHANGED <<rejects, quarantine>>
  <2>1. batch[d] \in Seq(Op) /\ {d} \in SUBSET Device /\ Range(batch[d]) \subseteq issued
    BY DEF OnlyIssued
  <2> QED
    BY <1>1, <2>1 DEF Ingest
<1>2. ASSUME NEW d \in Device, ServerUnheard(d)
      PROVE  /\ srv'.acks = srv.acks /\ srv'.batch = srv.batch /\ srv'.next = srv.next
             /\ srv'.to \subseteq srv.to
  BY <1>2 DEF ServerUnheard, ServerTypeOK, Push
<1>3. ASSUME NEW d \in Device, LosePush(d) \/ Reopen(d)
      PROVE  UNCHANGED <<log, applied>> /\ ServerUnheard(d)
  BY <1>3 DEF LosePush, Reopen
<1>4. ASSUME NEW d \in Device, DeviceStep(d), ~(Ingest(d) \/ LosePush(d) \/ Reopen(d))
      PROVE  UNCHANGED <<log, applied, srv>>
  BY <1>4 DEF DeviceStep, Edit, Save, Start, Acks, Page, Apply, Finish, Serve, LosePull, serverVars
<1>5. CASE Reply \/ Crash
  BY <1>5 DEF Reply, Crash, ServerReply, ServerCrash
<1>6. CASE Server
  <2>1. UNCHANGED <<applied, srv>>
    BY <1>6 DEF Server, Compact, RestRemoveNotebook, RestPatch, RestTrash, RestRestore, RestWrite
  <2>2. log' = log
    <3>1. CASE Compact
      BY <3>1, NoCandidates DEF Compact
    <3> QED
      BY <1>6, <3>1 DEF Server, RestRemoveNotebook, RestPatch, RestTrash, RestRestore, RestWrite
  <2> QED
    BY <2>1, <2>2
<1>7. CASE LateIngest
  <2>1. PICK b \in late : ServerIngest(b, {}) /\ UNCHANGED <<rejects, quarantine>>
    BY <1>7 DEF LateIngest, engineVars
  <2>2. b \in Seq(Op) /\ {} \in SUBSET Device /\ Range(b) \subseteq issued
    BY DEF OnlyIssued
  <2> QED
    BY <2>1, <2>2
<1>8. CASE UNCHANGED vars
  BY <1>8 DEF vars, serverVars
<1> QED
  BY <1>1, <1>2, <1>3, <1>4, <1>5, <1>6, <1>7, <1>8 DEF Next

\* A batch comes in: what is new in it was never applied, since what was applied is logged.
LEMMA IngestLoop ==
  ASSUME LogInv, UidKeys, LoopInv, NEW b \in Seq(Op), NEW to, ServerIngest(b, to),
         Range(b) \subseteq issued
  PROVE  LoopInv'
<1> DEFINE a == [i \in DOMAIN b |-> IF i \in FreshAt(b) THEN "accepted" ELSE "duplicate"]
<1>1. /\ srv'.acks = a /\ srv'.batch = b /\ srv'.next = 1 /\ applied' = applied
      /\ log' = log \cup {[op |-> b[i], seq |-> SeqAt(b, i)] : i \in FreshAt(b)}
  BY DEF ServerIngest
<1>2. Len(b) \in Nat /\ DOMAIN b = 1..Len(b)
  BY LenProperties
<1>3. \A i \in DOMAIN a : a[i] = "accepted" => i \in FreshAt(b)
  OBVIOUS
<1>4. \A i \in FreshAt(b) : \E e \in log' : e.op = b[i]
  <2> TAKE i \in FreshAt(b)
  <2>1. [op |-> b[i], seq |-> SeqAt(b, i)] \in log'
    BY <1>1
  <2> QED
    BY <2>1
<1>5. ASSUME NEW i \in FreshAt(b) PROVE b[i].uid \notin applied
  <2>1. b[i] \in issued /\ OpId(b[i]) \notin LogIds
    BY DEF FreshAt, Range
  <2>2. \A e \in log : e.op.uid # b[i].uid
    BY <2>1, SameMutation DEF LogIds
  <2> QED
    BY <2>2 DEF LoopInv
<1>6. \A i, j \in FreshAt(b) : i # j => b[i] # b[j]
  <2>1. ASSUME NEW i \in FreshAt(b), NEW j \in FreshAt(b), i < j PROVE b[i] # b[j]
    <3>1. i \in 1..Len(b) /\ j \in 1..Len(b)
      BY <1>2 DEF FreshAt
    <3>2. i \in 1..(j - 1)
      BY <2>1, <3>1
    <3> QED
      BY <3>2 DEF FreshAt
  <2>2. \A i \in FreshAt(b) : i \in 1..Len(b)
    BY <1>2 DEF FreshAt
  <2>3. \A i, j \in FreshAt(b) : i # j => i < j \/ j < i
    BY <1>2, <2>2
  <2> QED
    BY <2>1, <2>3
<1>7. \A i \in FreshAt(b) : ~(i < 1)
  BY <1>2 DEF FreshAt
<1>8. \A u \in applied' : \E e \in log' : e.op.uid = u
  BY <1>1 DEF LoopInv
<1> HIDE DEF a
<1> QED
  BY <1>1, <1>3, <1>4, <1>5, <1>6, <1>7, <1>8 DEF LoopInv, InLog

\* One turn of the loop.
LEMMA TablesLoop ==
  ASSUME LogInv, UidKeys, LoopInv, Tables
  PROVE  LoopInv'
<1> USE DEF LogInv, TypeInv, TypeOK
<1> DEFINE n == srv.next
           o == srv.batch[n]
           throws == srv.acks[n] = "accepted" /\ ServerThrows(notes[o.note], o, notebooks)
           done == srv.acks[n] = "accepted" /\ ~throws
<1>1. /\ applied' = IF done THEN applied \cup {o.uid} ELSE applied
      /\ srv' = [srv EXCEPT !.next = @ + 1,
                            !.acks = IF throws THEN [@ EXCEPT ![n] = "rejected"] ELSE @]
      /\ log' = log
      /\ srv.busy /\ n <= Len(srv.batch)
  BY DEF Tables, ServerApplyNext
<1>2. /\ srv \in Push /\ n \in Nat /\ n >= 1
      /\ Len(srv.acks) = Len(srv.batch) /\ srv.acks \in Seq(Status) /\ srv.batch \in Seq(Op)
      /\ DOMAIN srv.acks = 1..Len(srv.acks) /\ Len(srv.acks) \in Nat
      /\ DOMAIN srv.batch = 1..Len(srv.batch)
  BY <1>1, LenProperties DEF ServerTypeOK, Push, Bounded, AcksFit
<1>3. n \in DOMAIN srv.acks
  BY <1>1, <1>2
<1>4. /\ srv'.batch = srv.batch /\ srv'.next = n + 1
      /\ DOMAIN srv'.acks = DOMAIN srv.acks
      /\ \A i \in DOMAIN srv.acks : srv'.acks[i] = IF throws /\ i = n THEN "rejected" ELSE srv.acks[i]
  <2>1. srv'.batch = srv.batch /\ srv'.next = n + 1
    BY <1>1, <1>2 DEF Push
  <2>2. srv'.acks = IF throws THEN [srv.acks EXCEPT ![n] = "rejected"] ELSE srv.acks
    BY <1>1, <1>2 DEF Push
  <2> QED
    BY <2>1, <2>2
<1>5. \A i \in DOMAIN srv.acks : srv'.acks[i] = "accepted" => srv.acks[i] = "accepted" /\ (i = n => done)
  BY <1>4
<1>6. \A i \in DOMAIN srv.acks : i \in Nat /\ (i < n + 1 <=> i < n \/ i = n)
  BY <1>2
<1>7. done => \E e \in log : e.op.uid = o.uid
  BY <1>3 DEF LoopInv, InLog
<1>8. ASSUME NEW i \in DOMAIN srv.acks, srv'.acks[i] = "accepted"
      PROVE  srv.batch[i].uid \in applied' <=> i < n + 1
  <2>1. srv.acks[i] = "accepted" /\ (srv.batch[i].uid \in applied <=> i < n)
    BY <1>5, <1>8 DEF LoopInv
  <2>2. CASE i = n
    BY <1>1, <1>5, <1>6, <1>8, <2>2
  <2>3. CASE i # n
    <3>1. done => srv.batch[i].uid # o.uid
      <4>1. srv.batch[i] \in issued /\ o \in issued
        BY <1>2, <1>3 DEF OnlyIssued, Range
      <4>2. done => srv.batch[i] # o
        BY <1>3, <2>1, <2>3 DEF LoopInv
      <4> QED
        BY <4>1, <4>2 DEF UidKeys
    <3> QED
      BY <1>1, <1>6, <2>1, <2>3, <3>1
  <2> QED
    BY <2>2, <2>3
<1>9. \A u \in applied' : \E e \in log' : e.op.uid = u
  BY <1>1, <1>7 DEF LoopInv
<1> HIDE DEF throws, done, o, n
<1> QED
  BY <1>1, <1>4, <1>5, <1>8, <1>9 DEF LoopInv, InLog

\* Every step keeps LoopInv.
LEMMA LoopStep ==
  ASSUME LogInv, UidKeys, LoopInv, [Next]_vars
  PROVE  LoopInv'
<1>1. CASE /\ UNCHANGED <<log, applied>>
           /\ srv'.acks = srv.acks /\ srv'.batch = srv.batch /\ srv'.next = srv.next
  BY <1>1 DEF LoopInv, InLog
<1>2. CASE UNCHANGED <<log, applied>> /\ srv' = NoPush
  BY <1>2 DEF LoopInv, InLog, NoPush
<1> QED
  BY <1>1, <1>2, PushStep, IngestLoop, TablesLoop

\* The apply loop never comes to an op that was applied, however often a batch arrives
\* (applySyncOpToDb behind ingestOps).
THEOREM AppliedOnceHolds == Spec => []AppliedOnce
<1>1. Init => UidKeys /\ LoopInv
  BY DEF Init, EngineInit, ServerInit, NoPush, UidKeys, LoopInv
<1>2. LogInv /\ UidKeys /\ LoopInv /\ [Next]_vars => (UidKeys /\ LoopInv)'
  BY UidStep, LoopStep DEF LogInv
<1>3. LogInv /\ LoopInv => AppliedOnce
  <2>1. SUFFICES ASSUME LogInv, LoopInv, NEW i \in DOMAIN srv.acks, i >= srv.next,
                        srv.acks[i] = "accepted"
                 PROVE  srv.batch[i].uid \notin applied
    BY DEF AppliedOnce
  <2>2. i \in Nat /\ srv.next \in Nat
    <3>1. srv.next \in Nat /\ srv.acks \in Seq(Status)
      BY <2>1 DEF LogInv, TypeInv, TypeOK, ServerTypeOK, Push
    <3> QED
      BY <3>1, LenProperties
  <2> QED
    BY <2>1, <2>2 DEF LoopInv
<1> QED
  BY <1>1, <1>2, <1>3, LogInvHolds, PTL DEF Spec
-----------------------------------------------------------------------------
(***************************************************************************)
(* The answer of a push.                                                   *)
(***************************************************************************)

\* What AcceptedIsApplied says of one op.
Applied(o) == o.uid \in applied /\ InLog(o)

\* A device takes acks over from the server, keeps them with their batch, or has none.
LEMMA AcksMove ==
  ASSUME LogInv, AcksInHand, [Next]_vars, NEW d \in Device
  PROVE  \/ acks'[d] = <<>>
         \/ acks'[d] = acks[d] /\ batch'[d] = batch[d] /\ phase'[d] = phase[d]
         \/ Reply /\ d \in srv.to /\ acks'[d] = srv.acks /\ batch'[d] = batch[d] /\ phase'[d] = "acks"
<1> USE DEF LogInv, TypeInv, TypeOK, EngineTypeOK
<1>1. ASSUME NEW c \in Device, DeviceStep(c), c # d
      PROVE  acks'[d] = acks[d] /\ batch'[d] = batch[d] /\ phase'[d] = phase[d]
  BY <1>1 DEF DeviceStep, Edit, Save, Start, Acks, Page, Apply, Finish, Ingest, Serve, LosePush,
     LosePull, Reopen, Enqueue, Persist, StartSync, RecvAcks, TakeAcks, RecvPage, ApplyNext,
     EndPage, PushFails, PullFails, Restart, PushNext, cycleVars
<1>2. CASE DeviceStep(d)
  <2>1. CASE Acks(d) \/ LosePush(d) \/ Reopen(d)
    BY <2>1 DEF Acks, LosePush, Reopen, RecvAcks, PushFails, Restart
  <2>2. CASE Edit(d) \/ Save(d)
    <3>1. UNCHANGED <<acks, batch, phase>>
      BY <2>2 DEF Edit, Save, Enqueue, Persist, cycleVars
    <3> QED
      BY <3>1
  <2>3. CASE Start(d) \/ Page(d) \/ Apply(d) \/ Finish(d) \/ Ingest(d) \/ Serve(d) \/ LosePull(d)
    <3>1. acks' = acks /\ phase[d] # "acks"
      BY <2>3 DEF Start, Page, Apply, Finish, Ingest, Serve, LosePull, StartSync, RecvPage,
         ApplyNext, EndPage, PullFails
    <3> QED
      BY <3>1 DEF AcksInHand
  <2> QED
    BY <1>2, <2>1, <2>2, <2>3 DEF DeviceStep
<1>3. CASE LateIngest \/ Tables \/ Server \/ UNCHANGED vars
  BY <1>3 DEF LateIngest, Tables, Server, vars, engineVars
<1>4. CASE Reply
  BY <1>4 DEF Reply
<1>5. CASE Crash
  <2>1. CASE srv.to = {}
    BY <1>5, <2>1 DEF Crash, engineVars
  <2>2. CASE srv.to # {}
    <3>1. PICK c \in srv.to : PushFails(c)
      BY <1>5, <2>2 DEF Crash
    <3>2. c \in Device
      BY DEF ServerTypeOK, Push
    <3>3. CASE c = d
      BY <3>1, <3>3 DEF PushFails
    <3>4. CASE c # d
      BY <3>1, <3>2, <3>4 DEF PushFails, PushNext
    <3> QED
      BY <3>3, <3>4
  <2> QED
    BY <2>1, <2>2
<1> QED
  BY <1>1, <1>2, <1>3, <1>4, <1>5 DEF Next

\* Every step keeps AcksInHand: acks go when they are read, or with their push or tab.
LEMMA InHandStep ==
  ASSUME LogInv, AcksInHand, [Next]_vars
  PROVE  AcksInHand'
<1>1. ASSUME NEW d \in Device, phase'[d] # "acks" PROVE acks'[d] = <<>>
  BY <1>1, AcksMove DEF AcksInHand
<1> QED
  BY <1>1 DEF AcksInHand

\* What is applied and logged stays so.
LEMMA AppliedGrows ==
  ASSUME LogInv, [Next]_vars
  PROVE  applied \subseteq applied' /\ log \subseteq log'
<1>1. CASE Tables
  BY <1>1 DEF Tables, ServerApplyNext
<1>2. ASSUME NEW b, NEW to, ServerIngest(b, to) PROVE applied' = applied
  BY <1>2 DEF ServerIngest
<1> QED
  BY <1>1, <1>2, PushStep, LogGrows DEF LogInv

\* Every step keeps AcceptedIsApplied: the answer leaves when the loop is at its end.
LEMMA AcceptedStep ==
  ASSUME LogInv, LoopInv, AcksInHand, AcceptedIsApplied, [Next]_vars
  PROVE  AcceptedIsApplied'
<1>1. \A o : Applied(o) => Applied(o)'
  BY AppliedGrows DEF Applied, InLog
<1>2. ASSUME NEW d \in Device, NEW i \in DOMAIN acks'[d], acks'[d][i] = "accepted"
      PROVE  Applied(batch[d][i])'
  <2>1. CASE acks'[d] = <<>>
    BY <1>2, <2>1
  <2>2. CASE acks'[d] = acks[d] /\ batch'[d] = batch[d]
    <3>1. Applied(batch[d][i])
      BY <1>2, <2>2 DEF AcceptedIsApplied, Applied, InLog
    <3> QED
      BY <1>1, <2>2, <3>1
  <2>3. CASE Reply /\ d \in srv.to /\ acks'[d] = srv.acks /\ batch'[d] = batch[d]
    <3>1. batch[d] = srv.batch /\ srv.next > Len(srv.batch) /\ Len(srv.acks) = Len(srv.batch)
      BY <2>3 DEF LogInv, AcksFit, Reply, ServerReply
    <3>2. srv.acks \in Seq(Status) /\ srv.next \in Nat
      BY DEF LogInv, TypeInv, TypeOK, ServerTypeOK, Push
    <3>3. i \in DOMAIN srv.acks /\ srv.acks[i] = "accepted"
      BY <1>2, <2>3
    <3>4. i < srv.next
      BY <3>1, <3>2, <3>3, LenProperties
    <3>5. Applied(srv.batch[i])
      BY <3>3, <3>4 DEF LoopInv, Applied
    <3> QED
      BY <1>1, <2>3, <3>1, <3>5
  <2> QED
    BY <2>1, <2>2, <2>3, AcksMove
<1> QED
  BY <1>2 DEF AcceptedIsApplied, Applied, InLog

\* A device that is told "accepted" can rely on it: the op is logged and has been through the
\* tables, also when the push was repeated or its server died.
THEOREM AcceptedIsAppliedHolds == Spec => []AcceptedIsApplied
<1>1. Init => UidKeys /\ LoopInv /\ AcksInHand /\ AcceptedIsApplied
  BY DEF Init, EngineInit, ServerInit, NoPush, UidKeys, LoopInv, AcksInHand, AcceptedIsApplied
<1>2. LogInv /\ UidKeys /\ LoopInv /\ AcksInHand /\ AcceptedIsApplied /\ [Next]_vars
        => (UidKeys /\ LoopInv /\ AcksInHand /\ AcceptedIsApplied)'
  BY UidStep, LoopStep, InHandStep, AcceptedStep DEF LogInv
<1> QED
  BY <1>1, <1>2, LogInvHolds, PTL DEF Spec
-----------------------------------------------------------------------------
(***************************************************************************)
(* Rejections.                                                             *)
(***************************************************************************)

\* The counts of a device change when it reads acks, and are gone with its tab.
LEMMA RejectsMove ==
  ASSUME LogInv, [Next]_vars, NEW d \in Device
  PROVE  \/ rejects'[d] = rejects[d] /\ quarantine'[d] = quarantine[d]
         \/ rejects'[d] = [l \in 1..MaxLamport |-> 0] /\ quarantine'[d] = {}
         \/ Acks(d) /\ TakeAcks(d)
<1> USE DEF LogInv, TypeInv, TypeOK, EngineTypeOK
<1>1. ASSUME NEW c \in Device, DeviceStep(c), ~(Acks(c) \/ Reopen(c))
      PROVE  UNCHANGED <<rejects, quarantine>>
  BY <1>1 DEF DeviceStep, Edit, Save, Start, Page, Apply, Finish, Ingest, Serve, LosePush,
     LosePull, Enqueue, Persist, StartSync, RecvPage, ApplyNext, EndPage, PushFails, PullFails
<1>2. ASSUME NEW c \in Device, Reopen(c) PROVE
         /\ rejects' = [rejects EXCEPT ![c] = [l \in 1..MaxLamport |-> 0]]
         /\ quarantine' = [quarantine EXCEPT ![c] = {}]
  BY <1>2 DEF Reopen, Restart
<1>3. ASSUME NEW c \in Device, Acks(c), c # d
      PROVE  rejects'[d] = rejects[d] /\ quarantine'[d] = quarantine[d]
  BY <1>3 DEF Acks, RecvAcks, TakeAcks
<1>4. Acks(d) => TakeAcks(d) \/ UNCHANGED <<rejects, quarantine>>
  BY DEF Acks, RecvAcks
<1>5. CASE LateIngest \/ Tables \/ Reply \/ Server \/ Crash \/ UNCHANGED vars
  BY <1>5 DEF LateIngest, Tables, Reply, Server, Crash, PushFails, vars, engineVars
<1> QED
  BY <1>1, <1>2, <1>3, <1>4, <1>5 DEF Next

\* An answer "rejected" is counted once, and one is not enough for quarantine.
LEMMA AcksCount ==
  ASSUME LogInv, UidKeys, RejectInv, NEW d \in Device, Acks(d), TakeAcks(d)
  PROVE  /\ quarantine'[d] = {}
         /\ \A l \in 1..MaxLamport :
              rejects'[d][l] # 0 => rejects'[d][l] = 1 /\ <<d, l>> \in LogIds
<1> USE DEF LogInv, TypeInv, TypeOK, EngineTypeOK
<1>1. /\ rejects' = [rejects EXCEPT ![d] = Rejections(d)]
      /\ quarantine' = [quarantine EXCEPT
                           ![d] = @ \cup {o \in Range(outbox[d]) : OpId(o) \in Hopeless(d)}]
  BY DEF TakeAcks
<1>2. phase[d] = "acks" /\ Len(acks[d]) = Len(batch[d]) /\ Logged(Range(batch[d]))
  BY DEF Acks, RecvAcks, AcksFit
<1>3. DOMAIN acks[d] = DOMAIN batch[d]
  <2>1. acks[d] \in Seq(Status) /\ batch[d] \in Seq(Op)
    OBVIOUS
  <2> QED
    BY <1>2, <2>1, LenProperties
<1>4. ASSUME NEW l \in 1..MaxLamport, <<d, l>> \in AckedWith(d, {"rejected"})
      PROVE  rejects[d][l] = 0 /\ <<d, l>> \in LogIds
  <2>1. PICK i \in DOMAIN batch[d] : acks[d][i] = "rejected" /\ OpId(batch[d][i]) = <<d, l>>
    BY <1>4 DEF AckedWith
  <2>2. batch[d][i] \in Range(batch[d])
    BY DEF Range
  <2> QED
    BY <1>2, <1>3, <2>1, <2>2 DEF RejectInv, Logged
<1>5. ASSUME NEW l \in 1..MaxLamport
      PROVE  /\ Rejections(d)[l] \in {0, 1}
             /\ Rejections(d)[l] # 0 => <<d, l>> \in LogIds
  <2>1. Rejections(d)[l] = IF <<d, l>> \in AckedWith(d, {"accepted", "duplicate"}) THEN 0
                           ELSE IF <<d, l>> \in AckedWith(d, {"rejected"}) THEN rejects[d][l] + 1
                           ELSE rejects[d][l]
    BY DEF Rejections
  <2>2. rejects[d][l] # 0 => rejects[d][l] = 1 /\ <<d, l>> \in LogIds
    BY DEF RejectInv
  <2> QED
    BY <1>4, <2>1, <2>2
<1>6. Hopeless(d) = {}
  <2>0. \A n \in {0, 1} : ~(n >= QUARANTINE_THRESHOLD)
    BY DEF QUARANTINE_THRESHOLD
  <2>1. SUFFICES ASSUME NEW id \in AckedWith(d, {"rejected"}) PROVE Rejections(d)[id[2]] \in {0, 1}
    BY <2>0, Zenon DEF Hopeless
  <2>2. PICK i \in DOMAIN batch[d] : OpId(batch[d][i]) = id
    BY <2>1 DEF AckedWith
  <2>3. batch[d][i] \in issued
    BY DEF OnlyIssued, Range
  <2>4. id[2] = batch[d][i].lam
    BY <2>2 DEF OpId
  <2> QED
    BY <1>5, <2>3, <2>4 DEF UidKeys
<1>7. quarantine'[d] = {}
  BY <1>1, <1>6 DEF RejectInv
<1> QED
  BY <1>1, <1>5, <1>7

\* Every step keeps RejectInv: the server rejects only what it has just logged.
LEMMA RejectStep ==
  ASSUME LogInv, UidKeys, AcksInHand, RejectInv, [Next]_vars
  PROVE  RejectInv'
<1> USE DEF LogInv
<1>0. LogIds \subseteq LogIds'
  BY LogGrows
<1>1. ASSUME NEW d \in Device
      PROVE  /\ quarantine'[d] = {}
             /\ \A l \in 1..MaxLamport :
                  rejects'[d][l] # 0 => rejects'[d][l] = 1 /\ <<d, l>> \in LogIds'
  <2>1. CASE rejects'[d] = rejects[d] /\ quarantine'[d] = quarantine[d]
    BY <1>0, <2>1 DEF RejectInv
  <2>2. CASE rejects'[d] = [l \in 1..MaxLamport |-> 0] /\ quarantine'[d] = {}
    BY <2>2
  <2>3. CASE Acks(d) /\ TakeAcks(d)
    BY <1>0, <2>3, AcksCount
  <2> QED
    BY <2>1, <2>2, <2>3, RejectsMove
<1>2. ASSUME NEW d \in Device, ~Acks(d), NEW l \in 1..MaxLamport, rejects[d][l] = 0
      PROVE  rejects'[d][l] = 0
  BY <1>2, RejectsMove
<1>3. ASSUME NEW d \in srv'.to, NEW l \in 1..MaxLamport, NEW i \in DOMAIN srv'.acks,
             srv'.acks[i] # "duplicate", OpId(srv'.batch[i]) = <<d, l>>
      PROVE  rejects'[d][l] = 0
  <2>0. d \in Device
    BY TypeStep DEF TypeInv, TypeOK, ServerTypeOK, Push
  <2>a. d \in srv.to => ~Acks(d)
    BY DEF AcksFit, Acks, RecvAcks
  <2>1. CASE srv'.acks = srv.acks /\ srv'.batch = srv.batch /\ srv'.to \subseteq srv.to
    <3>1. rejects[d][l] = 0
      BY <1>3, <2>1 DEF RejectInv
    <3> QED
      BY <1>2, <2>0, <2>a, <2>1, <3>1
  <2>2. ASSUME NEW b \in Seq(Op), NEW to, ServerIngest(b, to), UNCHANGED <<rejects, quarantine>>
        PROVE  rejects'[d][l] = 0
    <3>1. srv'.batch = b /\ DOMAIN srv'.acks = DOMAIN b
          /\ \A j \in DOMAIN b : srv'.acks[j] # "duplicate" => j \in FreshAt(b)
      BY <2>2 DEF ServerIngest
    <3>2. <<d, l>> \notin LogIds
      BY <1>3, <3>1 DEF FreshAt
    <3> QED
      BY <2>0, <2>2, <3>2 DEF RejectInv
  <2>3. CASE Tables
    <3>1. /\ srv'.batch = srv.batch /\ srv'.to = srv.to /\ DOMAIN srv'.acks = DOMAIN srv.acks
          /\ \A j \in DOMAIN srv.acks : srv.acks[j] = "duplicate" => srv'.acks[j] = "duplicate"
      BY <2>3 DEF Tables, ServerApplyNext, TypeInv, TypeOK, ServerTypeOK, Push
    <3>2. srv.acks[i] # "duplicate"
      BY <1>3, <3>1
    <3>3. rejects[d][l] = 0
      BY <1>3, <3>1, <3>2 DEF RejectInv
    <3> QED
      BY <1>2, <2>0, <2>a, <3>1, <3>3
  <2>4. CASE srv' = NoPush
    BY <1>3, <2>4 DEF NoPush
  <2> QED
    BY <2>1, <2>2, <2>3, <2>4, PushStep
<1>4. ASSUME NEW d \in Device, NEW l \in 1..MaxLamport, NEW i \in DOMAIN acks'[d],
             acks'[d][i] = "rejected", OpId(batch'[d][i]) = <<d, l>>
      PROVE  rejects'[d][l] = 0
  <2>1. acks'[d] # <<>>
    BY <1>4
  <2>2. ~Acks(d)
    BY <2>1 DEF Acks, RecvAcks, TypeInv, TypeOK, EngineTypeOK
  <2>3. rejects[d][l] = 0
    <3>1. CASE acks'[d] = acks[d] /\ batch'[d] = batch[d]
      BY <1>4, <3>1 DEF RejectInv
    <3>2. CASE d \in srv.to /\ acks'[d] = srv.acks /\ batch'[d] = batch[d]
      BY <1>4, <3>2 DEF RejectInv, AcksFit
    <3> QED
      BY <2>1, <3>1, <3>2, AcksMove
  <2> QED
    BY <1>2, <2>2, <2>3
<1> QED
  BY <1>1, <1>3, <1>4 DEF RejectInv

\* The server rejects an op at most once, so the quarantine that waits for a third time stays
\* empty (RejectionTracker of engine.ts against the ingest of sync.ts).
THEOREM RejectedAtMostOnceHolds == Spec => []RejectedAtMostOnce
<1>1. Init => UidKeys /\ AcksInHand /\ RejectInv
  BY DEF Init, EngineInit, ServerInit, NoPush, UidKeys, AcksInHand, RejectInv
<1>2. LogInv /\ UidKeys /\ AcksInHand /\ RejectInv /\ [Next]_vars
        => (UidKeys /\ AcksInHand /\ RejectInv)'
  BY UidStep, InHandStep, RejectStep DEF LogInv
<1>3. RejectInv => RejectedAtMostOnce
  <2>1. \A n \in {0, 1} : n <= 1
    OBVIOUS
  <2>2. RejectInv => \A d \in Device, l \in 1..MaxLamport : rejects[d][l] \in {0, 1}
    BY DEF RejectInv
  <2> QED
    BY <2>1, <2>2, Zenon DEF RejectInv, RejectedAtMostOnce
<1> QED
  BY <1>1, <1>2, <1>3, LogInvHolds, PTL DEF Spec
-----------------------------------------------------------------------------
(***************************************************************************)
(* Pulls.                                                                  *)
(***************************************************************************)

\* A page holds all there is between the cursor and the next one.
LEMMA PageIsWhole ==
  ASSUME LogInv, NEW since \in Nat
  PROVE  /\ NextCursor(since) <= counter
         /\ \A e \in log : e.seq <= NextCursor(since) => e.seq <= since \/ e \in PageAfter(since)
<1> USE DEF LogInv
<1> DEFINE K == LaterSeqs(since)
<1>1. counter \in Nat /\ \A e \in log : e.seq \in 1..counter
  BY DEF TypeInv, TypeOK, ServerTypeOK, Bounded
<1>2. K \in SUBSET Nat /\ \A k \in K : k <= counter
  BY <1>1 DEF LaterSeqs, Later
<1>3. IsFiniteSet(K) /\ Cardinality(K) \in Nat
  BY <1>1, <1>2, FS_BoundedSetOfNaturals, FS_CardinalityType
<1>4. CASE Cardinality(K) <= PageSize
  <2>1. NextCursor(since) = 0
    BY <1>4 DEF NextCursor, NullCursor
  <2> QED
    BY <1>1, <2>1
<1>5. CASE ~(Cardinality(K) <= PageSize)
  <2>1. PageSize \in 1..Cardinality(K)
    BY <1>3, <1>5, SyncServerAssumption
  <2> DEFINE m == Nth(K, PageSize)
  <2>2. m \in K /\ Rank(K, m) = PageSize /\ NextCursor(since) = m
    BY <1>2, <1>3, <1>5, <2>1, NthInverse DEF NextCursor
  <2> HIDE DEF m
  <2>3. ASSUME NEW e \in log, e.seq <= m, ~(e.seq <= since) PROVE e \in PageAfter(since)
    <3>1. e \in Later(since) /\ e.seq \in K
      BY <1>1, <2>3 DEF Later, LaterSeqs
    <3>2. e.seq = m \/ Rank(K, e.seq) < Rank(K, m)
      <4>1. e.seq < m \/ e.seq = m
        BY <1>2, <2>2, <2>3, <3>1
      <4> QED
        BY <1>2, <1>3, <2>2, <3>1, <4>1, RankOrder
    <3>3. Rank(K, e.seq) \in Nat /\ PageSize \in Nat
      <4>1. Rank(K, e.seq) \in 1..Cardinality(K)
        BY <1>2, <1>3, <3>1, RankOrder
      <4> QED
        BY <4>1, SyncServerAssumption
    <3>4. Rank(K, e.seq) <= PageSize
      BY <2>2, <3>2, <3>3
    <3> QED
      BY <3>1, <3>4 DEF PageAfter
  <2> QED
    BY <1>2, <2>2, <2>3
<1> QED
  BY <1>4, <1>5

\* What CursorInv says of one device.
CursorOf(d) ==
    /\ cursor[d] <= counter /\ next[d] <= counter
    /\ \A e \in log : e.seq <= cursor[d] => e.op.uid \in seen[d]
    /\ phase[d] \in {"page", "apply"} =>
          \A e \in log : e.seq <= next[d] => e.op.uid \in seen[d] \/ e.op \in page[d]

\* A device's steps keep CursorOf(d): the log is as it was.
LEMMA CursorDevice ==
  ASSUME LogInv, NEW d \in Device, CursorOf(d), DeviceStep(d), ~Ingest(d)
  PROVE  CursorOf(d)'
<1> USE DEF LogInv, TypeInv, TypeOK, EngineTypeOK
<1>1. log' = log /\ counter' = counter
  BY DEF DeviceStep, Edit, Save, Start, Acks, Page, Apply, Finish, Serve, LosePush, LosePull,
     Reopen, serverVars
<1>2. counter \in Nat
  BY DEF ServerTypeOK
<1>3. CASE Edit(d) \/ Save(d) \/ Start(d) \/ Acks(d) \/ LosePush(d)
  <2>1. UNCHANGED <<cursor, seen, page, next>>
    BY <1>3 DEF Edit, Save, Start, Acks, LosePush, Enqueue, Persist, StartSync, RecvAcks,
       PushFails, cycleVars
  <2>2. CASE Edit(d) \/ Save(d)
    BY <1>1, <2>1, <2>2 DEF Edit, Save, Enqueue, Persist, cycleVars, CursorOf
  <2>3. CASE Start(d) \/ Acks(d) \/ LosePush(d)
    <3>1. PICK ops : PushNext(d, ops)
      BY <2>3 DEF Start, Acks, LosePush, StartSync, RecvAcks, TakeAcks, PushFails
    <3>2. phase'[d] \in {"push", "pull"}
      BY <3>1 DEF PushNext
    <3> QED
      BY <1>1, <2>1, <3>2 DEF CursorOf
  <2> QED
    BY <1>3, <2>2, <2>3
<1>4. CASE Page(d)
  BY <1>1, <1>2, <1>4 DEF Page, RecvPage, CursorOf
<1>5. CASE Apply(d)
  <2>1. PICK o \in page[d] : /\ seen' = [seen EXCEPT ![d] = @ \cup {o.uid}]
                             /\ page' = [page EXCEPT ![d] = @ \ {o}]
    BY <1>5 DEF Apply, ApplyNext
  <2>2. UNCHANGED <<cursor, next, phase>>
    BY <1>5 DEF Apply, ApplyNext
  <2> QED
    BY <1>1, <2>1, <2>2 DEF CursorOf
<1>6. CASE Finish(d)
  BY <1>1, <1>2, <1>6 DEF Finish, EndPage, CursorOf, INITIAL_CURSOR, Bounded
<1>7. CASE Serve(d)
  <2>1. /\ next' = [next EXCEPT ![d] = NextCursor(cursor[d])]
        /\ page' = [page EXCEPT ![d] = {e.op : e \in PageAfter(cursor[d])}]
        /\ UNCHANGED <<cursor, seen>>
    BY <1>7 DEF Serve
  <2>2. cursor[d] \in Nat
    OBVIOUS
  <2> QED
    BY <1>1, <2>1, <2>2, PageIsWhole DEF CursorOf
<1>8. CASE LosePull(d) \/ Reopen(d)
  BY <1>1, <1>2, <1>8 DEF LosePull, Reopen, PullFails, Restart, CursorOf
<1> QED
  BY <1>3, <1>4, <1>5, <1>6, <1>7, <1>8 DEF DeviceStep

\* The pull of d is as it was, and is in no later phase.
PullRests(d) ==
    /\ cursor'[d] = cursor[d] /\ seen'[d] = seen[d]
    /\ page'[d] = page[d] /\ next'[d] = next[d]
    /\ phase'[d] \in {"page", "apply"} => phase'[d] = phase[d]

\* The pull of a device rests while others take steps, and while the server has its push.
LEMMA OthersRest ==
  ASSUME LogInv, [Next]_vars, NEW d \in Device, ~DeviceStep(d) \/ Ingest(d)
  PROVE  PullRests(d)
<1> USE DEF LogInv, TypeInv, TypeOK, EngineTypeOK
<1>1. ASSUME NEW c \in Device, DeviceStep(c), c # d PROVE PullRests(d)
  <2>1. CASE Edit(c) \/ Save(c)
    BY <2>1 DEF Edit, Save, Enqueue, Persist, cycleVars, PullRests
  <2>2. CASE Start(c) \/ Acks(c) \/ LosePush(c)
    <3>1. UNCHANGED <<cursor, seen, page, next>>
      BY <2>2 DEF Start, Acks, LosePush, StartSync, RecvAcks, PushFails
    <3>2. PICK ops : PushNext(c, ops)
      BY <2>2 DEF Start, Acks, LosePush, StartSync, RecvAcks, TakeAcks, PushFails
    <3> QED
      BY <1>1, <3>1, <3>2 DEF PushNext, PullRests
  <2>3. CASE Page(c) \/ Apply(c) \/ Finish(c) \/ Ingest(c) \/ Serve(c) \/ LosePull(c) \/ Reopen(c)
    BY <1>1, <2>3 DEF Page, Apply, Finish, Ingest, Serve, LosePull, Reopen, RecvPage, ApplyNext,
       EndPage, PullFails, Restart, PullRests
  <2> QED
    BY <1>1, <2>1, <2>2, <2>3 DEF DeviceStep
<1>2. CASE Ingest(d)
  BY <1>2 DEF Ingest, PullRests
<1>3. CASE LateIngest \/ Tables \/ Server \/ UNCHANGED vars
  BY <1>3 DEF LateIngest, Tables, Server, vars, engineVars, PullRests
<1>4. CASE Reply
  BY <1>4 DEF Reply, PullRests
<1>5. CASE Crash
  <2>1. CASE srv.to = {}
    BY <1>5, <2>1 DEF Crash, engineVars, PullRests
  <2>2. CASE srv.to # {}
    <3>1. PICK c \in srv.to : PushFails(c)
      BY <1>5, <2>2 DEF Crash
    <3>2. c \in Device
      BY DEF ServerTypeOK, Push
    <3> QED
      BY <3>1, <3>2 DEF PushFails, PushNext, PullRests
  <2> QED
    BY <2>1, <2>2
<1> QED
  BY <1>1, <1>2, <1>3, <1>4, <1>5 DEF Next

\* A step adds to the log, if anything, entries beyond the counter.
LEMMA LogBeyond ==
  ASSUME LogInv, [Next]_vars
  PROVE  counter <= counter' /\ \A e \in log' : e \in log \/ e.seq > counter
<1> USE DEF LogInv, TypeInv, TypeOK, ServerTypeOK
<1>1. CASE log' = log /\ counter' = counter
  BY <1>1
<1>2. ASSUME NEW b \in Seq(Op), NEW to, ServerIngest(b, to)
      PROVE  counter <= counter' /\ \A e \in log' : e \in log \/ e.seq > counter
  <2>1. /\ log' = log \cup {[op |-> b[i], seq |-> SeqAt(b, i)] : i \in FreshAt(b)}
        /\ counter' = counter + Cardinality(FreshAt(b))
    BY <1>2 DEF ServerIngest
  <2>2. /\ Cardinality(FreshAt(b)) \in Nat /\ counter \in Nat
        /\ \A i \in FreshAt(b) : SeqAt(b, i) > counter
    <3>1. /\ Cardinality(FreshAt(b)) \in Nat
          /\ \A i \in FreshAt(b) :
                SeqAt(b, i) \in (counter + 1)..(counter + Cardinality(FreshAt(b)))
      BY SeqAtNext
    <3> QED
      BY <3>1
  <2> QED
    BY <2>1, <2>2
<1> QED
  BY <1>1, <1>2, LogStep

\* Every step keeps CursorInv: what is logged during a pull is beyond its cursors.
LEMMA CursorStep ==
  ASSUME LogInv, CursorInv, [Next]_vars
  PROVE  CursorInv'
<1>1. ASSUME NEW d \in Device PROVE CursorOf(d)'
  <2>1. CursorOf(d)
    BY DEF CursorInv, CursorOf
  <2>2. CASE DeviceStep(d) /\ ~Ingest(d)
    BY <2>1, <2>2, CursorDevice
  <2>3. CASE ~DeviceStep(d) \/ Ingest(d)
    <3>1. PullRests(d)
      BY <2>3, OthersRest
    <3>2. counter \in Nat /\ counter' \in Nat /\ cursor[d] \in Nat /\ next[d] \in Nat
          /\ \A e \in log' : e.seq \in Nat
      BY TypeStep DEF LogInv, TypeInv, TypeOK, EngineTypeOK, ServerTypeOK, Entry
    <3>3. counter <= counter' /\ \A e \in log' : e \in log \/ e.seq > counter
      BY LogBeyond
    <3>4. cursor[d] <= counter /\ next[d] <= counter
      BY <2>1 DEF CursorOf
    <3>5. cursor'[d] <= counter' /\ next'[d] <= counter'
      BY <3>1, <3>2, <3>3, <3>4 DEF PullRests
    <3>6. \A e \in log' : e.seq <= cursor[d] \/ e.seq <= next[d] => e \in log
      BY <3>2, <3>3, <3>4
    <3> QED
      BY <2>1, <3>1, <3>5, <3>6 DEF CursorOf, PullRests
  <2> QED
    BY <2>2, <2>3
<1> QED
  BY <1>1 DEF CursorInv, CursorOf

\* A device's cursor has skipped nothing, while others push between its pages and messages
\* are lost (pullOpsSince of sync.ts against the pull loop of engine.ts).
THEOREM CursorSkipsNothingHolds == Spec => []CursorSkipsNothing
<1>1. Init => CursorInv
  BY DEF Init, EngineInit, ServerInit, CursorInv, INITIAL_CURSOR
<1>2. LogInv /\ CursorInv /\ [Next]_vars => CursorInv'
  BY CursorStep
<1>3. CursorInv => CursorSkipsNothing
  BY DEF CursorInv, CursorSkipsNothing
<1> QED
  BY <1>1, <1>2, <1>3, LogInvHolds, PTL DEF Spec
=============================================================================
