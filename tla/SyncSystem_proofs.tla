-------------------------- MODULE SyncSystem_proofs --------------------------
(***************************************************************************)
(* Theorems about SyncSystem, for any devices, notes, fields, notebooks,   *)
(* batch and page sizes, and any bounds.                                   *)
(***************************************************************************)
EXTENDS SyncSystem, SequenceTheorems, FiniteSetTheorems, WellFoundedInduction, TLAPS

-----------------------------------------------------------------------------
(***************************************************************************)
(* Facts about the operators of SyncOps: Rank and Nth, with which the log  *)
(* numbers a batch, the server cuts pages and the outbox drops ops, and    *)
(* what the ops do to rows.                                                *)
(***************************************************************************)
\* The order of the naturals, as the relation that the library proves well-founded.
LEMMA NatOrder == \A x, y \in Nat : x < y => <<x, y>> \in OpToRel(<, Nat)
  BY Zenon DEF OpToRel

\* A set of naturals that is not empty has a least element.
LEMMA Least ==
  ASSUME NEW T \in SUBSET Nat, T # {}
  PROVE  \E x \in T : \A y \in T : x <= y
<1>1. \E x \in T : \A y \in T : ~(<<y, x>> \in OpToRel(<, Nat))
  BY WFMin, NatLessThanWellFounded
<1>2. PICK x \in T : \A y \in T : ~(<<y, x>> \in OpToRel(<, Nat))
  BY <1>1, Zenon
<1>3. \A y \in T : ~(y < x)
  BY <1>2, NatOrder, Zenon
<1> QED
  BY <1>3

-----------------------------------------------------------------------------
\* The places of a finite set of numbers are 1, 2, ... up to its size, in order.
LEMMA RankOrder ==
  ASSUME NEW K \in SUBSET Nat, IsFiniteSet(K)
  PROVE  /\ Cardinality(K) \in Nat
         /\ \A i \in K : Rank(K, i) \in 1..Cardinality(K)
         /\ \A i, j \in K : i < j => Rank(K, i) < Rank(K, j)
<1>1. Cardinality(K) \in Nat
  BY FS_CardinalityType
<1>2. ASSUME NEW i \in K PROVE Rank(K, i) \in 1..Cardinality(K)
  <2> DEFINE L == {j \in K : j <= i}
  <2>1. L \in SUBSET K
    OBVIOUS
  <2>2. IsFiniteSet(L) /\ Cardinality(L) <= Cardinality(K) /\ Cardinality(L) \in Nat
    BY <2>1, FS_Subset, FS_CardinalityType
  <2>3. L # {}
    OBVIOUS
  <2>4. Cardinality(L) # 0
    BY <2>2, <2>3, FS_EmptySet
  <2> QED
    BY <1>1, <2>2, <2>4 DEF Rank
<1>3. ASSUME NEW i \in K, NEW j \in K, i < j PROVE Rank(K, i) < Rank(K, j)
  <2> DEFINE L == {k \in K : k <= i}
             M == {k \in K : k <= j}
  <2>0. i \in Nat /\ j \in Nat /\ \A k \in K : k \in Nat
    OBVIOUS
  <2>a. \A k \in K : k <= i => k <= j
    BY <1>3, <2>0
  <2>b. ~(j <= i) /\ j <= j
    BY <1>3, <2>0
  <2>1. M \in SUBSET K /\ L \in SUBSET M /\ j \in M /\ j \notin L
    BY <2>a, <2>b
  <2>2. IsFiniteSet(M)
    BY <2>1, FS_Subset
  <2>3. Cardinality(L) <= Cardinality(M) /\ Cardinality(L) # Cardinality(M)
    BY <2>1, <2>2, FS_Subset
  <2>4. Cardinality(L) \in Nat /\ Cardinality(M) \in Nat
    BY <2>1, <2>2, FS_Subset, FS_CardinalityType
  <2> QED
    BY <2>3, <2>4 DEF Rank
<1> QED
  BY <1>1, <1>2, <1>3

\* Nth is the inverse of Rank: every place is taken, by one number.
LEMMA NthInverse ==
  ASSUME NEW K \in SUBSET Nat, IsFiniteSet(K)
  PROVE  /\ \A k \in 1..Cardinality(K) : Nth(K, k) \in K /\ Rank(K, Nth(K, k)) = k
         /\ \A i \in K : Nth(K, Rank(K, i)) = i
<1> DEFINE f == [i \in K |-> Rank(K, i)]
           P == 1..Cardinality(K)
<1>1. Cardinality(K) \in Nat
  BY FS_CardinalityType
<1>2. IsFiniteSet(P) /\ Cardinality(P) = Cardinality(K)
  BY <1>1, FS_Interval
<1>3. f \in [K -> P]
  BY RankOrder
<1>4. \A i, j \in K : f[i] = f[j] => i = j
  <2>1. SUFFICES ASSUME NEW i \in K, NEW j \in K, i # j PROVE f[i] # f[j]
    OBVIOUS
  <2>2. f[i] \in Nat /\ f[j] \in Nat
    BY <1>1, <1>3
  <2>3. i < j \/ j < i
    BY <2>1
  <2> QED
    BY <2>2, <2>3, RankOrder
<1>5. f \in Injection(K, P)
  BY <1>3, <1>4 DEF Injection, IsInjective
<1>6. f \in Surjection(K, P)
  BY <1>2, <1>5, FS_Injection
<1>7. \A k \in P : \E i \in K : Rank(K, i) = k
  BY <1>6 DEF Surjection
<1>8. \A k \in P : Nth(K, k) \in K /\ Rank(K, Nth(K, k)) = k
  BY <1>7 DEF Nth
<1>9. ASSUME NEW i \in K PROVE Nth(K, Rank(K, i)) = i
  <2>1. Rank(K, i) \in P
    BY RankOrder
  <2>2. Nth(K, Rank(K, i)) \in K /\ Rank(K, Nth(K, Rank(K, i))) = Rank(K, i)
    BY <1>8, <2>1
  <2> QED
    BY <1>4, <2>2
<1> QED
  BY <1>8, <1>9

-----------------------------------------------------------------------------
\* On a device, an op makes of a row a row: whatever is there has a notebook.
LEMMA ClientApplyType ==
  ASSUME NEW row \in Row, NEW o \in Op
  PROVE  ClientApply(row, o) \in Row
<1> USE SyncOpsAssumption DEF Row, Op, NotebookOrNone, NoNotebook, Present
<1>1. ASSUME o.nb \in Notebook PROVE FreshRow(o, o.lam) \in Row
  BY <1>1 DEF FreshRow
<1>2. ASSUME Present(row) PROVE Overwrite(row, o) \in Row
  BY <1>2 DEF Overwrite
<1>3. ClientCreate(row, o) \in Row \/ o.kind # "create"
  BY <1>1 DEF ClientCreate
<1>4. ClientUpdate(row, o) \in Row
  BY <1>1, <1>2 DEF ClientUpdate
<1>5. ClientDelete(row, o) \in Row
  BY DEF ClientDelete, NoRow
<1>6. ClientRestore(row, o) \in Row
  BY DEF ClientRestore
<1> QED
  BY <1>3, <1>4, <1>5, <1>6 DEF ClientApply, Kind

\* In the tables of the server as well.
LEMMA ServerApplyType ==
  ASSUME NEW row \in Row, NEW o \in Op
  PROVE  ServerApply(row, o) \in Row
<1> USE SyncOpsAssumption DEF Row, Op, NotebookOrNone, NoNotebook, Present
<1>1. ServerCreate(row, o) \in Row \/ o.kind # "create"
  BY DEF ServerCreate, FreshRow
<1>2. ServerUpdate(row, o) \in Row
  BY DEF ServerUpdate, Overwrite
<1>3. ClientDelete(row, o) \in Row
  BY DEF ClientDelete, NoRow
<1>4. ClientRestore(row, o) \in Row
  BY DEF ClientRestore
<1> QED
  BY <1>1, <1>2, <1>3, <1>4 DEF ServerApply, Kind

\* An op never turns the clock of a row back: applyNoteUpdate and applyNoteCreate compare
\* clocks, and the other ops leave rev alone.
LEMMA ClientApplyRev ==
  ASSUME NEW row \in Row, NEW o \in Op, Present(row), Present(ClientApply(row, o))
  PROVE  ClientApply(row, o).rev >= row.rev
<1> USE DEF Row, Op
<1>1. row.rev \in Nat /\ o.lam \in Nat
  OBVIOUS
<1>2. CASE o.kind = "create"
  BY <1>1, <1>2 DEF ClientApply, ClientCreate, FreshRow
<1>3. CASE o.kind = "update"
  BY <1>1, <1>3 DEF ClientApply, ClientUpdate, Overwrite
<1>4. CASE o.kind \in {"trash", "purge"}
  BY <1>1, <1>4 DEF ClientApply, ClientDelete, NoRow, Present
<1>5. CASE o.kind = "restore"
  BY <1>1, <1>5 DEF ClientApply, ClientRestore
<1> QED
  BY <1>2, <1>3, <1>4, <1>5 DEF Kind

\* In the tables of the server as well.
LEMMA ServerApplyRev ==
  ASSUME NEW row \in Row, NEW o \in Op, Present(row), Present(ServerApply(row, o))
  PROVE  ServerApply(row, o).rev >= row.rev
<1> USE DEF Row, Op
<1>1. row.rev \in Nat /\ o.lam \in Nat
  OBVIOUS
<1>2. CASE o.kind = "create"
  BY <1>1, <1>2 DEF ServerApply, ServerCreate
<1>3. CASE o.kind = "update"
  BY <1>1, <1>3 DEF ServerApply, ServerUpdate, Overwrite
<1>4. CASE o.kind \in {"trash", "purge"}
  BY <1>1, <1>4 DEF ServerApply, ClientDelete, NoRow, Present
<1>5. CASE o.kind = "restore"
  BY <1>1, <1>5 DEF ServerApply, ClientRestore
<1> QED
  BY <1>2, <1>3, <1>4, <1>5 DEF Kind

-----------------------------------------------------------------------------
(***************************************************************************)
(* The inductive invariant, in parts.                                      *)
(***************************************************************************)

\* The sets whose sizes the model takes are finite, the log ends at the counter, and the
\* apply loop starts at the first op.
Bounded ==
    /\ IsFiniteSet(issued)
    /\ \A d \in Device : IsFiniteSet(quarantine[d]) /\ IsFiniteSet(disk[d])
    /\ \A e \in log : e.seq \in 1..counter
    /\ srv.busy => srv.next >= 1

TypeInv == TypeOK /\ Bounded

\* No op is invented: whatever is queued, sent, handled or logged was made by a device.
OnlyIssued ==
    /\ \A d \in Device : /\ Range(outbox[d]) \cup quarantine[d] \cup disk[d] \subseteq issued
                         /\ Range(batch[d]) \cup Range(unsent[d]) \subseteq issued
    /\ \A b \in late : Range(b) \subseteq issued
    /\ Range(srv.batch) \subseteq issued
    /\ \A e \in log : e.op \in issued

\* The numbers and ids of the log are keys of it.
LogKeys == \A e, f \in log : OpId(e.op) = OpId(f.op) \/ e.seq = f.seq => e = f

\* Acks are about the batch that their device has in hand, and about logged ids only.
Logged(ops) == \A o \in ops : OpId(o) \in LogIds

AcksFit ==
    /\ ~srv.busy => srv.to = {}
    /\ \A d \in srv.to : phase[d] = "serving" /\ batch[d] = srv.batch
    /\ Len(srv.acks) = Len(srv.batch)
    /\ Logged(Range(srv.batch))
    /\ \A d \in Device : /\ phase[d] = "acks" => /\ Len(acks[d]) = Len(batch[d])
                                                 /\ Logged(Range(batch[d]))
                         /\ Logged(quarantine[d])
-----------------------------------------------------------------------------
(***************************************************************************)
(* What the operators on sequences of ops return.                          *)
(***************************************************************************)

\* An interval 1..m has one upper end.
LEMMA SameInterval ==
  ASSUME NEW m \in Nat, NEW n \in Nat, 1..m = 1..n
  PROVE  m = n
<1>1. Cardinality(1..m) = m /\ Cardinality(1..n) = n
  BY FS_Interval
<1> QED
  BY <1>1

\* A function on an interval is a sequence.
LEMMA FunctionIsSeq ==
  ASSUME NEW S, NEW n \in Nat, NEW s \in [1..n -> S]
  PROVE  s \in Seq(S) /\ Len(s) = n /\ DOMAIN s = 1..n
<1>1. s \in UNION {[1..k -> S] : k \in Nat}
  OBVIOUS
<1>2. s \in Seq(S)
  BY <1>1, SeqDef
<1>3. Len(s) \in Nat /\ DOMAIN s = 1..Len(s) /\ DOMAIN s = 1..n
  BY <1>2, LenProperties
<1>4. Len(s) = n
  BY <1>3, SameInterval
<1> QED
  BY <1>2, <1>3, <1>4

\* Without keeps the ops that are not named, and nothing else.
LEMMA WithoutKeeps ==
  ASSUME NEW s \in Seq(Op), NEW ids
  PROVE  /\ Without(s, ids) \in Seq(Op)
         /\ Range(Without(s, ids)) = {s[i] : i \in Others(s, ids)}
<1> DEFINE K == Others(s, ids)
           n == Cardinality(K)
           w == [k \in 1..n |-> s[Nth(K, k)]]
<1>1. K \in SUBSET (1..Len(s)) /\ Len(s) \in Nat /\ \A i \in 1..Len(s) : s[i] \in Op
  BY LenProperties DEF Others
<1>0. IsFiniteSet(1..Len(s))
  BY <1>1, FS_Interval
<1>2. K \in SUBSET Nat /\ IsFiniteSet(K)
  BY <1>0, <1>1, FS_Subset
<1>3. n \in Nat
  BY <1>2, FS_CardinalityType
<1>4. \A k \in 1..n : Nth(K, k) \in K
  BY <1>2, NthInverse
<1>5. w \in [1..n -> Op]
  BY <1>1, <1>4
<1>6. w \in Seq(Op) /\ DOMAIN w = 1..n
  BY <1>3, <1>5, FunctionIsSeq
<1>7. ASSUME NEW i \in K PROVE \E k \in 1..n : w[k] = s[i]
  <2>1. Rank(K, i) \in 1..n
    BY <1>2, RankOrder
  <2>2. Nth(K, Rank(K, i)) = i
    BY <1>2, NthInverse
  <2> QED
    BY <2>1, <2>2
<1>8. {w[k] : k \in 1..n} = {s[i] : i \in K}
  BY <1>4, <1>7
<1> QED
  BY <1>6, <1>8 DEF Without, Range

\* Taking ops out of the outbox adds none.
LEMMA WithoutTakesNone ==
  ASSUME NEW s \in Seq(Op), NEW ids
  PROVE  Range(Without(s, ids)) \subseteq Range(s)
  BY WithoutKeeps DEF Others, Range

\* An order of a finite set lists the set.
LEMMA OrdersList ==
  ASSUME NEW S, IsFiniteSet(S), NEW s \in Orders(S)
  PROVE  s \in Seq(S) /\ Range(s) = S
<1>1. Cardinality(S) \in Nat
  BY FS_CardinalityType
<1>2. s \in [1..Cardinality(S) -> S] /\ \A x \in S : \E i \in 1..Cardinality(S) : s[i] = x
  BY DEF Orders, Bijection, Injection, Surjection
<1>3. s \in Seq(S) /\ DOMAIN s = 1..Cardinality(S)
  BY <1>1, <1>2, FunctionIsSeq
<1> QED
  BY <1>2, <1>3 DEF Range

\* PushNext takes batch and rest from what is left to send.
LEMMA PushNextTakes ==
  ASSUME TypeOK, NEW d \in Device, NEW ops \in Seq(Op), PushNext(d, ops)
  PROVE  /\ phase' \in [Device -> Phase]
         /\ batch' \in [Device -> Seq(Op)]
         /\ unsent' \in [Device -> Seq(Op)]
         /\ phase'[d] \in {"push", "pull"}
         /\ Range(batch'[d]) \cup Range(unsent'[d]) \subseteq Range(ops)
         /\ \A c \in Device \ {d} : /\ phase'[c] = phase[c]
                                    /\ batch'[c] = batch[c]
                                    /\ unsent'[c] = unsent[c]
<1> DEFINE size == IF Len(ops) < BatchSize THEN Len(ops) ELSE BatchSize
           b == SubSeq(ops, 1, size)
           u == SubSeq(ops, size + 1, Len(ops))
<1>1. Len(ops) \in Nat /\ DOMAIN ops = 1..Len(ops) /\ \A i \in 1..Len(ops) : ops[i] \in Op
  BY LenProperties
<1>2. BatchSize \in Nat
  BY SyncEngineAssumption
<1>3. size \in Nat /\ size <= Len(ops)
  BY <1>1, <1>2
<1>4. \A i \in 1..size : i \in 1..Len(ops)
  BY <1>1, <1>3
<1>5. \A i \in (size + 1)..Len(ops) : i \in 1..Len(ops)
  BY <1>1, <1>3
<1>6. \A i \in 1..Len(ops) : ops[i] \in Range(ops) /\ ops[i] \in Op
  BY <1>1 DEF Range
<1>7. b \in Seq(Op) /\ b \in Seq(Range(ops))
  BY <1>3, <1>4, <1>6, SubSeqProperties
<1>8. u \in Seq(Op) /\ u \in Seq(Range(ops))
  BY <1>1, <1>3, <1>5, <1>6, SubSeqProperties
<1>9. Range(b) \subseteq Range(ops) /\ Range(u) \subseteq Range(ops)
  BY <1>7, <1>8, RangeOfSeq
<1>10. /\ phase' = [phase EXCEPT ![d] = IF ops = <<>> THEN "pull" ELSE "push"]
       /\ batch' = [batch EXCEPT ![d] = b]
       /\ unsent' = [unsent EXCEPT ![d] = u]
  BY DEF PushNext
<1>11. /\ phase \in [Device -> Phase]
       /\ batch \in [Device -> Seq(Op)]
       /\ unsent \in [Device -> Seq(Op)]
  BY DEF TypeOK, EngineTypeOK
<1> QED
  BY <1>7, <1>8, <1>9, <1>10, <1>11 DEF Phase
-----------------------------------------------------------------------------
(***************************************************************************)
(* Types.                                                                  *)
(***************************************************************************)

\* The initial states are typed and bounded.
LEMMA TypeInit == Init => TypeInv
<1>1. NoRow \in Row
  BY SyncOpsAssumption DEF NoRow, Row, NotebookOrNone, NoNotebook
<1>2. <<>> \in Seq(Op) /\ <<>> \in Seq(Status)
  OBVIOUS
<1>3. NoPush \in Push
  BY <1>2 DEF NoPush, Push
<1>4. ASSUME Init PROVE EngineTypeOK
  BY <1>1, <1>2, <1>4 DEF Init, EngineInit, EngineTypeOK, INITIAL_CURSOR, Phase
<1>5. ASSUME Init PROVE ServerTypeOK
  BY <1>1, <1>3, <1>5, SyncServerAssumption DEF Init, ServerInit, ServerTypeOK
<1>6. ASSUME Init PROVE Bounded
  BY <1>6, FS_EmptySet DEF Init, EngineInit, ServerInit, Bounded, NoPush
<1> QED
  BY <1>4, <1>5, <1>6 DEF TypeInv, TypeOK, Init

\* The steps of a device alone.
LEMMA EditType ==
  ASSUME TypeInv, NEW d \in Device, Edit(d)
  PROVE  TypeInv'
<1>1. PICK kind \in Edits, n \in Note, fields \in SUBSET Field, nb \in NotebookOrNone :
         Enqueue(d, kind, n, fields, nb)
  BY DEF Edit, NotebookOrNone
<1> DEFINE o == [dev |-> d, lam |-> lamport[d] + 1, uid |-> Cardinality(issued) + 1,
                 kind |-> kind, note |-> n, fields |-> fields, nb |-> nb]
<1>2. Cardinality(issued) \in Nat /\ lamport[d] \in Nat
  BY FS_CardinalityType DEF TypeInv, Bounded, TypeOK, EngineTypeOK
<1>3. o.kind = "create" => o.nb \in Notebook
  BY <1>1 DEF Enqueue, MayIssue, NotebookOrNone
<1>4. o \in Op
  BY <1>2, <1>3, SyncOpsAssumption, SyncEngineAssumption DEF Op
<1>5. Append(outbox[d], o) \in Seq(Op)
  BY <1>4, AppendProperties DEF TypeInv, TypeOK, EngineTypeOK
<1>6. EngineTypeOK'
  <2>1. lamport' = [lamport EXCEPT ![d] = o.lam] /\ issued' = issued \cup {o}
    BY <1>1 DEF Enqueue
  <2>2. outbox' = outbox \/ outbox' = [outbox EXCEPT ![d] = Append(@, o)]
    BY <1>1 DEF Enqueue
  <2>3. o.lam \in Nat
    BY <1>2
  <2>4. lamport' \in [Device -> Nat] /\ issued' \in SUBSET Op
    BY <1>4, <2>1, <2>3 DEF TypeInv, TypeOK, EngineTypeOK
  <2>5. outbox' \in [Device -> Seq(Op)]
    BY <1>5, <2>2 DEF TypeInv, TypeOK, EngineTypeOK
  <2> QED
    BY <1>1, <2>4, <2>5 DEF Enqueue, TypeInv, TypeOK, EngineTypeOK, cycleVars
<1>7. IsFiniteSet(issued')
  BY <1>1, FS_AddElement DEF Enqueue, TypeInv, Bounded
<1>8. Bounded'
  BY <1>1, <1>7 DEF Enqueue, TypeInv, Bounded, Edit, serverVars
<1> QED
  BY <1>6, <1>8 DEF TypeInv, TypeOK, ServerTypeOK, Edit, serverVars

\* The queues of a device, and any of its sequences, are finite sets.
LEMMA QueueFinite ==
  ASSUME NEW S, NEW s \in Seq(S)
  PROVE  IsFiniteSet(Range(s)) /\ Range(s) \subseteq S
<1>1. Len(s) \in Nat /\ DOMAIN s = 1..Len(s) /\ IsFiniteSet(1..Len(s))
  BY LenProperties, FS_Interval
<1>2. s \in Surjection(1..Len(s), Range(s))
  BY <1>1, SeqOfRange, LenProperties DEF Surjection, Range
<1> QED
  BY <1>1, <1>2, FS_Surjection, RangeOfSeq

\* The writes to IndexedDB (Persist) keep the types.
LEMMA SaveType ==
  ASSUME TypeInv, NEW d \in Device, Save(d)
  PROVE  TypeInv'
<1>1. IsFiniteSet(Range(outbox[d])) /\ Range(outbox[d]) \subseteq Op
  BY QueueFinite DEF TypeInv, TypeOK, EngineTypeOK
<1>2. IsFiniteSet(OnDisk(d)) /\ OnDisk(d) \subseteq Op
  BY <1>1, FS_Union DEF OnDisk, TypeInv, TypeOK, EngineTypeOK, Bounded
<1>3. EngineTypeOK'
  BY <1>2 DEF Save, Persist, TypeInv, TypeOK, EngineTypeOK, cycleVars
<1>4. Bounded'
  BY <1>2 DEF Save, Persist, TypeInv, TypeOK, EngineTypeOK, Bounded, serverVars
<1> QED
  BY <1>3, <1>4 DEF TypeInv, TypeOK, ServerTypeOK, Save, serverVars

\* The start of a cycle keeps the types.
LEMMA StartType ==
  ASSUME TypeInv, NEW d \in Device, Start(d)
  PROVE  TypeInv'
<1>1. outbox[d] \in Seq(Op) /\ PushNext(d, outbox[d])
  BY DEF Start, StartSync, TypeInv, TypeOK, EngineTypeOK
<1>2. phase' \in [Device -> Phase] /\ batch' \in [Device -> Seq(Op)] /\ unsent' \in [Device -> Seq(Op)]
  BY <1>1, PushNextTakes DEF TypeInv
<1>3. EngineTypeOK'
  BY <1>2 DEF Start, StartSync, TypeInv, TypeOK, EngineTypeOK
<1> QED
  BY <1>3 DEF TypeInv, TypeOK, ServerTypeOK, Bounded, Start, StartSync, serverVars
\* The handling of acks keeps the types; its counts of rejections stay numbers.
LEMMA AcksType ==
  ASSUME TypeInv, NEW d \in Device, Acks(d)
  PROVE  TypeInv'
<1> USE DEF TypeInv, TypeOK, EngineTypeOK
<1>1. <<>> \in Seq(Op) /\ <<>> \in Seq(Status)
  OBVIOUS
<1>2. CASE Compatible(serverVersion) /\ TakeAcks(d)
  <2> DEFINE moved == {o \in Range(outbox[d]) : OpId(o) \in Hopeless(d)}
  <2>1. /\ rejects' = [rejects EXCEPT ![d] = Rejections(d)]
        /\ quarantine' = [quarantine EXCEPT ![d] = @ \cup moved]
        /\ outbox' = [outbox EXCEPT ![d] = Without(@, Settled(d) \cup Hopeless(d))]
        /\ PushNext(d, unsent[d])
    BY <1>2 DEF TakeAcks
  <2>2. phase' \in [Device -> Phase] /\ batch' \in [Device -> Seq(Op)] /\ unsent' \in [Device -> Seq(Op)]
    BY <2>1, PushNextTakes
  <2>a. \A l \in 1..MaxLamport : rejects[d][l] \in Nat /\ rejects[d][l] + 1 \in Nat /\ 0 \in Nat
    <3>1. rejects[d] \in [1..MaxLamport -> Nat]
      OBVIOUS
    <3>2. \A l \in 1..MaxLamport : rejects[d][l] \in Nat
      BY <3>1, Zenon
    <3> QED
      BY <3>2
  <2>3. Rejections(d) \in [1..MaxLamport -> Nat]
    BY <2>a, Zenon DEF Rejections
  <2>4. Without(outbox[d], Settled(d) \cup Hopeless(d)) \in Seq(Op)
    BY WithoutKeeps
  <2>5. moved \subseteq Op /\ IsFiniteSet(moved)
    BY QueueFinite, FS_Subset
  <2>6. IsFiniteSet(quarantine[d] \cup moved)
    BY <2>5, FS_Union DEF Bounded
  <2>7. rejects' \in [Device -> [1..MaxLamport -> Nat]]
    BY <2>1, <2>3
  <2>8. outbox' \in [Device -> Seq(Op)] /\ quarantine' \in [Device -> SUBSET Op]
    BY <2>1, <2>4, <2>5
  <2>9. EngineTypeOK'
    BY <1>1, <2>2, <2>7, <2>8 DEF Acks, RecvAcks
  <2>10. \A c \in Device : IsFiniteSet(quarantine'[c])
    BY <2>1, <2>6 DEF Bounded
  <2> QED
    BY <2>9, <2>10 DEF ServerTypeOK, Bounded, Acks, RecvAcks, serverVars
<1>3. CASE PushNext(d, <<>>) /\ UNCHANGED <<rejects, quarantine, outbox>>
  <2>1. phase' \in [Device -> Phase] /\ batch' \in [Device -> Seq(Op)] /\ unsent' \in [Device -> Seq(Op)]
    BY <1>1, <1>3, PushNextTakes
  <2>2. EngineTypeOK'
    BY <1>1, <1>3, <2>1 DEF Acks, RecvAcks
  <2> QED
    BY <1>3, <2>2 DEF ServerTypeOK, Bounded, Acks, RecvAcks, serverVars
<1> QED
  BY <1>2, <1>3 DEF Acks, RecvAcks

\* The receipt of a page keeps the types.
LEMMA PageType ==
  ASSUME TypeInv, NEW d \in Device, Page(d)
  PROVE  TypeInv'
<1> USE DEF TypeInv, TypeOK, EngineTypeOK
<1>0. RecvPage(d, serverVersion)
  BY DEF Page
<1>a. phase' \in [Device -> Phase] /\ page' \in [Device -> SUBSET Op] /\ next' \in [Device -> Nat]
  <2>1. CASE phase' = [phase EXCEPT ![d] = "apply"] /\ UNCHANGED <<page, next>>
    BY <2>1 DEF Phase
  <2>2. CASE /\ phase' = [phase EXCEPT ![d] = "idle"]
             /\ page' = [page EXCEPT ![d] = {}]
             /\ next' = [next EXCEPT ![d] = 0]
    BY <2>2 DEF Phase
  <2> QED
    BY <1>0, <2>1, <2>2 DEF RecvPage
<1>1. EngineTypeOK'
  BY <1>0, <1>a DEF RecvPage
<1> QED
  BY <1>1 DEF ServerTypeOK, Bounded, Page, RecvPage, serverVars

\* One turn of applyOps keeps the types.
LEMMA ApplyType ==
  ASSUME TypeInv, NEW d \in Device, Apply(d)
  PROVE  TypeInv'
<1> USE DEF TypeInv, TypeOK, EngineTypeOK
<1>1. PICK o \in page[d] :
        /\ store' = [store EXCEPT ![d][o.note] = ClientApply(@, o)]
        /\ lamport' = [lamport EXCEPT ![d] = IF o.lam > @ THEN o.lam ELSE @]
        /\ seen' = [seen EXCEPT ![d] = @ \cup {o.uid}]
        /\ page' = [page EXCEPT ![d] = @ \ {o}]
  BY DEF Apply, ApplyNext
<1>2. o \in Op /\ o.lam \in Nat /\ o.uid \in Nat /\ o.note \in Note
  BY DEF Op
<1>3. ClientApply(store[d][o.note], o) \in Row
  BY <1>2, ClientApplyType
<1>4. store' \in [Device -> [Note -> Row]]
  BY <1>1, <1>2, <1>3
<1>5. lamport' \in [Device -> Nat] /\ seen' \in [Device -> SUBSET Nat] /\ page' \in [Device -> SUBSET Op]
  BY <1>1, <1>2
<1>6. EngineTypeOK'
  BY <1>4, <1>5 DEF Apply, ApplyNext
<1> QED
  BY <1>6 DEF ServerTypeOK, Bounded, Apply, ApplyNext, serverVars

\* The end of a page keeps the types; nextCursor is a number.
LEMMA FinishType ==
  ASSUME TypeInv, NEW d \in Device, Finish(d)
  PROVE  TypeInv'
<1> USE DEF TypeInv, TypeOK, EngineTypeOK
<1>1. EngineTypeOK'
  BY DEF Finish, EndPage, Phase, INITIAL_CURSOR
<1> QED
  BY <1>1 DEF ServerTypeOK, Bounded, Finish, EndPage, serverVars
-----------------------------------------------------------------------------
\* The steps with the server.

\* The numbers that a batch gets are the next ones, each given once.
LEMMA SeqAtNext ==
  ASSUME TypeInv, NEW b \in Seq(Op)
  PROVE  /\ IsFiniteSet(FreshAt(b)) /\ Cardinality(FreshAt(b)) \in Nat
         /\ \A i \in FreshAt(b) :
              /\ i \in 1..Len(b) /\ b[i] \in Op
              /\ SeqAt(b, i) \in (counter + 1)..(counter + Cardinality(FreshAt(b)))
         /\ \A i, j \in FreshAt(b) : i < j => SeqAt(b, i) < SeqAt(b, j)
<1> DEFINE K == FreshAt(b)
<1>1. Len(b) \in Nat /\ DOMAIN b = 1..Len(b) /\ \A i \in 1..Len(b) : b[i] \in Op
  BY LenProperties
<1>2. IsFiniteSet(1..Len(b))
  BY <1>1, FS_Interval
<1>3. K \in SUBSET (1..Len(b))
  BY <1>1 DEF FreshAt
<1>4. K \in SUBSET Nat /\ IsFiniteSet(K)
  BY <1>2, <1>3, FS_Subset
<1>5. counter \in Nat
  BY DEF TypeInv, TypeOK, ServerTypeOK
<1>6. /\ Cardinality(K) \in Nat
      /\ \A i \in K : Rank(K, i) \in 1..Cardinality(K)
      /\ \A i, j \in K : i < j => Rank(K, i) < Rank(K, j)
  BY <1>4, RankOrder
<1>7. \A i \in K : SeqAt(b, i) \in (counter + 1)..(counter + Cardinality(K))
  BY <1>5, <1>6 DEF SeqAt
<1>8. \A i, j \in K : i < j => SeqAt(b, i) < SeqAt(b, j)
  BY <1>5, <1>6 DEF SeqAt
<1> QED
  BY <1>1, <1>3, <1>4, <1>6, <1>7, <1>8

\* The transaction of a push, for the device that waits or for none.
LEMMA IngestTables ==
  ASSUME TypeInv, NEW b \in Seq(Op), NEW to \in SUBSET Device, ServerIngest(b, to)
  PROVE  ServerTypeOK' /\ srv'.next >= 1 /\ \A e \in log' : e.seq \in 1..counter'
<1> USE DEF TypeInv, TypeOK, ServerTypeOK
<1> DEFINE new == {[op |-> b[i], seq |-> SeqAt(b, i)] : i \in FreshAt(b)}
           a == [i \in DOMAIN b |-> IF i \in FreshAt(b) THEN "accepted" ELSE "duplicate"]
<1>1. log' = log \cup new /\ counter' = counter + Cardinality(FreshAt(b))
  BY DEF ServerIngest
<1>2. /\ Cardinality(FreshAt(b)) \in Nat /\ counter \in Nat
      /\ \A i \in FreshAt(b) : b[i] \in Op /\ SeqAt(b, i) \in 1..counter'
  <2>1. \A i \in FreshAt(b) : SeqAt(b, i) \in (counter + 1)..counter'
    BY <1>1, SeqAtNext
  <2> QED
    BY <1>1, <2>1, SeqAtNext
<1>3. new \subseteq Entry /\ \A e \in new : e.seq \in 1..counter'
  BY <1>2 DEF Entry
<1>4. \A e \in log : e.seq \in 1..counter'
  BY <1>1, <1>2 DEF Bounded
<1>5. counter' \in Nat
  BY <1>1, <1>2
<1>6. a \in Seq(Status)
  <2>1. Len(b) \in Nat /\ DOMAIN b = 1..Len(b)
    BY LenProperties
  <2>2. a \in [1..Len(b) -> Status]
    BY <2>1 DEF Status
  <2> QED
    BY <2>1, <2>2, FunctionIsSeq
<1>7. srv' = [busy |-> TRUE, to |-> to, batch |-> b, next |-> 1, acks |-> a]
  BY DEF ServerIngest
<1>8. srv' \in Push
  BY <1>6, <1>7 DEF Push
<1> QED
  BY <1>1, <1>3, <1>4, <1>5, <1>7, <1>8 DEF ServerIngest

\* The arrival of a push at the server keeps the types.
LEMMA IngestType ==
  ASSUME TypeInv, NEW d \in Device, Ingest(d)
  PROVE  TypeInv'
<1> USE DEF TypeInv, TypeOK
<1>1. batch[d] \in Seq(Op) /\ {d} \in SUBSET Device /\ ServerIngest(batch[d], {d})
  BY DEF Ingest, EngineTypeOK
<1>2. ServerTypeOK' /\ srv'.next >= 1 /\ \A e \in log' : e.seq \in 1..counter'
  BY <1>1, IngestTables
<1>3. EngineTypeOK'
  BY DEF Ingest, EngineTypeOK, Phase
<1> QED
  BY <1>2, <1>3 DEF Ingest, Bounded

\* So does that of a late one.
LEMMA LateIngestType ==
  ASSUME TypeInv, LateIngest
  PROVE  TypeInv'
<1> USE DEF TypeInv, TypeOK
<1>1. PICK b \in late : ServerIngest(b, {}) /\ late' = late \ {b}
  BY DEF LateIngest
<1>2. b \in Seq(Op) /\ {} \in SUBSET Device
  OBVIOUS
<1>3. ServerTypeOK' /\ srv'.next >= 1 /\ \A e \in log' : e.seq \in 1..counter'
  BY <1>1, <1>2, IngestTables
<1>4. EngineTypeOK'
  BY DEF LateIngest, EngineTypeOK, engineVars
<1> QED
  BY <1>1, <1>3, <1>4 DEF LateIngest, Bounded, engineVars
\* One turn of the apply loop of the server keeps the types.
LEMMA TablesType ==
  ASSUME TypeInv, Tables
  PROVE  TypeInv'
<1> USE DEF TypeInv, TypeOK
<1> DEFINE i == srv.next
           o == srv.batch[i]
           throws == srv.acks[i] = "accepted" /\ ServerThrows(notes[o.note], o, notebooks)
           done == srv.acks[i] = "accepted" /\ ~throws
<1>1. /\ notes' = IF done THEN [notes EXCEPT ![o.note] = ServerApply(@, o)] ELSE notes
      /\ applied' = IF done THEN applied \cup {o.uid} ELSE applied
      /\ srv' = [srv EXCEPT !.next = @ + 1,
                            !.acks = IF throws THEN [@ EXCEPT ![i] = "rejected"] ELSE @]
      /\ srv.next <= Len(srv.batch)
  BY DEF Tables, ServerApplyNext
<1>2. srv \in Push /\ srv.next \in Nat /\ srv.batch \in Seq(Op) /\ srv.acks \in Seq(Status)
  BY DEF ServerTypeOK, Push
<1>3. [srv.acks EXCEPT ![i] = "rejected"] \in Seq(Status)
  <2>1. Len(srv.acks) \in Nat /\ srv.acks \in [1..Len(srv.acks) -> Status]
    BY <1>2, LenProperties
  <2>2. [srv.acks EXCEPT ![i] = "rejected"] \in [1..Len(srv.acks) -> Status]
    BY <2>1 DEF Status
  <2> QED
    BY <2>1, <2>2, FunctionIsSeq
<1>4. srv' \in Push
  <2>1. PICK a \in Seq(Status) : srv' = [srv EXCEPT !.next = @ + 1, !.acks = a]
    <3>1. CASE throws
      BY <1>1, <1>3, <3>1
    <3>2. CASE ~throws
      BY <1>1, <1>2, <3>2
    <3> QED
      BY <3>1, <3>2
  <2>2. srv.next + 1 \in Nat
    BY <1>2
  <2>3. srv' = [srv EXCEPT !.next = srv.next + 1, !.acks = a]
    BY <2>1
  <2> QED
    BY <1>2, <2>2, <2>3 DEF Push
<1>5. o \in Op /\ o.note \in Note /\ o.uid \in Nat
  <2>1. Len(srv.batch) \in Nat /\ \A k \in 1..Len(srv.batch) : srv.batch[k] \in Op
    BY <1>2, LenProperties
  <2>2. i \in 1..Len(srv.batch)
    BY <1>1, <1>2, <2>1 DEF Bounded, Tables, ServerApplyNext
  <2> QED
    BY <2>1, <2>2 DEF Op
<1>6. ServerApply(notes[o.note], o) \in Row
  BY <1>5, ServerApplyType DEF ServerTypeOK
<1>7. notes' \in [Note -> Row] /\ applied' \in SUBSET Nat
  BY <1>1, <1>5, <1>6 DEF ServerTypeOK
<1>8. ServerTypeOK'
  BY <1>4, <1>7 DEF ServerTypeOK, Tables, ServerApplyNext
<1>9. srv'.next >= 1
  BY <1>1, <1>2 DEF Push
<1> QED
  BY <1>8, <1>9 DEF EngineTypeOK, Bounded, Tables, ServerApplyNext, engineVars

\* The reply of a push keeps the types.
LEMMA ReplyType ==
  ASSUME TypeInv, Reply
  PROVE  TypeInv'
<1> USE DEF TypeInv, TypeOK
<1>1. <<>> \in Seq(Op) /\ <<>> \in Seq(Status) /\ srv.acks \in Seq(Status)
  BY DEF ServerTypeOK, Push
<1>2. NoPush \in Push
  BY <1>1 DEF NoPush, Push
<1>3. ServerTypeOK' /\ ~srv'.busy
  BY <1>2 DEF Reply, ServerReply, ServerTypeOK, NoPush
<1>4. EngineTypeOK'
  BY <1>1 DEF Reply, EngineTypeOK, Phase
<1> QED
  BY <1>3, <1>4 DEF Reply, ServerReply, Bounded

\* The cursor that a page comes with is a number of the log.
LEMMA NextCursorType ==
  ASSUME TypeInv, NEW since \in Nat
  PROVE  NextCursor(since) \in Nat
<1> DEFINE K == LaterSeqs(since)
<1>1. counter \in Nat /\ \A e \in log : e.seq \in 1..counter
  BY DEF TypeInv, TypeOK, ServerTypeOK, Bounded
<1>2. K \in SUBSET Nat /\ \A k \in K : k <= counter
  BY <1>1 DEF LaterSeqs, Later
<1>3. IsFiniteSet(K) /\ Cardinality(K) \in Nat
  BY <1>1, <1>2, FS_BoundedSetOfNaturals, FS_CardinalityType
<1>4. CASE Cardinality(K) <= PageSize
  BY <1>4 DEF NextCursor, NullCursor
<1>5. CASE ~(Cardinality(K) <= PageSize)
  <2>1. PageSize \in 1..Cardinality(K)
    BY <1>3, <1>5, SyncServerAssumption
  <2>2. Nth(K, PageSize) \in Nat
    BY <1>2, <1>3, <2>1, NthInverse
  <2> QED
    BY <1>5, <2>2 DEF NextCursor
<1> QED
  BY <1>4, <1>5

\* The reply of a pull keeps the types: its page is of ops, its cursor a number.
LEMMA ServeType ==
  ASSUME TypeInv, NEW d \in Device, Serve(d)
  PROVE  TypeInv'
<1> USE DEF TypeInv, TypeOK
<1>1. cursor[d] \in Nat
  BY DEF EngineTypeOK
<1>2. NextCursor(cursor[d]) \in Nat
  BY <1>1, NextCursorType
<1>3. {e.op : e \in PageAfter(cursor[d])} \subseteq Op
  BY DEF PageAfter, Later, ServerTypeOK, Entry
<1>4. EngineTypeOK'
  BY <1>2, <1>3 DEF Serve, EngineTypeOK, Phase
<1> QED
  BY <1>4 DEF Serve, ServerTypeOK, Bounded, serverVars

\* A row that moves to another notebook is a row, with a larger rev.
LEMMA MovedRow ==
  ASSUME NEW row \in Row, NEW nb \in Notebook
  PROVE  Moved(row, nb) \in Row /\ Moved(row, nb).rev >= row.rev
<1> DEFINE there == [row EXCEPT !.nb = nb]
<1>1. there \in Row /\ there.rev = row.rev /\ row.rev \in Nat
  BY SyncOpsAssumption DEF Row, NotebookOrNone, NoNotebook
<1>2. Moved(row, nb) = [there EXCEPT !.rev = @ + 1]
  BY DEF Moved
<1>3. \A r \in Row : [r EXCEPT !.rev = @ + 1] \in Row /\ [r EXCEPT !.rev = @ + 1].rev = r.rev + 1
  BY DEF Row
<1> HIDE DEF there
<1> QED
  BY <1>1, <1>2, <1>3

\* The compaction job and the REST writes keep the types.
LEMMA ServerType ==
  ASSUME TypeInv, Server
  PROVE  TypeInv'
<1> USE DEF TypeInv, TypeOK
<1>1. ASSUME NEW n \in Note, NEW row \in Row, RestWrite(n, row)
      PROVE  ServerTypeOK' /\ Bounded'
  <2>1. [row EXCEPT !.rev = @ + 1] \in Row
    BY DEF Row, Present
  <2>2. notes' \in [Note -> Row] /\ rest' \in Nat
    BY <1>1, <2>1 DEF RestWrite, ServerTypeOK
  <2> QED
    BY <1>1, <2>2 DEF RestWrite, ServerTypeOK, Bounded, Server, engineVars
<1>2. CASE Compact
  BY <1>2 DEF Compact, ServerTypeOK, Bounded, Server, EngineTypeOK, engineVars
<1>3. ASSUME NEW nb \in Notebook, NEW target \in Notebook, RestRemoveNotebook(nb, target)
      PROVE  ServerTypeOK' /\ Bounded'
  <2>1. \A row \in Row : Moved(row, target) \in Row
    BY MovedRow
  <2>2. notes' \in [Note -> Row] /\ rest' \in Nat /\ notebooks' \in SUBSET Notebook
    BY <1>3, <2>1 DEF RestRemoveNotebook, ServerTypeOK
  <2> QED
    BY <1>3, <2>2 DEF RestRemoveNotebook, ServerTypeOK, Bounded, Server, engineVars
<1>4. ASSUME NEW n \in Note, NEW f \in Field, RestPatch(n, f) PROVE ServerTypeOK' /\ Bounded'
  <2>1. notes[n] \in Row
    BY DEF ServerTypeOK
  <2>2. [notes[n] EXCEPT !.val[f] = 0] \in Row
    BY <2>1 DEF Row
  <2> QED
    BY <1>1, <1>4, <2>2 DEF RestPatch
<1>5. ASSUME NEW n \in Note, RestTrash(n) PROVE ServerTypeOK' /\ Bounded'
  <2>1. notes[n] \in Row
    BY DEF ServerTypeOK
  <2>2. [notes[n] EXCEPT !.state = "trashed"] \in Row
    BY <1>5, <2>1 DEF Row, RestTrash
  <2> QED
    BY <1>1, <1>5, <2>2 DEF RestTrash
<1>6. ASSUME NEW n \in Note, RestRestore(n) PROVE ServerTypeOK' /\ Bounded'
  <2>1. notes[n] \in Row
    BY DEF ServerTypeOK
  <2>2. [notes[n] EXCEPT !.state = "live"] \in Row
    BY <1>6, <2>1 DEF Row, RestRestore
  <2> QED
    BY <1>1, <1>6, <2>2 DEF RestRestore
<1>7. UNCHANGED <<engineVars, late, faults, restarts>>
  BY DEF Server
<1>8. EngineTypeOK'
  BY <1>7 DEF EngineTypeOK, engineVars
<1> QED
  BY <1>2, <1>3, <1>4, <1>5, <1>6, <1>7, <1>8 DEF Server
-----------------------------------------------------------------------------
\* Faults.

\* A device gives up on a push: what that does to it, whatever becomes of the push.
LEMMA PushFailsType ==
  ASSUME TypeInv, NEW d \in Device, PushFails(d)
  PROVE  EngineTypeOK' /\ UNCHANGED <<issued, quarantine, disk>>
<1> USE DEF TypeInv, TypeOK
<1>1. <<>> \in Seq(Op) /\ <<>> \in Seq(Status)
  OBVIOUS
<1>2. phase' \in [Device -> Phase] /\ batch' \in [Device -> Seq(Op)] /\ unsent' \in [Device -> Seq(Op)]
  BY <1>1, PushNextTakes DEF PushFails
<1> QED
  BY <1>1, <1>2 DEF PushFails, EngineTypeOK

\* The device that waits for a push giving up keeps the types of the server.
LEMMA UnheardType ==
  ASSUME TypeInv, NEW d \in Device, ServerUnheard(d),
         UNCHANGED <<log, counter, notes, notebooks, serverVersion, applied, rest>>
  PROVE  ServerTypeOK' /\ srv'.next = srv.next /\ srv'.busy = srv.busy
<1>1. srv \in Push
  BY DEF TypeInv, TypeOK, ServerTypeOK
<1>2. srv' = srv \/ srv' = [srv EXCEPT !.to = {}]
  BY DEF ServerUnheard
<1>3. srv' \in Push /\ srv'.next = srv.next /\ srv'.busy = srv.busy
  BY <1>1, <1>2 DEF Push
<1> QED
  BY <1>3 DEF TypeInv, TypeOK, ServerTypeOK

\* A lost push keeps the types.
LEMMA LosePushType ==
  ASSUME TypeInv, NEW d \in Device, LosePush(d)
  PROVE  TypeInv'
<1> USE DEF TypeInv, TypeOK
<1>1. EngineTypeOK' /\ UNCHANGED <<issued, quarantine, disk>>
  BY PushFailsType DEF LosePush
<1>2. UNCHANGED <<log, counter, notes, notebooks, serverVersion, applied, rest>>
  BY DEF LosePush, PushFails
<1>3. ServerTypeOK' /\ srv'.next = srv.next /\ srv'.busy = srv.busy
  BY <1>2, UnheardType DEF LosePush
<1>4. late' \in SUBSET Seq(Op) /\ faults' \in Nat /\ restarts' \in Nat
  BY DEF LosePush, Fault, EngineTypeOK
<1> QED
  BY <1>1, <1>2, <1>3, <1>4 DEF Bounded

\* A lost pull keeps the types.
LEMMA LosePullType ==
  ASSUME TypeInv, NEW d \in Device, LosePull(d)
  PROVE  TypeInv'
<1> USE DEF TypeInv, TypeOK
<1>1. EngineTypeOK'
  BY DEF LosePull, PullFails, EngineTypeOK, Phase
<1> QED
  BY <1>1 DEF LosePull, PullFails, Fault, ServerTypeOK, Bounded, serverVars

\* A crash of the server keeps the types.
LEMMA CrashType ==
  ASSUME TypeInv, Crash
  PROVE  TypeInv'
<1> USE DEF TypeInv, TypeOK
<1>1. NoPush \in Push /\ ~NoPush.busy
  BY DEF NoPush, Push
<1>2. ServerTypeOK' /\ ~srv'.busy
  BY <1>1 DEF Crash, ServerCrash, ServerTypeOK
<1>3. EngineTypeOK' /\ UNCHANGED <<issued, quarantine, disk>>
  <2>1. CASE srv.to = {}
    BY <2>1 DEF Crash, EngineTypeOK, engineVars
  <2>2. CASE srv.to # {}
    <3>1. PICK d \in srv.to : PushFails(d)
      BY <2>2 DEF Crash
    <3>2. d \in Device
      BY DEF ServerTypeOK, Push
    <3> QED
      BY <3>1, <3>2, PushFailsType
  <2> QED
    BY <2>1, <2>2
<1> QED
  BY <1>2, <1>3 DEF Crash, ServerCrash, Fault, Bounded

\* The end of a tab keeps the types: hydrate lists what is on disk.
LEMMA ReopenType ==
  ASSUME TypeInv, NEW d \in Device, Reopen(d)
  PROVE  TypeInv'
<1> USE DEF TypeInv, TypeOK
<1>1. PICK s \in Orders(disk[d]) : outbox' = [outbox EXCEPT ![d] = s]
  BY DEF Reopen, Restart
<1>2. s \in Seq(Op)
  <2>1. IsFiniteSet(disk[d]) /\ disk[d] \subseteq Op
    BY DEF Bounded, EngineTypeOK
  <2>2. s \in Seq(disk[d])
    BY <2>1, OrdersList
  <2> QED
    BY <2>1, <2>2, SeqMonotonic
<1>3. outbox' \in [Device -> Seq(Op)]
  BY <1>1, <1>2 DEF EngineTypeOK
<1>4. <<>> \in Seq(Op) /\ <<>> \in Seq(Status) /\ [l \in 1..MaxLamport |-> 0] \in [1..MaxLamport -> Nat]
  OBVIOUS
<1>5. lost' \subseteq Op
  BY QueueFinite DEF Reopen, Restart, EngineTypeOK
<1>6. EngineTypeOK'
  BY <1>3, <1>4, <1>5 DEF Reopen, Restart, EngineTypeOK, Phase
<1>7. UNCHANGED <<log, counter, notes, notebooks, serverVersion, applied, rest>>
  BY DEF Reopen
<1>8. ServerTypeOK' /\ srv'.next = srv.next /\ srv'.busy = srv.busy
  BY <1>7, UnheardType DEF Reopen
<1>9. late' \in SUBSET Seq(Op) /\ faults' \in Nat /\ restarts' \in Nat
  BY DEF Reopen, EngineTypeOK
<1>10. \A c \in Device : IsFiniteSet(quarantine'[c]) /\ IsFiniteSet(disk'[c])
  BY FS_EmptySet DEF Reopen, Restart, Bounded, EngineTypeOK
<1> QED
  BY <1>6, <1>7, <1>8, <1>9, <1>10 DEF Bounded, Reopen, Restart

-----------------------------------------------------------------------------
\* Every step keeps the types.
LEMMA TypeStep == TypeInv /\ [Next]_vars => TypeInv'
<1>1. SUFFICES ASSUME TypeInv, [Next]_vars PROVE TypeInv'
  OBVIOUS
<1>2. ASSUME NEW d \in Device, DeviceStep(d) PROVE TypeInv'
  BY <1>1, <1>2, EditType, SaveType, StartType, AcksType, PageType, ApplyType, FinishType,
     IngestType, ServeType, LosePushType, LosePullType, ReopenType DEF DeviceStep
<1>3. CASE LateIngest \/ Tables \/ Reply \/ Server \/ Crash
  BY <1>1, <1>3, LateIngestType, TablesType, ReplyType, ServerType, CrashType
<1>4. CASE UNCHANGED vars
  BY <1>1, <1>4 DEF TypeInv, TypeOK, EngineTypeOK, ServerTypeOK, Bounded, vars, engineVars, serverVars
<1> QED
  BY <1>1, <1>2, <1>3, <1>4 DEF Next

\* Every variable keeps its type, a row that is there has a notebook, and a create names one,
\* on every device and on the server.
THEOREM TypeInvariant == Spec => []TypeInv
  BY TypeInit, TypeStep, PTL DEF Spec

\* The types the runs check: EngineTypeOK and ServerTypeOK, and those of the network.
THEOREM TypeCorrect == Spec => []TypeOK
  BY TypeInvariant, PTL DEF TypeInv
-----------------------------------------------------------------------------
(***************************************************************************)
(* The log.                                                                *)
(***************************************************************************)

\* The compaction job measures from the oldest entry, so no entry is older than what it
\* looks for.
LEMMA NoCandidates ==
  ASSUME TypeInv
  PROVE  Candidates = {}
<1>1. counter \in Nat /\ \A e \in log : e.seq \in 1..counter
  BY DEF TypeInv, TypeOK, ServerTypeOK, Bounded
<1>2. \A e \in log : HeadSeq \in Nat /\ HeadSeq <= e.seq
  <2>1. SUFFICES ASSUME log # {} PROVE \A e \in log : HeadSeq \in Nat /\ HeadSeq <= e.seq
    OBVIOUS
  <2> DEFINE T == {e.seq : e \in log}
  <2>2. T \in SUBSET Nat /\ T # {}
    BY <1>1, <2>1
  <2>3. PICK x \in T : \A y \in T : x <= y
    BY <2>2, Least
  <2>4. \E e \in log : \A f \in log : e.seq <= f.seq
    BY <2>3
  <2> QED
    BY <1>1, <2>1, <2>4 DEF HeadSeq
<1>3. \A e \in log : ~(e.seq < OlderThan)
  BY <1>1, <1>2, SyncServerAssumption DEF OlderThan
<1>4. \A n \in Note : {e \in log : e.op.note = n /\ e.seq < OlderThan} = {}
  BY <1>3
<1>5. Cardinality({}) = 0 /\ ~(0 >= CompactionThreshold)
  BY FS_EmptySet, SyncServerAssumption
<1> QED
  BY <1>4, <1>5 DEF Candidates

\* What a push adds to the log: ops of the batch, under new ids and larger numbers; after it
\* the log has every id of the batch.
LEMMA IngestAdds ==
  ASSUME TypeInv, NEW b \in Seq(Op), NEW to, ServerIngest(b, to)
  PROVE  /\ log \subseteq log'
         /\ \A e \in log' \ log :
              /\ e.op \in Range(b) /\ OpId(e.op) \notin LogIds
              /\ \A f \in log : e.seq > f.seq
         /\ \A e, f \in log' \ log : e # f => OpId(e.op) # OpId(f.op) /\ e.seq # f.seq
         /\ \A o \in Range(b) : \E e \in log' : OpId(e.op) = OpId(o)
<1> DEFINE entry(i) == [op |-> b[i], seq |-> SeqAt(b, i)]
<1>1. log' = log \cup {entry(i) : i \in FreshAt(b)}
  BY DEF ServerIngest
<1>2. Len(b) \in Nat /\ DOMAIN b = 1..Len(b)
  BY LenProperties
<1>3. counter \in Nat /\ \A e \in log : e.seq \in 1..counter
  BY DEF TypeInv, TypeOK, ServerTypeOK, Bounded
<1>4. \A i \in FreshAt(b) : /\ i \in 1..Len(b)
                            /\ SeqAt(b, i) \in Nat /\ SeqAt(b, i) > counter
  <2>1. Cardinality(FreshAt(b)) \in Nat
        /\ \A i \in FreshAt(b) : i \in 1..Len(b)
                /\ SeqAt(b, i) \in (counter + 1)..(counter + Cardinality(FreshAt(b)))
    BY SeqAtNext
  <2> QED
    BY <1>3, <2>1
<1>5. \A i, j \in FreshAt(b) : i # j => /\ OpId(b[i]) # OpId(b[j])
                                        /\ SeqAt(b, i) # SeqAt(b, j)
  <2>1. ASSUME NEW i \in FreshAt(b), NEW j \in FreshAt(b), i < j
        PROVE  OpId(b[i]) # OpId(b[j]) /\ SeqAt(b, i) # SeqAt(b, j)
    <3>1. i \in 1..(j - 1)
      BY <1>2, <1>4, <2>1
    <3>2. OpId(b[i]) # OpId(b[j])
      BY <3>1 DEF FreshAt
    <3>3. SeqAt(b, i) < SeqAt(b, j)
      BY <2>1, SeqAtNext
    <3> QED
      BY <1>4, <3>2, <3>3
  <2>2. \A i, j \in FreshAt(b) : i # j => i < j \/ j < i
    BY <1>2, <1>4
  <2> QED
    BY <2>1, <2>2
<1>6. ASSUME NEW e \in log' \ log
      PROVE  \E i \in FreshAt(b) : e = entry(i)
  BY <1>1
<1>7. \A i \in FreshAt(b) : b[i] \in Range(b) /\ OpId(b[i]) \notin LogIds
  BY DEF FreshAt, Range
<1>8. \A e \in log' \ log : /\ e.op \in Range(b) /\ OpId(e.op) \notin LogIds
                            /\ \A f \in log : e.seq > f.seq
  <2>1. SUFFICES ASSUME NEW i \in FreshAt(b)
                 PROVE  \A f \in log : SeqAt(b, i) > f.seq
    BY <1>6, <1>7
  <2> QED
    BY <1>3, <1>4
<1>9. \A e, f \in log' \ log : e # f => OpId(e.op) # OpId(f.op) /\ e.seq # f.seq
  BY <1>5, <1>6
<1>10. ASSUME NEW o \in Range(b) PROVE \E e \in log' : OpId(e.op) = OpId(o)
  <2>1. PICK i \in 1..Len(b) : b[i] = o
    BY <1>2 DEF Range
  <2> DEFINE T == {j \in 1..Len(b) : OpId(b[j]) = OpId(o)}
  <2>2. T \in SUBSET Nat /\ T # {}
    BY <1>2, <2>1
  <2>3. PICK k \in T : \A j \in T : k <= j
    BY <2>2, Least
  <2>4. \A j \in 1..(k - 1) : j \in 1..Len(b) /\ ~(k <= j)
    BY <1>2, <2>2
  <2>5. \A j \in 1..(k - 1) : OpId(b[j]) # OpId(b[k])
    BY <2>3, <2>4
  <2>6. CASE OpId(b[k]) \in LogIds
    BY <1>1, <2>6 DEF LogIds
  <2>7. CASE OpId(b[k]) \notin LogIds
    <3>1. k \in FreshAt(b)
      BY <1>2, <2>5, <2>7 DEF FreshAt
    <3>2. entry(k) \in log' /\ OpId(entry(k).op) = OpId(o)
      BY <1>1, <3>1
    <3> QED
      BY <3>2
  <2> QED
    BY <2>6, <2>7
<1> QED
  BY <1>1, <1>8, <1>9, <1>10

\* Nothing but a push changes the log: not REST, not a fault, not the compaction job.
LEMMA LogStep ==
  ASSUME TypeInv, [Next]_vars
  PROVE  \/ log' = log /\ counter' = counter
         \/ \E b \in late \cup {batch[d] : d \in Device}, to \in SUBSET Device :
               b \in Seq(Op) /\ ServerIngest(b, to) /\ issued' = issued
<1>1. ASSUME NEW d \in Device, DeviceStep(d), ~Ingest(d)
      PROVE  log' = log /\ counter' = counter
  BY <1>1 DEF DeviceStep, Edit, Save, Start, Acks, Page, Apply, Finish, Serve, LosePush,
     LosePull, Reopen, serverVars
<1>2. ASSUME NEW d \in Device, Ingest(d)
      PROVE  batch[d] \in Seq(Op) /\ ServerIngest(batch[d], {d}) /\ issued' = issued
  BY <1>2 DEF Ingest, TypeInv, TypeOK, EngineTypeOK
<1>3. CASE LateIngest
  <2>1. PICK b \in late : ServerIngest(b, {})
    BY <1>3 DEF LateIngest
  <2>2. b \in Seq(Op) /\ issued' = issued
    BY <1>3 DEF LateIngest, engineVars, TypeInv, TypeOK
  <2> QED
    BY <2>1, <2>2
<1>4. CASE Tables \/ Reply \/ Crash
  BY <1>4 DEF Tables, Reply, Crash, ServerApplyNext, ServerReply, ServerCrash
<1>5. CASE Server
  <2>1. CASE Compact
    <3>1. log' = {e \in log : e.op.note \notin Candidates}
      BY <2>1 DEF Compact
    <3>2. log' = log
      BY <3>1, NoCandidates
    <3> QED
      BY <2>1, <3>2 DEF Compact
  <2> QED
    BY <1>5, <2>1 DEF Server, RestRemoveNotebook, RestPatch, RestTrash, RestRestore, RestWrite
<1>6. CASE UNCHANGED vars
  BY <1>6 DEF vars, serverVars
<1>7. ASSUME NEW d \in Device, Ingest(d)
      PROVE  \E b \in late \cup {batch[c] : c \in Device}, to \in SUBSET Device :
               b \in Seq(Op) /\ ServerIngest(b, to) /\ issued' = issued
  <2>1. batch[d] \in late \cup {batch[c] : c \in Device} /\ {d} \in SUBSET Device
    OBVIOUS
  <2> QED
    BY <1>2, <1>7, <2>1
<1> QED
  BY <1>1, <1>3, <1>4, <1>5, <1>6, <1>7 DEF Next

\* Every step keeps ids and numbers of the log unique: ingestOps gives fresh ones.
LEMMA KeysStep ==
  ASSUME TypeInv, LogKeys, [Next]_vars
  PROVE  LogKeys'
<1>1. CASE log' = log
  BY <1>1 DEF LogKeys
<1>2. ASSUME NEW b \in Seq(Op), NEW to, ServerIngest(b, to) PROVE LogKeys'
  <2>1. ASSUME NEW e \in log', NEW f \in log', e # f
        PROVE  OpId(e.op) # OpId(f.op) /\ e.seq # f.seq
    <3>0. \A x \in log : OpId(x.op) \in LogIds /\ x.seq \in Nat
      BY DEF LogIds, TypeInv, TypeOK, ServerTypeOK, Entry
    <3>1. CASE e \in log /\ f \in log
      BY <2>1, <3>1 DEF LogKeys
    <3>2. CASE e \notin log /\ f \notin log
      BY <1>2, <2>1, <3>2, IngestAdds
    <3>3. CASE e \notin log /\ f \in log
      <4>1. e.seq > f.seq /\ OpId(e.op) \notin LogIds
        BY <1>2, <3>3, IngestAdds
      <4>2. e.seq \in Nat
        BY <1>2, TypeStep DEF TypeInv, TypeOK, ServerTypeOK, Entry
      <4> QED
        BY <3>0, <3>3, <4>1, <4>2
    <3>4. CASE e \in log /\ f \notin log
      <4>1. f.seq > e.seq /\ OpId(f.op) \notin LogIds
        BY <1>2, <3>4, IngestAdds
      <4>2. f.seq \in Nat
        BY <1>2, TypeStep DEF TypeInv, TypeOK, ServerTypeOK, Entry
      <4> QED
        BY <3>0, <3>4, <4>1, <4>2
    <3> QED
      BY <3>1, <3>2, <3>3, <3>4
  <2> QED
    BY <2>1 DEF LogKeys
<1> QED
  BY <1>1, <1>2, LogStep

\* The run's property: ids and numbers are keys of the log, and the counter is at its end,
\* whatever was repeated, late or resent (ingestOps).
THEOREM LogIdentityHolds == Spec => []LogIdentity
<1>1. Init => LogKeys
  BY DEF Init, ServerInit, LogKeys
<1>2. TypeInv /\ LogKeys /\ [Next]_vars => LogKeys'
  BY KeysStep
<1>3. TypeInv /\ LogKeys => LogIdentity
  BY DEF TypeInv, Bounded, LogKeys, LogIdentity
<1> QED
  BY <1>1, <1>2, <1>3, TypeInvariant, PTL DEF Spec
-----------------------------------------------------------------------------
(***************************************************************************)
(* Where ops come from.                                                    *)
(***************************************************************************)

\* The empty queue holds nothing.
LEMMA EmptyRange == Range(<<>>) = {}
  BY DEF Range

\* Append adds its op and keeps the others.
LEMMA AppendRange ==
  ASSUME NEW S, NEW s \in Seq(S), NEW x \in S
  PROVE  Range(Append(s, x)) = Range(s) \cup {x}
<1>1. Append(s, x) = s \o <<x>> /\ <<x>> \in Seq(S)
  BY AppendIsConcat
<1>2. Range(<<x>>) = {x}
  BY DEF Range
<1>3. Range(s \o <<x>>) = Range(s) \cup Range(<<x>>)
  BY <1>1, RangeConcatenation
<1> QED
  BY <1>1, <1>2, <1>3

\* A device that hands PushNext ops that were made has in its hands ops that were made.
LEMMA PushNextIssued ==
  ASSUME TypeInv, OnlyIssued, NEW d \in Device, NEW ops \in Seq(Op), PushNext(d, ops),
         Range(ops) \subseteq issued
  PROVE  \A c \in Device : Range(batch'[c]) \cup Range(unsent'[c]) \subseteq issued
<1>1. ASSUME NEW c \in Device, c # d PROVE Range(batch'[c]) \cup Range(unsent'[c]) \subseteq issued
  BY <1>1, PushNextTakes DEF TypeInv, OnlyIssued
<1>2. Range(batch'[d]) \cup Range(unsent'[d]) \subseteq issued
  BY PushNextTakes DEF TypeInv
<1> QED
  BY <1>1, <1>2

\* The steps of a device with its outbox.
LEMMA DeviceIssuedStep ==
  ASSUME TypeInv, OnlyIssued, NEW d \in Device, Edit(d) \/ Save(d) \/ Start(d) \/ Acks(d)
  PROVE  OnlyIssued'
<1> USE DEF TypeInv, TypeOK, EngineTypeOK
<1>1. CASE Edit(d)
  <2>1. PICK kind \in Edits, n \in Note, fields \in SUBSET Field, nb \in NotebookOrNone :
           Enqueue(d, kind, n, fields, nb)
    BY <1>1 DEF Edit, NotebookOrNone
  <2> DEFINE o == [dev |-> d, lam |-> lamport[d] + 1, uid |-> Cardinality(issued) + 1,
                   kind |-> kind, note |-> n, fields |-> fields, nb |-> nb]
  <2>2. issued' = issued \cup {o}
    BY <2>1 DEF Enqueue
  <2>3. outbox' = outbox \/ outbox' = [outbox EXCEPT ![d] = Append(@, o)]
    BY <2>1 DEF Enqueue
  <2>4. TypeInv'
    BY <1>1, EditType
  <2>5. o \in Op
    BY <2>2, <2>4
  <2>6. Range(Append(outbox[d], o)) = Range(outbox[d]) \cup {o}
    BY <2>5, AppendRange
  <2>7. \A c \in Device : Range(outbox'[c]) \subseteq Range(outbox[c]) \cup {o}
    BY <2>3, <2>6
  <2>8. UNCHANGED <<quarantine, disk, batch, unsent, late, srv, log>>
    BY <1>1, <2>1 DEF Edit, Enqueue, cycleVars, serverVars
  <2> QED
    BY <2>2, <2>7, <2>8 DEF OnlyIssued
<1>2. CASE Save(d)
  <2>1. disk' = [disk EXCEPT ![d] = OnDisk(d)] /\ OnDisk(d) \subseteq issued
    BY <1>2 DEF Save, Persist, OnDisk, OnlyIssued
  <2>2. UNCHANGED <<outbox, quarantine, batch, unsent, issued, late, srv, log>>
    BY <1>2 DEF Save, Persist, cycleVars, serverVars
  <2> QED
    BY <2>1, <2>2 DEF OnlyIssued
<1>3. CASE Start(d)
  <2>1. outbox[d] \in Seq(Op) /\ Range(outbox[d]) \subseteq issued /\ PushNext(d, outbox[d])
    BY <1>3 DEF Start, StartSync, OnlyIssued
  <2>2. \A c \in Device : Range(batch'[c]) \cup Range(unsent'[c]) \subseteq issued
    BY <2>1, PushNextIssued
  <2>3. UNCHANGED <<outbox, quarantine, disk, issued, late, srv, log>>
    BY <1>3 DEF Start, StartSync, serverVars
  <2> QED
    BY <2>2, <2>3 DEF OnlyIssued
<1>4. CASE Acks(d)
  <2>1. UNCHANGED <<disk, issued, late, srv, log>>
    BY <1>4 DEF Acks, RecvAcks, serverVars
  <2>2. \E ops \in Seq(Op) : Range(ops) \subseteq issued /\ PushNext(d, ops)
    <3>1. <<>> \in Seq(Op) /\ Range(<<>>) \subseteq issued
      BY EmptyRange
    <3>2. unsent[d] \in Seq(Op) /\ Range(unsent[d]) \subseteq issued
      BY DEF OnlyIssued
    <3> QED
      BY <1>4, <3>1, <3>2 DEF Acks, RecvAcks, TakeAcks
  <2>3. \A c \in Device : Range(batch'[c]) \cup Range(unsent'[c]) \subseteq issued
    BY <2>2, PushNextIssued
  <2>4. \A c \in Device : Range(outbox'[c]) \cup quarantine'[c] \subseteq issued
    <3>1. CASE TakeAcks(d)
      <4> DEFINE moved == {o \in Range(outbox[d]) : OpId(o) \in Hopeless(d)}
                 left == Without(outbox[d], Settled(d) \cup Hopeless(d))
      <4>1. Range(left) \subseteq Range(outbox[d]) /\ moved \subseteq Range(outbox[d])
        BY WithoutTakesNone
      <4>2. /\ quarantine' = [quarantine EXCEPT ![d] = @ \cup moved]
            /\ outbox' = [outbox EXCEPT ![d] = left]
        BY <3>1 DEF TakeAcks
      <4>3. Range(outbox[d]) \cup quarantine[d] \subseteq issued
        BY DEF OnlyIssued
      <4> HIDE DEF moved, left
      <4>4. Range(outbox'[d]) \cup quarantine'[d] \subseteq issued
        BY <4>1, <4>2, <4>3
      <4>5. \A c \in Device \ {d} : outbox'[c] = outbox[c] /\ quarantine'[c] = quarantine[c]
        BY <4>2
      <4> QED
        BY <4>4, <4>5 DEF OnlyIssued
    <3>2. CASE UNCHANGED <<quarantine, outbox>>
      BY <3>2 DEF OnlyIssued
    <3> QED
      BY <1>4, <3>1, <3>2 DEF Acks, RecvAcks
  <2> QED
    BY <2>1, <2>3, <2>4 DEF OnlyIssued
<1> QED
  BY <1>1, <1>2, <1>3, <1>4

\* The steps in which a batch changes hands, and those that leave all ops where they are.
LEMMA NetworkIssuedStep ==
  ASSUME TypeInv, OnlyIssued, [Next]_vars,
         \A d \in Device : ~(Edit(d) \/ Save(d) \/ Start(d) \/ Acks(d))
  PROVE  OnlyIssued'
<1> USE DEF TypeInv, TypeOK, EngineTypeOK
<1>1. ASSUME NEW b \in Seq(Op), NEW to, ServerIngest(b, to), Range(b) \subseteq issued,
             UNCHANGED <<outbox, quarantine, disk, batch, unsent, issued>>, late' \subseteq late
      PROVE  OnlyIssued'
  <2>1. \A e \in log' : e \in log \/ e.op \in Range(b)
    BY <1>1, IngestAdds
  <2>2. srv'.batch = b
    BY <1>1 DEF ServerIngest
  <2> QED
    BY <1>1, <2>1, <2>2 DEF OnlyIssued
<1>2. ASSUME NEW d \in Device, Ingest(d) PROVE OnlyIssued'
  BY <1>1, <1>2 DEF Ingest, OnlyIssued
<1>3. CASE LateIngest
  BY <1>1, <1>3 DEF LateIngest, OnlyIssued, engineVars
<1>4. srv \in Push
  BY DEF ServerTypeOK
<1>5. CASE Tables
  <2>1. srv'.batch = srv.batch
    BY <1>4, <1>5 DEF Tables, ServerApplyNext, Push
  <2> QED
    BY <1>5, <2>1 DEF Tables, ServerApplyNext, OnlyIssued, engineVars
<1>6. NoPush.batch = <<>>
  BY DEF NoPush
<1>7. CASE Reply
  BY <1>6, <1>7, EmptyRange DEF Reply, ServerReply, OnlyIssued
<1>8. CASE Server
  <2>1. UNCHANGED <<srv, engineVars, late>>
    BY <1>8 DEF Server, Compact, RestRemoveNotebook, RestPatch, RestTrash, RestRestore, RestWrite
  <2>2. log' \subseteq log
    BY <1>8 DEF Server, Compact, RestRemoveNotebook, RestPatch, RestTrash, RestRestore, RestWrite
  <2> QED
    BY <2>1, <2>2 DEF OnlyIssued, engineVars
<1>9. ASSUME NEW d \in Device, PushFails(d)
      PROVE  /\ UNCHANGED <<outbox, quarantine, disk, issued>>
             /\ \A c \in Device : Range(batch'[c]) \cup Range(unsent'[c]) \subseteq issued
  <2>1. <<>> \in Seq(Op) /\ Range(<<>>) \subseteq issued /\ PushNext(d, <<>>)
    BY <1>9, EmptyRange DEF PushFails
  <2>2. \A c \in Device : Range(batch'[c]) \cup Range(unsent'[c]) \subseteq issued
    BY <2>1, PushNextIssued
  <2> QED
    BY <1>9, <2>2 DEF PushFails
<1>10. CASE Crash
  <2>1. srv'.batch = <<>> /\ log' = log /\ late' = late
    BY <1>6, <1>10 DEF Crash, ServerCrash
  <2>2. CASE srv.to = {}
    BY <1>10, <2>1, <2>2, EmptyRange DEF Crash, OnlyIssued, engineVars
  <2>3. CASE srv.to # {}
    <3>1. PICK d \in srv.to : PushFails(d)
      BY <1>10, <2>3 DEF Crash
    <3>2. d \in Device
      BY <1>4 DEF Push
    <3> QED
      BY <1>9, <2>1, <3>1, <3>2, EmptyRange DEF OnlyIssued
  <2> QED
    BY <2>2, <2>3
<1>11. ASSUME NEW d \in Device, ServerUnheard(d) PROVE srv'.batch = srv.batch
  BY <1>4, <1>11 DEF ServerUnheard, Push
<1>12. ASSUME NEW d \in Device, LosePush(d) PROVE OnlyIssued'
  <2>1. \A b \in late' : b \in late \/ b = batch[d]
    BY <1>12 DEF LosePush
  <2> QED
    BY <1>9, <1>11, <1>12, <2>1 DEF LosePush, OnlyIssued
<1>13. ASSUME NEW d \in Device, Reopen(d) PROVE OnlyIssued'
  <2>1. \A b \in late' : b \in late \/ b = batch[d]
    BY <1>13 DEF Reopen
  <2>2. PICK s \in Orders(disk[d]) : outbox' = [outbox EXCEPT ![d] = s]
    BY <1>13 DEF Reopen, Restart
  <2>3. Range(s) = disk[d]
    BY OrdersList DEF Bounded
  <2>4. \A c \in Device : Range(outbox'[c]) \subseteq issued
    BY <2>2, <2>3 DEF OnlyIssued
  <2>5. \A c \in Device : /\ quarantine'[c] \subseteq quarantine[c]
                          /\ batch'[c] = batch[c] \/ batch'[c] = <<>>
                          /\ unsent'[c] = unsent[c] \/ unsent'[c] = <<>>
    BY <1>13 DEF Reopen, Restart
  <2>6. UNCHANGED <<disk, issued, log>> /\ srv'.batch = srv.batch
    BY <1>11, <1>13 DEF Reopen, Restart
  <2> QED
    BY <2>1, <2>4, <2>5, <2>6, EmptyRange DEF OnlyIssued
<1>14. ASSUME NEW d \in Device, Page(d) \/ Apply(d) \/ Finish(d) \/ Serve(d) \/ LosePull(d)
       PROVE  OnlyIssued'
  BY <1>14 DEF Page, Apply, Finish, Serve, LosePull, RecvPage, ApplyNext, EndPage, PullFails,
     OnlyIssued, serverVars
<1>15. CASE UNCHANGED vars
  BY <1>15 DEF OnlyIssued, vars, engineVars, serverVars
<1> QED
  BY <1>2, <1>3, <1>5, <1>7, <1>8, <1>10, <1>12, <1>13, <1>14, <1>15 DEF Next, DeviceStep

\* Every step keeps OnlyIssued: no op comes from nowhere.
LEMMA IssuedStep ==
  ASSUME TypeInv, OnlyIssued, [Next]_vars
  PROVE  OnlyIssued'
  BY DeviceIssuedStep, NetworkIssuedStep
-----------------------------------------------------------------------------
(***************************************************************************)
(* Acks and what they are about.                                           *)
(***************************************************************************)

\* A logged id stays logged.
LEMMA LogGrows ==
  ASSUME TypeInv, [Next]_vars
  PROVE  log \subseteq log' /\ LogIds \subseteq LogIds'
<1>1. log \subseteq log'
  BY LogStep, IngestAdds
<1> QED
  BY <1>1 DEF LogIds

\* An ack is about an op of the batch.
LEMMA AckedIsSent ==
  ASSUME NEW d \in Device, NEW statuses, NEW id \in AckedWith(d, statuses)
  PROVE  \E o \in Range(batch[d]) : OpId(o) = id
  BY DEF AckedWith, Range

\* What a device does alone, but for reading acks, is of no concern to the server.
QuietFor(d) ==
    /\ UNCHANGED <<acks, quarantine, srv, log>>
    /\ \A c \in Device \ {d} : phase'[c] = phase[c] /\ batch'[c] = batch[c]
    /\ \/ phase'[d] = phase[d] /\ batch'[d] = batch[d]
       \/ phase[d] # "serving" /\ phase'[d] \notin {"acks", "serving"}

\* A step that leaves a push of a device alone keeps AcksFit.
LEMMA QuietFits ==
  ASSUME TypeInv, AcksFit, NEW d \in Device, QuietFor(d)
  PROVE  AcksFit'
  BY DEF AcksFit, QuietFor, Logged, LogIds, TypeInv, TypeOK, ServerTypeOK, Push

\* These steps of a device leave every push alone.
LEMMA DeviceIsQuiet ==
  ASSUME TypeInv, NEW d \in Device,
         Edit(d) \/ Save(d) \/ Start(d) \/ Page(d) \/ Apply(d) \/ Finish(d) \/ Serve(d) \/ LosePull(d)
  PROVE  QuietFor(d)
<1> USE DEF TypeInv, TypeOK, EngineTypeOK, QuietFor
<1>1. CASE Edit(d) \/ Save(d)
  BY <1>1 DEF Edit, Save, Enqueue, Persist, cycleVars, serverVars
<1>2. CASE Start(d)
  <2>1. outbox[d] \in Seq(Op) /\ PushNext(d, outbox[d]) /\ phase[d] = "idle"
    BY <1>2 DEF Start, StartSync
  <2>2. /\ phase'[d] \in {"push", "pull"}
        /\ \A c \in Device \ {d} : phase'[c] = phase[c] /\ batch'[c] = batch[c]
    BY <2>1, PushNextTakes
  <2> QED
    BY <1>2, <2>1, <2>2 DEF Start, StartSync, serverVars
<1>3. CASE Page(d)
  BY <1>3 DEF Page, RecvPage, serverVars
<1>4. CASE Apply(d)
  BY <1>4 DEF Apply, ApplyNext, serverVars
<1>5. CASE Finish(d)
  BY <1>5 DEF Finish, EndPage, serverVars
<1>6. CASE Serve(d)
  BY <1>6 DEF Serve, serverVars
<1>7. CASE LosePull(d)
  BY <1>7 DEF LosePull, PullFails, serverVars
<1> QED
  BY <1>1, <1>2, <1>3, <1>4, <1>5, <1>6, <1>7

\* The acks are read: what is put into quarantine was acked, so it is logged.
LEMMA AcksFitStep ==
  ASSUME TypeInv, AcksFit, NEW d \in Device, Acks(d)
  PROVE  AcksFit'
<1> USE DEF TypeInv, TypeOK, EngineTypeOK
<1>1. phase[d] = "acks" /\ acks' = [acks EXCEPT ![d] = <<>>] /\ UNCHANGED <<srv, log>>
  BY DEF Acks, RecvAcks, serverVars
<1>2. \E ops \in Seq(Op) : PushNext(d, ops)
  <2>1. <<>> \in Seq(Op) /\ unsent[d] \in Seq(Op)
    OBVIOUS
  <2>2. PushNext(d, <<>>) \/ PushNext(d, unsent[d])
    BY DEF Acks, RecvAcks, TakeAcks
  <2> QED
    BY <2>1, <2>2
<1>3. /\ phase'[d] \in {"push", "pull"}
      /\ \A c \in Device \ {d} : phase'[c] = phase[c] /\ batch'[c] = batch[c]
  BY <1>2, PushNextTakes
<1>4. \A c \in Device : Logged(quarantine'[c])
  <2>1. CASE TakeAcks(d)
    <3> DEFINE moved == {o \in Range(outbox[d]) : OpId(o) \in Hopeless(d)}
    <3>1. quarantine' = [quarantine EXCEPT ![d] = @ \cup moved]
      BY <2>1 DEF TakeAcks
    <3>2. \A id \in Hopeless(d) : id \in LogIds
      <4>1. \A id \in Hopeless(d) : \E o \in Range(batch[d]) : OpId(o) = id
        BY AckedIsSent DEF Hopeless
      <4> QED
        BY <1>1, <4>1 DEF AcksFit, Logged
    <3>3. Logged(moved)
      BY <3>2 DEF Logged
    <3> QED
      BY <3>1, <3>3 DEF AcksFit, Logged
  <2>2. CASE quarantine' = quarantine
    BY <2>2 DEF AcksFit
  <2> QED
    BY <2>1, <2>2 DEF Acks, RecvAcks
<1>5. LogIds' = LogIds
  BY <1>1 DEF LogIds
<1>6. d \notin srv.to
  BY <1>1 DEF AcksFit
<1>7. srv.to \subseteq Device
  BY DEF ServerTypeOK, Push
<1> QED
  BY <1>1, <1>3, <1>4, <1>5, <1>6, <1>7 DEF AcksFit, Logged

\* A batch is taken in: its ids are in the log, the new and the old.
LEMMA IngestFits ==
  ASSUME TypeInv, AcksFit, [Next]_vars, NEW b \in Seq(Op), NEW to \in SUBSET Device,
         ServerIngest(b, to), UNCHANGED <<acks, batch, quarantine>>,
         \A d \in to : phase'[d] = "serving" /\ batch[d] = b,
         \A d \in Device \ to : phase'[d] = phase[d]
  PROVE  AcksFit'
<1> USE DEF TypeInv, TypeOK, EngineTypeOK
<1>1. /\ srv'.busy /\ srv'.to = to /\ srv'.batch = b
      /\ srv'.acks = [i \in DOMAIN b |-> IF i \in FreshAt(b) THEN "accepted" ELSE "duplicate"]
  BY DEF ServerIngest
<1>2. Len(srv'.acks) = Len(b)
  <2>1. Len(b) \in Nat /\ DOMAIN b = 1..Len(b)
    BY LenProperties
  <2>2. srv'.acks \in [1..Len(b) -> Status]
    BY <1>1, <2>1 DEF Status
  <2> QED
    BY <2>1, <2>2, FunctionIsSeq
<1>3. \A o \in Range(b) : OpId(o) \in LogIds'
  BY IngestAdds DEF LogIds
<1>4. LogIds \subseteq LogIds'
  BY LogGrows
<1>5. \A d \in Device : phase'[d] = "acks" => phase[d] = "acks"
  OBVIOUS
<1> QED
  BY <1>1, <1>2, <1>3, <1>4, <1>5 DEF AcksFit, Logged

\* The steps of the server, and the faults.
LEMMA ServerFits ==
  ASSUME TypeInv, AcksFit, Tables \/ Reply \/ Crash \/ Server
  PROVE  AcksFit'
<1> USE DEF TypeInv, TypeOK, EngineTypeOK
<1>1. srv \in Push /\ srv.to \subseteq Device
  BY DEF ServerTypeOK, Push
<1>2. NoPush.to = {} /\ NoPush.batch = <<>> /\ NoPush.acks = <<>> /\ Len(<<>>) = 0
  BY DEF NoPush
<1>3. CASE Tables
  <2>1. /\ srv'.busy = srv.busy /\ srv'.to = srv.to /\ srv'.batch = srv.batch
        /\ srv'.acks = srv.acks \/ srv'.acks = [srv.acks EXCEPT ![srv.next] = "rejected"]
    BY <1>1, <1>3 DEF Tables, ServerApplyNext, Push
  <2>2. Len(srv'.acks) = Len(srv.acks)
    <3>1. srv.acks \in Seq(Status) /\ srv'.acks \in Seq(Status)
      BY <1>3, TablesType DEF ServerTypeOK, Push
    <3>2. DOMAIN srv'.acks = DOMAIN srv.acks
      BY <2>1
    <3> QED
      BY <3>1, <3>2, LenProperties, SameInterval
  <2>3. UNCHANGED <<log, phase, batch, acks, quarantine>>
    BY <1>3 DEF Tables, ServerApplyNext, engineVars
  <2> QED
    BY <2>1, <2>2, <2>3 DEF AcksFit, Logged, LogIds
<1>4. CASE Reply
  <2>1. /\ srv' = NoPush /\ UNCHANGED <<log, batch, quarantine>>
        /\ \A d \in Device : /\ d \in srv.to => phase'[d] = "acks" /\ acks'[d] = srv.acks
                             /\ d \notin srv.to => phase'[d] = phase[d] /\ acks'[d] = acks[d]
    BY <1>4 DEF Reply, ServerReply
  <2>2. LogIds' = LogIds
    BY <2>1 DEF LogIds
  <2> QED
    BY <1>2, <2>1, <2>2, EmptyRange DEF AcksFit, Logged
<1>5. CASE Crash
  <2>1. srv' = NoPush /\ log' = log /\ LogIds' = LogIds
    BY <1>5 DEF Crash, ServerCrash, LogIds
  <2>2. CASE srv.to = {}
    <3>1. UNCHANGED <<phase, batch, acks, quarantine>>
      BY <1>5, <2>2 DEF Crash, engineVars
    <3> QED
      BY <1>2, <2>1, <3>1, EmptyRange DEF AcksFit, Logged
  <2>3. CASE srv.to # {}
    <3>1. PICK d \in srv.to : PushFails(d)
      BY <1>5, <2>3 DEF Crash
    <3>2. d \in Device /\ <<>> \in Seq(Op) /\ PushNext(d, <<>>)
      BY <1>1, <3>1 DEF PushFails
    <3>3. /\ phase'[d] \in {"push", "pull"}
          /\ \A c \in Device \ {d} : phase'[c] = phase[c] /\ batch'[c] = batch[c]
      BY <3>2, PushNextTakes
    <3>4. acks' = [acks EXCEPT ![d] = <<>>] /\ quarantine' = quarantine
      BY <3>1 DEF PushFails
    <3> QED
      BY <1>2, <2>1, <3>3, <3>4, EmptyRange DEF AcksFit, Logged
  <2> QED
    BY <2>2, <2>3
<1>6. CASE Server
  <2>1. UNCHANGED <<srv, phase, batch, acks, quarantine>>
    BY <1>6 DEF Server, Compact, RestRemoveNotebook, RestPatch, RestTrash, RestRestore, RestWrite, engineVars
  <2>2. LogIds \subseteq LogIds'
    BY <1>6, LogGrows DEF Next
  <2> QED
    BY <2>1, <2>2 DEF AcksFit, Logged
<1> QED
  BY <1>3, <1>4, <1>5, <1>6

\* A device leaves its push, or ends: the server's answer is not for it any more.
LEMMA LeaveFits ==
  ASSUME TypeInv, AcksFit, NEW d \in Device, LosePush(d) \/ Reopen(d)
  PROVE  AcksFit'
<1> USE DEF TypeInv, TypeOK, EngineTypeOK
<1>1. srv \in Push /\ srv.to \subseteq Device
  BY DEF ServerTypeOK, Push
<1>2. log' = log /\ LogIds' = LogIds
  BY DEF LosePush, Reopen, LogIds
<1>3. srv'.batch = srv.batch /\ srv'.acks = srv.acks /\ srv'.busy = srv.busy
      /\ srv'.to \subseteq srv.to /\ d \notin srv'.to
  BY <1>1 DEF LosePush, Reopen, ServerUnheard, Push
<1>4. /\ phase'[d] \in {"push", "pull", "idle"}
      /\ \A c \in Device \ {d} : phase'[c] = phase[c] /\ batch'[c] = batch[c] /\ acks'[c] = acks[c]
      /\ \A c \in Device : quarantine'[c] \subseteq quarantine[c]
  <2>1. CASE LosePush(d)
    <3>1. PushNext(d, <<>>) /\ <<>> \in Seq(Op) /\ quarantine' = quarantine
          /\ acks' = [acks EXCEPT ![d] = <<>>]
      BY <2>1 DEF LosePush, PushFails
    <3> QED
      BY <3>1, PushNextTakes
  <2>2. CASE Reopen(d)
    BY <2>2 DEF Reopen, Restart
  <2> QED
    BY <2>1, <2>2
<1> QED
  BY <1>1, <1>2, <1>3, <1>4 DEF AcksFit, Logged

\* Every step keeps AcksFit: acks are of the batch they came for, of ops in the log.
LEMMA FitStep ==
  ASSUME TypeInv, AcksFit, [Next]_vars
  PROVE  AcksFit'
<1>1. ASSUME NEW d \in Device, DeviceStep(d), ~Ingest(d) PROVE AcksFit'
  BY <1>1, DeviceIsQuiet, QuietFits, AcksFitStep, LeaveFits DEF DeviceStep
<1>2. ASSUME NEW d \in Device, Ingest(d) PROVE AcksFit'
  <2>1. batch[d] \in Seq(Op) /\ {d} \in SUBSET Device /\ ServerIngest(batch[d], {d})
    BY <1>2 DEF Ingest, TypeInv, TypeOK, EngineTypeOK
  <2>2. UNCHANGED <<acks, batch, quarantine>> /\ phase' = [phase EXCEPT ![d] = "serving"]
    BY <1>2 DEF Ingest
  <2>3. phase'[d] = "serving" /\ \A c \in Device \ {d} : phase'[c] = phase[c]
    BY <2>2 DEF TypeInv, TypeOK, EngineTypeOK
  <2> QED
    BY <2>1, <2>2, <2>3, IngestFits
<1>3. CASE LateIngest
  <2>1. PICK b \in late : ServerIngest(b, {})
    BY <1>3 DEF LateIngest
  <2>2. b \in Seq(Op) /\ {} \in SUBSET Device /\ UNCHANGED <<acks, batch, quarantine, phase>>
    BY <1>3 DEF LateIngest, engineVars, TypeInv, TypeOK
  <2> QED
    BY <2>1, <2>2, IngestFits
<1>4. CASE Tables \/ Reply \/ Crash \/ Server
  BY <1>4, ServerFits
<1>5. CASE UNCHANGED vars
  BY <1>5 DEF AcksFit, Logged, LogIds, vars, engineVars, serverVars
<1> QED
  BY <1>1, <1>2, <1>3, <1>4, <1>5 DEF Next
-----------------------------------------------------------------------------
(***************************************************************************)
(* No op vanishes.                                                         *)
(***************************************************************************)

\* A new op is put into the outbox, or its id is one in quarantine, and so in the log.
LEMMA EditSafe ==
  ASSUME TypeInv, AcksFit, NoOpVanishes, NEW d \in Device, Edit(d)
  PROVE  NoOpVanishes'
<1> USE DEF TypeInv, TypeOK, EngineTypeOK
<1>1. PICK kind \in Edits, n \in Note, fields \in SUBSET Field, nb \in NotebookOrNone :
         Enqueue(d, kind, n, fields, nb)
  BY DEF Edit, NotebookOrNone
<1>2. PICK o : /\ o.dev = d
               /\ issued' = issued \cup {o}
               /\ outbox' = IF \E q \in quarantine[d] : OpId(q) = OpId(o) THEN outbox
                            ELSE [outbox EXCEPT ![d] = Append(@, o)]
  <2> DEFINE new == [dev |-> d, lam |-> lamport[d] + 1, uid |-> Cardinality(issued) + 1,
                     kind |-> kind, note |-> n, fields |-> fields, nb |-> nb]
  <2>1. /\ new.dev = d
        /\ issued' = issued \cup {new}
        /\ outbox' = IF \E q \in quarantine[d] : OpId(q) = OpId(new) THEN outbox
                     ELSE [outbox EXCEPT ![d] = Append(@, new)]
    BY <1>1 DEF Enqueue
  <2> QED
    BY <2>1
<1>3. UNCHANGED <<quarantine, lost, log>> /\ LogIds' = LogIds
  BY <1>1 DEF Enqueue, Edit, serverVars, LogIds
<1>4. o \in Op
  BY <1>2, EditType
<1>5. Range(Append(outbox[d], o)) = Range(outbox[d]) \cup {o}
  BY <1>4, AppendRange
<1>6. \A c \in Device : Range(outbox[c]) \subseteq Range(outbox'[c])
  BY <1>2, <1>5
<1>7. OpId(o) \in LogIds \/ o \in Range(outbox'[d])
  <2>1. CASE \E q \in quarantine[d] : OpId(q) = OpId(o)
    BY <2>1 DEF AcksFit, Logged
  <2>2. CASE ~\E q \in quarantine[d] : OpId(q) = OpId(o)
    BY <1>2, <1>5, <2>2
  <2> QED
    BY <2>1, <2>2
<1> QED
  BY <1>2, <1>3, <1>6, <1>7 DEF NoOpVanishes, Op

\* An op leaves the outbox because it was acked, and then it is logged.
LEMMA AcksSafe ==
  ASSUME TypeInv, AcksFit, NoOpVanishes, NEW d \in Device, Acks(d)
  PROVE  NoOpVanishes'
<1> USE DEF TypeInv, TypeOK, EngineTypeOK
<1>1. phase[d] = "acks" /\ UNCHANGED <<issued, lost, log>> /\ LogIds' = LogIds
  BY DEF Acks, RecvAcks, serverVars, LogIds
<1>2. CASE TakeAcks(d)
  <2> DEFINE gone == Settled(d) \cup Hopeless(d)
  <2>1. /\ outbox' = [outbox EXCEPT ![d] = Without(@, gone)]
        /\ \A c \in Device : quarantine[c] \subseteq quarantine'[c]
    BY <1>2 DEF TakeAcks
  <2>2. \A id \in gone : id \in LogIds
    <3>1. \A id \in gone : \E o \in Range(batch[d]) : OpId(o) = id
      BY AckedIsSent DEF Settled, Hopeless
    <3> QED
      BY <1>1, <3>1 DEF AcksFit, Logged
  <2>3. \A o \in Range(outbox[d]) : OpId(o) \in gone \/ o \in Range(Without(outbox[d], gone))
    <3> HIDE DEF gone
    <3>1. Range(Without(outbox[d], gone)) = {outbox[d][i] : i \in Others(outbox[d], gone)}
      BY WithoutKeeps
    <3> QED
      BY <3>1 DEF Others, Range
  <2>4. \A o \in Range(outbox[d]) : OpId(o) \in LogIds \/ o \in Range(outbox'[d])
    BY <2>1, <2>2, <2>3
  <2>5. \A c \in Device \ {d} : outbox'[c] = outbox[c]
    BY <2>1
  <2> QED
    BY <1>1, <2>1, <2>4, <2>5 DEF NoOpVanishes, Op
<1>3. CASE UNCHANGED <<quarantine, outbox>>
  BY <1>1, <1>3 DEF NoOpVanishes
<1> QED
  BY <1>2, <1>3 DEF Acks, RecvAcks

\* A tab comes back with what was on disk; the rest is counted as lost.
LEMMA ReopenSafe ==
  ASSUME TypeInv, NoOpVanishes, NEW d \in Device, Reopen(d)
  PROVE  NoOpVanishes'
<1> USE DEF TypeInv, TypeOK, EngineTypeOK
<1>1. PICK s \in Orders(disk[d]) : outbox' = [outbox EXCEPT ![d] = s]
  BY DEF Reopen, Restart
<1>2. Range(s) = disk[d]
  BY OrdersList DEF Bounded
<1>3. /\ lost' = lost \cup ((Range(outbox[d]) \cup quarantine[d]) \ disk[d])
      /\ UNCHANGED <<issued, log>> /\ LogIds' = LogIds
      /\ \A c \in Device \ {d} : outbox'[c] = outbox[c] /\ quarantine'[c] = quarantine[c]
  BY <1>1 DEF Reopen, Restart, LogIds
<1>4. outbox'[d] = s
  BY <1>1
<1>5. \A o \in Range(outbox[d]) \cup quarantine[d] : o \in Range(outbox'[d]) \/ o \in lost'
  BY <1>2, <1>3, <1>4
<1> QED
  BY <1>3, <1>5 DEF NoOpVanishes, Op

\* Every step keeps NoOpVanishes: an op leaves the outbox with an ack, or its tab.
LEMMA SafeStep ==
  ASSUME TypeInv, AcksFit, NoOpVanishes, [Next]_vars
  PROVE  NoOpVanishes'
<1>1. LogIds \subseteq LogIds'
  BY LogGrows
<1>2. ASSUME NEW d \in Device, DeviceStep(d), ~(Edit(d) \/ Acks(d) \/ Reopen(d))
      PROVE  UNCHANGED <<issued, outbox, quarantine, lost>>
  BY <1>2 DEF DeviceStep, Save, Start, Page, Apply, Finish, Ingest, Serve, LosePush, LosePull,
     Persist, StartSync, RecvPage, ApplyNext, EndPage, PushFails, PullFails
<1>3. CASE LateIngest \/ Tables \/ Reply \/ Server \/ UNCHANGED vars
  BY <1>1, <1>3 DEF LateIngest, Tables, Reply, Server, vars, engineVars, NoOpVanishes
<1>4. CASE Crash
  <2>1. UNCHANGED <<issued, outbox, quarantine, lost>>
    BY <1>4 DEF Crash, PushFails, engineVars
  <2> QED
    BY <1>1, <2>1 DEF NoOpVanishes
<1>5. ASSUME NEW d \in Device, DeviceStep(d) PROVE NoOpVanishes'
  <2>1. CASE Edit(d) \/ Acks(d) \/ Reopen(d)
    BY <2>1, EditSafe, AcksSafe, ReopenSafe
  <2>2. CASE ~(Edit(d) \/ Acks(d) \/ Reopen(d))
    BY <1>1, <1>2, <1>5, <2>2 DEF NoOpVanishes
  <2> QED
    BY <2>1, <2>2
<1> QED
  BY <1>3, <1>4, <1>5 DEF Next

\* Whatever is lost, late, repeated or cut off by a crash or a restart, an op is logged under
\* its id, or still held by its device, or was made just before a tab ended and not on disk.
THEOREM NoOpVanishesHolds == Spec => []NoOpVanishes
<1>1. Init => AcksFit /\ NoOpVanishes
  BY EmptyRange DEF Init, EngineInit, ServerInit, NoPush, AcksFit, Logged, NoOpVanishes
<1>2. TypeInv /\ AcksFit /\ NoOpVanishes /\ [Next]_vars => (AcksFit /\ NoOpVanishes)'
  BY FitStep, SafeStep
<1> QED
  BY <1>1, <1>2, TypeInvariant, PTL DEF Spec

-----------------------------------------------------------------------------
(***************************************************************************)
(* The log implements OpLog.                                               *)
(***************************************************************************)

\* No op that was made is unmade.
LEMMA IssuedGrows ==
  ASSUME [Next]_vars
  PROVE  issued \subseteq issued'
<1>1. ASSUME NEW d \in Device, DeviceStep(d) PROVE issued \subseteq issued'
  BY <1>1 DEF DeviceStep, Edit, Save, Start, Acks, Page, Apply, Finish, Ingest, Serve, LosePush,
     LosePull, Reopen, Enqueue, Persist, StartSync, RecvAcks, RecvPage, ApplyNext, EndPage,
     PushFails, PullFails, Restart
<1>2. CASE LateIngest \/ Tables \/ Reply \/ Server \/ Crash
  BY <1>2 DEF LateIngest, Tables, Reply, Server, Crash, PushFails, engineVars
<1> QED
  BY <1>1, <1>2 DEF Next, vars, engineVars

\* Every step of the system makes ops, logs a batch of ops that were made, under new ids and
\* larger numbers, or is none of the abstract log's concern.
THEOREM ImplementsOpLog == Spec => OpLogSpec
<1> DEFINE made == {OpId(o) : o \in issued}
           abs(e) == [id |-> OpId(e.op), seq |-> e.seq]
           entries == {abs(e) : e \in log}
<1>1. Init => OL!Init
  BY DEF Init, EngineInit, ServerInit, OL!Init
<1>2. ASSUME TypeInv, OnlyIssued, LogKeys, [Next]_vars
      PROVE  [OL!Make \/ OL!Commit]_<<made, entries>>
  <2>1. CASE log' = log
    <3>1. issued \subseteq issued'
      BY <1>2, IssuedGrows
    <3>2. made \subseteq made' /\ entries' = entries
      BY <2>1, <3>1
    <3> QED
      BY <3>2 DEF OL!Make
  <2>2. ASSUME NEW b \in late \cup {batch[d] : d \in Device}, NEW to \in SUBSET Device,
               b \in Seq(Op), ServerIngest(b, to), issued' = issued
        PROVE  OL!Commit
    <3>1. Range(b) \subseteq issued
      BY <2>2, <1>2 DEF OnlyIssued
    <3>2. made' = made
      BY <2>2
    <3>3. /\ log \subseteq log'
          /\ \A e \in log' \ log : /\ e.op \in Range(b) /\ OpId(e.op) \notin LogIds
                                   /\ \A f \in log : e.seq > f.seq
          /\ \A e, f \in log' \ log : e # f => OpId(e.op) # OpId(f.op) /\ e.seq # f.seq
      BY <1>2, <2>2, IngestAdds
    <3>4. entries \subseteq entries'
      BY <3>3
    <3>5. ASSUME NEW x \in entries' \ entries
          PROVE  \E e \in log' \ log : x = abs(e)
      OBVIOUS
    <3>6. ASSUME NEW x \in entries' \ entries
          PROVE  /\ x.id \in made
                 /\ \A y \in entries : x.id # y.id /\ x.seq > y.seq
                 /\ \A y \in entries' \ entries : x # y => x.id # y.id /\ x.seq # y.seq
      <4>1. PICK e \in log' \ log : x = abs(e)
        BY <3>5
      <4>2. x.id = OpId(e.op) /\ x.seq = e.seq
        BY <4>1
      <4>3. x.id \in made
        BY <3>1, <3>3, <4>2
      <4>4. ASSUME NEW y \in entries PROVE x.id # y.id /\ x.seq > y.seq
        <5>1. PICK f \in log : y = abs(f)
          OBVIOUS
        <5>2. y.id = OpId(f.op) /\ y.seq = f.seq /\ OpId(f.op) \in LogIds
          BY <5>1 DEF LogIds
        <5> QED
          BY <3>3, <4>2, <5>2
      <4>5. ASSUME NEW y \in entries' \ entries, x # y PROVE x.id # y.id /\ x.seq # y.seq
        <5>1. PICK f \in log' \ log : y = abs(f)
          BY <3>5
        <5>2. y.id = OpId(f.op) /\ y.seq = f.seq /\ e # f
          BY <4>1, <4>5, <5>1
        <5> QED
          BY <3>3, <4>2, <5>2
      <4> QED
        BY <4>3, <4>4, <4>5
    <3> QED
      BY <3>2, <3>4, <3>6 DEF OL!Commit
  <2> QED
    BY <1>2, <2>1, <2>2, LogStep
<1>3. Init => OnlyIssued /\ LogKeys
  BY EmptyRange DEF Init, EngineInit, ServerInit, NoPush, OnlyIssued, LogKeys
<1>4. TypeInv /\ OnlyIssued /\ LogKeys /\ [Next]_vars => (OnlyIssued /\ LogKeys)'
  BY IssuedStep, KeysStep
<1> QED
  BY <1>1, <1>2, <1>3, <1>4, TypeInvariant, PTL DEF Spec, OpLogSpec, OL!Spec
-----------------------------------------------------------------------------
(***************************************************************************)
(* Clocks of rows.                                                         *)
(***************************************************************************)

\* The two halves of RevNeverRegresses, as one step.
NotesKeepRev ==
    \A n \in Note : Present(notes[n]) /\ Present(notes[n]') => notes[n]'.rev >= notes[n].rev

StoresKeepRev ==
    \A d \in Device, n \in Note :
        Present(store[d][n]) /\ Present(store[d][n]') => store[d][n]'.rev >= store[d][n].rev

\* Rows that do not change keep their rev.
LEMMA SameRowsKeepRev ==
  ASSUME TypeInv
  PROVE  (notes' = notes => NotesKeepRev) /\ (store' = store => StoresKeepRev)
<1>1. /\ \A n \in Note : notes[n] \in Row
      /\ \A d \in Device, n \in Note : store[d][n] \in Row
  BY DEF TypeInv, TypeOK, ServerTypeOK, EngineTypeOK
<1>2. \A row \in Row : row.rev >= row.rev
  BY DEF Row
<1> QED
  BY <1>1, <1>2 DEF NotesKeepRev, StoresKeepRev

\* applyOps on a device lets no rev go back.
LEMMA ApplyKeepsRev ==
  ASSUME TypeInv, NEW d \in Device, Apply(d)
  PROVE  StoresKeepRev
<1>1. PICK o \in page[d] : store' = [store EXCEPT ![d][o.note] = ClientApply(@, o)]
  BY DEF Apply, ApplyNext
<1>2. o \in Op /\ o.note \in Note /\ store \in [Device -> [Note -> Row]]
  BY DEF TypeInv, TypeOK, EngineTypeOK, Op
<1>3. \A c \in Device, n \in Note :
        store'[c][n] = IF c = d /\ n = o.note THEN ClientApply(store[c][n], o) ELSE store[c][n]
  BY <1>1, <1>2
<1>4. \A c \in Device, n \in Note : store[c][n] \in Row
  BY <1>2
<1>5. \A row \in Row : row.rev >= row.rev
  BY DEF Row
<1> QED
  BY <1>2, <1>3, <1>4, <1>5, ClientApplyRev DEF StoresKeepRev

\* Neither does the apply loop of the server.
LEMMA TablesKeepRev ==
  ASSUME TypeInv, Tables
  PROVE  NotesKeepRev
<1> USE DEF TypeInv, TypeOK, ServerTypeOK
<1>1. CASE notes' = notes
  BY <1>1, SameRowsKeepRev
<1>2. CASE notes' # notes
  <2> DEFINE o == srv.batch[srv.next]
  <2>1. notes' = [notes EXCEPT ![o.note] = ServerApply(@, o)]
    BY <1>2 DEF Tables, ServerApplyNext
  <2>2. o \in Op /\ o.note \in Note
    <3>1. srv.batch \in Seq(Op) /\ srv.next \in Nat
      BY DEF Push
    <3>2. Len(srv.batch) \in Nat /\ \A k \in 1..Len(srv.batch) : srv.batch[k] \in Op
      BY <3>1, LenProperties
    <3>3. srv.next \in 1..Len(srv.batch)
      BY <3>1, <3>2 DEF Bounded, Tables, ServerApplyNext
    <3> QED
      BY <3>2, <3>3 DEF Op
  <2> HIDE DEF o
  <2>3. \A n \in Note : notes'[n] = IF n = o.note THEN ServerApply(notes[n], o) ELSE notes[n]
    BY <2>1, <2>2
  <2>4. \A row \in Row : row.rev >= row.rev
    BY DEF Row
  <2>5. \A n \in Note : notes[n] \in Row
    OBVIOUS
  <2> QED
    BY <2>2, <2>3, <2>4, <2>5, ServerApplyRev DEF NotesKeepRev
<1> QED
  BY <1>1, <1>2

\* Neither do the REST writes.
LEMMA RestKeepsRev ==
  ASSUME TypeInv, Server
  PROVE  NotesKeepRev
<1> USE DEF TypeInv, TypeOK, ServerTypeOK
<1>1. CASE notes' = notes
  BY <1>1, SameRowsKeepRev
<1>2. ASSUME NEW n \in Note, NEW row \in Row, row.rev = notes[n].rev, RestWrite(n, row)
      PROVE  NotesKeepRev
  <2>1. notes' = [notes EXCEPT ![n] = [row EXCEPT !.rev = @ + 1]]
    BY <1>2 DEF RestWrite
  <2>2. [row EXCEPT !.rev = @ + 1].rev = notes[n].rev + 1 /\ notes[n].rev \in Nat
    BY <1>2 DEF Row
  <2>3. \A m \in Note : /\ m = n => notes'[m].rev = notes[m].rev + 1
                        /\ m # n => notes'[m] = notes[m]
                        /\ notes[m].rev \in Nat
    BY <2>1, <2>2 DEF Row
  <2>4. \A m \in Note : notes'[m].rev >= notes[m].rev
    BY <2>3
  <2> QED
    BY <2>4 DEF NotesKeepRev
<1>3. ASSUME NEW n \in Note, NEW f \in Field, RestPatch(n, f) PROVE NotesKeepRev
  <2>1. [notes[n] EXCEPT !.val[f] = 0] \in Row /\ [notes[n] EXCEPT !.val[f] = 0].rev = notes[n].rev
    BY DEF Row
  <2> QED
    BY <1>2, <1>3, <2>1 DEF RestPatch
<1>4. ASSUME NEW n \in Note, RestTrash(n) \/ RestRestore(n) PROVE NotesKeepRev
  <2>1. notes[n] \in Row /\ notes[n].state # "absent"
    BY <1>4 DEF RestTrash, RestRestore
  <2>2. \A state \in {"live", "trashed"} :
          /\ [notes[n] EXCEPT !.state = state] \in Row
          /\ [notes[n] EXCEPT !.state = state].rev = notes[n].rev
    BY <2>1 DEF Row
  <2> QED
    BY <1>2, <1>4, <2>2 DEF RestTrash, RestRestore
<1>5. CASE Compact
  BY <1>1, <1>5 DEF Compact
<1>6. ASSUME NEW nb \in Notebook, NEW target \in Notebook, RestRemoveNotebook(nb, target)
      PROVE  NotesKeepRev
  <2>1. \A row \in Row : row.rev \in Nat /\ Moved(row, target).rev >= row.rev
    BY MovedRow DEF Row
  <2>2. \A n \in Note : notes[n] \in Row /\ notes'[n].rev >= notes[n].rev
    <3> TAKE n \in Note
    <3>1. notes[n] \in Row
      OBVIOUS
    <3>2. notes'[n] = notes[n] \/ notes'[n] = Moved(notes[n], target)
      BY <1>6 DEF RestRemoveNotebook
    <3> QED
      BY <2>1, <3>1, <3>2
  <2> QED
    BY <2>2 DEF NotesKeepRev
<1> QED
  BY <1>3, <1>4, <1>5, <1>6 DEF Server

\* On every device, and in the tables of the server, the rev of a row that stays never goes
\* back, although devices apply the whole log again in every cycle.
THEOREM RevNeverRegressesHolds == Spec => RevNeverRegresses
<1>1. TypeInv /\ [Next]_vars => NotesKeepRev /\ StoresKeepRev
  <2>1. SUFFICES ASSUME TypeInv, [Next]_vars PROVE NotesKeepRev /\ StoresKeepRev
    OBVIOUS
  <2>2. ASSUME NEW d \in Device, DeviceStep(d) PROVE notes' = notes /\ (store' = store \/ Apply(d))
    BY <2>2 DEF DeviceStep, Edit, Save, Start, Acks, Page, Finish, Ingest, Serve, LosePush,
       LosePull, Reopen, Enqueue, Persist, StartSync, RecvAcks, RecvPage, EndPage, PushFails,
       PullFails, Restart, Apply, ApplyNext, ServerIngest, serverVars
  <2>3. CASE LateIngest \/ Reply \/ Crash \/ UNCHANGED vars
    <3>1. notes' = notes /\ store' = store
      BY <2>3 DEF LateIngest, Reply, Crash, ServerIngest, ServerReply, ServerCrash, PushFails,
         vars, engineVars, serverVars
    <3> QED
      BY <2>1, <3>1, SameRowsKeepRev
  <2>4. CASE Tables \/ Server
    <3>1. store' = store
      BY <2>4 DEF Tables, Server, engineVars
    <3> QED
      BY <2>1, <2>4, <3>1, SameRowsKeepRev, TablesKeepRev, RestKeepsRev
  <2> QED
    BY <2>1, <2>2, <2>3, <2>4, SameRowsKeepRev, ApplyKeepsRev DEF Next
<1>2. NotesKeepRev /\ StoresKeepRev =>
        /\ \A n \in Note : Present(notes[n]) /\ Present(notes[n]') => notes[n]'.rev >= notes[n].rev
        /\ \A d \in Device, n \in Note :
             Present(store[d][n]) /\ Present(store[d][n]') => store[d][n]'.rev >= store[d][n].rev
  BY DEF NotesKeepRev, StoresKeepRev
<1> QED
  BY <1>1, <1>2, TypeInvariant, PTL DEF Spec, RevNeverRegresses
=============================================================================
