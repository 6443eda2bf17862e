------------------------- MODULE ImportRunner_proofs -------------------------
(***************************************************************************)
(* What holds of a batch of the import runner, for any staged documents,   *)
(* any notes of the user, and any number of runs, crashes and rollbacks.   *)
(***************************************************************************)
EXTENDS ImportRunner, FiniteSetTheorems, TLAPS

\* A set of natural numbers has a least one: what stands for induction here.
LEMMA LeastNumber ==
    ASSUME NEW T, T \subseteq Nat, T # {}
    PROVE  \E n \in T : \A m \in T : n <= m
<1>1. \E R : IsWellFoundedOn(R, Nat) /\ \A n, m \in Nat : <<m, n>> \in R <=> m < n
  <2>1. \A n, m \in Nat : <<m, n>> \in OpToRel(<, Nat) <=> m < n
    BY DEF OpToRel
  <2>2. IsWellFoundedOn(OpToRel(<, Nat), Nat)
    BY NatLessThanWellFounded
  <2> WITNESS OpToRel(<, Nat)
  <2> QED BY <2>1, <2>2
<1>2. PICK R : IsWellFoundedOn(R, Nat) /\ \A n, m \in Nat : <<m, n>> \in R <=> m < n
  BY <1>1
<1>3. PICK n \in T : \A m \in T : ~ (<<m, n>> \in R)
  BY <1>2, WFMin
<1>4. \A m \in T : ~ (m < n)
  BY <1>2, <1>3
<1> QED BY <1>4

-----------------------------------------------------------------------------
(* Titles.                                                                 *)

\* Documents are numbered from 1.
LEMMA Documents ==
    /\ Len(Docs) \in Nat /\ DOMAIN Docs = 1 .. Len(Docs)
    /\ \A k \in DOMAIN Docs : /\ Docs[k].id \in STRING \ {User} /\ Docs[k].title \in Title
                              /\ Docs[k].asset \in BOOLEAN
<1> DEFINE D == [id : STRING \ {User}, title : Title, link : STRING, asset : BOOLEAN]
<1>1. Docs \in Seq(D)
  BY ImportAssumption
<1> HIDE DEF D
<1>2. Len(Docs) \in Nat /\ DOMAIN Docs = 1 .. Len(Docs) /\ \A k \in DOMAIN Docs : Docs[k] \in D
  BY <1>1
<1> QED BY <1>2 DEF D

\* The number that renaming chooses exists: of one more numbers than there are titles
\* one is free.
LEMMA RenamedIsFree ==
    ASSUME NEW titles, IsFiniteSet(DOMAIN titles), NEW t \in Title
    PROVE  Renamed(titles, t) \in Title /\ Renamed(titles, t) \notin DOMAIN titles
<1> DEFINE N == 1 .. Cardinality(DOMAIN titles) + 1
           Free(n) == /\ Numbered(t, n) \notin DOMAIN titles
                      /\ \A m \in 1 .. n - 1 : Numbered(t, m) \in DOMAIN titles
<1>0. t[1] \in STRING /\ t[2] \in Seq(Nat)
  BY DEF Title
<1>1. Cardinality(DOMAIN titles) \in Nat
  BY FS_CardinalityType
<1>2. IsFiniteSet(N) /\ Cardinality(N) = Cardinality(DOMAIN titles) + 1
  BY <1>1, FS_Interval
<1>3. \A n, m \in N : Numbered(t, n) = Numbered(t, m) => n = m
  <2> SUFFICES ASSUME NEW n \in N, NEW m \in N, Numbered(t, n) = Numbered(t, m) PROVE n = m
    OBVIOUS
  <2>1. Append(t[2], n) = Append(t[2], m)
    BY DEF Numbered
  <2>2. Append(t[2], n)[Len(t[2]) + 1] = n /\ Append(t[2], m)[Len(t[2]) + 1] = m
    BY <1>0, <1>1
  <2> QED BY <2>1, <2>2
<1>4. PICK n \in N : Numbered(t, n) \notin DOMAIN titles
  <2> SUFFICES ASSUME \A n \in N : Numbered(t, n) \in DOMAIN titles PROVE FALSE
    OBVIOUS
  <2> DEFINE f == [n \in N |-> Numbered(t, n)]
  <2>1. f \in [N -> DOMAIN titles]
    OBVIOUS
  <2>2. Cardinality(DOMAIN titles) < Cardinality(N)
    BY <1>1, <1>2
  <2> HIDE DEF N, f
  <2>3. \E x, y \in N : x # y /\ f[x] = f[y]
    BY <1>2, <2>1, <2>2, FS_PigeonHole
  <2> QED BY <1>3, <2>3 DEF f
<1> DEFINE F == {m \in N : Numbered(t, m) \notin DOMAIN titles}
<1>f. F \subseteq Nat /\ F # {}
  BY <1>1, <1>4
<1> HIDE DEF F
<1>5. PICK l \in F : \A m \in F : l <= m
  BY <1>f, LeastNumber
<1>6. Free(l)
  <2>1. \A m \in 1 .. l - 1 : m \in N /\ ~(l <= m)
    BY <1>1 DEF F
  <2> QED BY <1>5, <2>1 DEF F
<1>7. PICK c \in N : c = (CHOOSE m \in N : Free(m)) /\ Free(c)
  BY <1>5, <1>6 DEF F
<1>8. Renamed(titles, t) = Numbered(t, c)
  BY <1>7 DEF Renamed
<1>9. Numbered(t, c) \in Title
  <2>1. Append(t[2], c) \in Seq(Nat)
    BY <1>0, <1>1
  <2> QED BY <1>0, <2>1 DEF Numbered, Title
<1> QED BY <1>7, <1>8, <1>9

Owner == STRING \cup {User}
Note == [title : Title, doc : Owner, live : BOOLEAN, body : Owner, link : Title \cup {NoLink}]

\* Each title of a live note leads to a live note of that title, and there are finitely
\* many of them.
LEMMA TitlesIndexOK ==
    ASSUME rows \in Seq(Note)
    PROVE  /\ IsFiniteSet(DOMAIN TitlesIndex)
           /\ \A id \in LiveNotes : rows[id].title \in DOMAIN TitlesIndex
           /\ \A t \in DOMAIN TitlesIndex :
                  /\ TitlesIndex[t] \in LiveNotes /\ rows[TitlesIndex[t]].title = t
                  /\ \A id \in LiveNotes : rows[id].title = t => TitlesIndex[t] <= id
<1> DEFINE Titles == {rows[id].title : id \in LiveNotes}
<1>1. DOMAIN TitlesIndex = Titles
  BY DEF TitlesIndex
<1>2. IsFiniteSet(LiveNotes) /\ LiveNotes \subseteq Nat
  <2>1. LiveNotes \subseteq 1 .. Len(rows) /\ Len(rows) \in Nat
    BY DEF LiveNotes
  <2>2. IsFiniteSet(1 .. Len(rows))
    BY <2>1, FS_Interval
  <2>3. IsFiniteSet(LiveNotes)
    BY <2>1, <2>2, FS_Subset
  <2> QED BY <2>1, <2>3
<1>3. IsFiniteSet(Titles)
  <2> DEFINE f == [id \in LiveNotes |-> rows[id].title]
  <2>1. f \in Surjection(LiveNotes, Titles)
    BY DEF Surjection
  <2> HIDE DEF f
  <2> QED BY <1>2, <2>1, FS_Surjection
<1>4. ASSUME NEW t \in Titles
      PROVE  /\ TitlesIndex[t] \in LiveNotes /\ rows[TitlesIndex[t]].title = t
             /\ \A id \in LiveNotes : rows[id].title = t => TitlesIndex[t] <= id
  <2> DEFINE T == {id \in LiveNotes : rows[id].title = t}
             First(id) == rows[id].title = t /\ \A j \in LiveNotes : rows[j].title = t => id <= j
  <2>1. T \subseteq Nat /\ T # {}
    BY <1>2
  <2> HIDE DEF T
  <2>2. PICK l \in T : \A m \in T : l <= m
    BY <2>1, LeastNumber
  <2>3. l \in LiveNotes /\ First(l)
    BY <2>2 DEF T
  <2>4. TitlesIndex[t] = CHOOSE id \in LiveNotes : First(id)
    BY DEF TitlesIndex
  <2>5. TitlesIndex[t] \in LiveNotes /\ First(TitlesIndex[t])
    BY <2>3, <2>4
  <2> QED BY <2>5
<1> QED BY <1>1, <1>3, <1>4

-----------------------------------------------------------------------------
(* The plan of a run: the final title of every document.                   *)

\* What planTitles has decided after the first k documents: titles that it found stay
\* as they are, and those that it gives are reserved; renamed ones are new, and no two
\* are the same.
PlanOK(p, k) ==
    /\ DOMAIN p.final = {Docs[j].id : j \in {i \in Pending : i <= k}}
    /\ IsFiniteSet(DOMAIN p.titles) /\ DOMAIN TitlesIndex \subseteq DOMAIN p.titles
    /\ \A t \in DOMAIN p.titles :
           p.titles[t] = IF t \in DOMAIN TitlesIndex THEN TitlesIndex[t] ELSE Reserved
    /\ \A j \in Pending : j <= k =>
           LET t == p.final[Docs[j].id]
           IN /\ t \in Title /\ t \in DOMAIN p.titles
              /\ strategy # "rename" => t = Docs[j].title
              /\ strategy = "rename" =>
                     /\ t \notin DOMAIN TitlesIndex
                     /\ \A i \in Pending : i <= k /\ p.final[Docs[i].id] = t => i = j

LEMMA PlannedOK ==
    ASSUME NEW p, NEW k \in Pending, PlanOK(p, k - 1)
    PROVE  PlanOK(Planned(p, Docs[k]), k)
<1> DEFINE doc == Docs[k]
           title == FinalTitle(p.titles, doc.title)
           q == Planned(p, doc)
<1>1. k \in Nat /\ Pending \subseteq Nat /\ Pending \subseteq DOMAIN Docs /\ doc.title \in Title
  BY Documents DEF Pending
<1>2. title \in Title /\ (strategy # "rename" => title = doc.title)
      /\ (strategy = "rename" => title \notin DOMAIN p.titles)
  BY <1>1, RenamedIsFree DEF FinalTitle, PlanOK
<1>3. PICK t : t = title
  OBVIOUS
<1>4. /\ q.final = Put(p.final, doc.id, t)
      /\ q.titles = IF t \in DOMAIN p.titles THEN p.titles ELSE Put(p.titles, t, Reserved)
  BY <1>3 DEF Planned
<1>5. PICK u : u = q
  OBVIOUS
<1> HIDE DEF q, title
<1>6. /\ u.final = Put(p.final, doc.id, t)
      /\ u.titles = IF t \in DOMAIN p.titles THEN p.titles ELSE Put(p.titles, t, Reserved)
      /\ t \in Title /\ (strategy # "rename" => t = doc.title)
      /\ (strategy = "rename" => t \notin DOMAIN p.titles)
  BY <1>2, <1>3, <1>4, <1>5
<1>7. DOMAIN u.final = DOMAIN p.final \cup {doc.id}
  BY <1>6 DEF Put
<1>8. u.final[doc.id] = t
  BY <1>6 DEF Put
<1>9. ASSUME NEW j \in Pending, j <= k - 1
      PROVE  u.final[Docs[j].id] = p.final[Docs[j].id]
  <2>1. Docs[j].id # doc.id
    BY <1>1, <1>9, ImportAssumption
  <2>2. Docs[j].id \in DOMAIN p.final
    BY <1>9 DEF PlanOK
  <2> QED BY <1>6, <2>1, <2>2 DEF Put
<1>10. DOMAIN u.titles = DOMAIN p.titles \cup {t}
  BY <1>6 DEF Put
<1>11. ASSUME NEW x \in DOMAIN u.titles
       PROVE  u.titles[x] = IF x \in DOMAIN TitlesIndex THEN TitlesIndex[x] ELSE Reserved
  BY <1>6, <1>10 DEF Put, PlanOK
<1>12. \A j \in Pending : j <= k => j <= k - 1 \/ j = k
  BY <1>1
<1>13. DOMAIN u.final = {Docs[j].id : j \in {i \in Pending : i <= k}}
  <2>1. {i \in Pending : i <= k} = {i \in Pending : i <= k - 1} \cup {k}
    BY <1>1, \A i \in Pending : i <= k <=> i <= k - 1 \/ i = k
  <2> QED BY <1>7, <2>1 DEF PlanOK
<1>14. IsFiniteSet(DOMAIN u.titles) /\ DOMAIN TitlesIndex \subseteq DOMAIN u.titles
  BY <1>10, FS_AddElement DEF PlanOK
<1>15. ASSUME NEW j \in Pending, j <= k
       PROVE  LET x == u.final[Docs[j].id]
              IN /\ x \in Title /\ x \in DOMAIN u.titles
                 /\ strategy # "rename" => x = Docs[j].title
                 /\ strategy = "rename" =>
                        /\ x \notin DOMAIN TitlesIndex
                        /\ \A i \in Pending : i <= k /\ u.final[Docs[i].id] = x => i = j
  <2>1. CASE j = k
    <3>1. ASSUME NEW i \in Pending, i <= k, u.final[Docs[i].id] = t, strategy = "rename"
          PROVE  i = j
      <4>1. SUFFICES ASSUME i <= k - 1 PROVE FALSE
        BY <1>12, <2>1, <3>1
      <4> QED BY <1>6, <1>9, <3>1, <4>1 DEF PlanOK
    <3> QED BY <1>6, <1>8, <1>10, <2>1, <3>1 DEF PlanOK
  <2>2. CASE j <= k - 1
    <3>1. PICK x : x = p.final[Docs[j].id]
      OBVIOUS
    <3>2. /\ x \in Title /\ x \in DOMAIN p.titles
          /\ strategy # "rename" => x = Docs[j].title
          /\ strategy = "rename" =>
                        /\ x \notin DOMAIN TitlesIndex
                        /\ \A i \in Pending : i <= k - 1 /\ p.final[Docs[i].id] = x => i = j
      BY <2>2, <3>1 DEF PlanOK
    <3>3. u.final[Docs[j].id] = x
      BY <1>9, <2>2, <3>1
    <3>4. ASSUME NEW i \in Pending, i <= k, u.final[Docs[i].id] = x, strategy = "rename"
          PROVE  i = j
      <4>1. CASE i = k
        BY <1>6, <1>8, <3>2, <3>4, <4>1
      <4>2. CASE i <= k - 1
        BY <1>9, <3>2, <3>4, <4>2
      <4> QED BY <1>12, <3>4, <4>1, <4>2
    <3> QED BY <1>10, <3>2, <3>3, <3>4
  <2> QED BY <1>12, <1>15, <2>1, <2>2
<1>16. PlanOK(u, k)
  BY <1>11, <1>13, <1>14, <1>15 DEF PlanOK
<1> QED BY <1>5, <1>16 DEF q


\* planTitles after k documents, f having what it decided after fewer.
PlanStep(f, k) ==
    IF k = 0 THEN [final |-> <<>>, titles |-> TitlesIndex]
    ELSE IF k \in Pending THEN Planned(f[k - 1], Docs[k]) ELSE f[k - 1]

\* The recursion of Plan defines a function: for a least number of documents for which
\* there were none, the one for a document less could be extended.
LEMMA PlanExists == \E f : f = [k \in 0 .. Len(Docs) |-> PlanStep(f, k)]
<1> DEFINE Defined(n) == \E f : f = [k \in 0 .. n |-> PlanStep(f, k)]
           T == {n \in Nat : ~ Defined(n)}
<1>1. ASSUME NEW f, NEW g, NEW k \in Nat, k > 0 => f[k - 1] = g[k - 1]
      PROVE  PlanStep(f, k) = PlanStep(g, k)
  <2>1. k = 0 \/ f[k - 1] = g[k - 1]
    BY <1>1
  <2> QED BY <2>1 DEF PlanStep
<1> HIDE DEF PlanStep
<1>2. Defined(0)
  <2> DEFINE f == [k \in 0 .. 0 |-> PlanStep(<<>>, k)]
  <2>1. \A k \in 0 .. 0 : PlanStep(<<>>, k) = PlanStep(f, k)
    <3> HIDE DEF f
    <3> QED BY <1>1
  <2>2. f = [k \in 0 .. 0 |-> PlanStep(f, k)]
    BY <2>1
  <2> QED BY <2>2
<1>3. ASSUME NEW n \in Nat, Defined(n) PROVE Defined(n + 1)
  <2>1. PICK f : f = [k \in 0 .. n |-> PlanStep(f, k)]
    BY <1>3
  <2> DEFINE g == [k \in 0 .. n + 1 |-> IF k = n + 1 THEN PlanStep(f, k) ELSE f[k]]
  <2>2. \A k \in 0 .. n : f[k] = g[k]
    OBVIOUS
  <2>3. DOMAIN g = 0 .. n + 1 /\ g[n + 1] = PlanStep(f, n + 1)
    OBVIOUS
  <2>4. g = [k \in 0 .. n + 1 |-> g[k]]
    OBVIOUS
  <2> HIDE DEF g
  <2>5. ASSUME NEW k \in 0 .. n + 1 PROVE g[k] = PlanStep(g, k)
    <3>1. k > 0 => k - 1 \in 0 .. n
      OBVIOUS
    <3>2. k > 0 => f[k - 1] = g[k - 1]
      BY <2>2, <3>1
    <3>3. PlanStep(f, k) = PlanStep(g, k)
      BY <1>1, <3>2
    <3>4. CASE k = n + 1
      BY <2>3, <3>3, <3>4
    <3>5. CASE k \in 0 .. n
      <4>1. f[k] = PlanStep(f, k)
        BY <2>1, <3>5
      <4> QED BY <2>2, <3>3, <3>5, <4>1
    <3> QED BY <3>4, <3>5
  <2>6. g = [k \in 0 .. n + 1 |-> PlanStep(g, k)]
    BY <2>4, <2>5
  <2> QED BY <2>6
<1> HIDE DEF Defined
<1>4. T = {}
  <2> SUFFICES ASSUME T # {} PROVE FALSE
    OBVIOUS
  <2>1. PICK n \in T : \A m \in T : n <= m
    BY LeastNumber
  <2>2. n # 0 /\ n \in Nat /\ n - 1 \in Nat
    BY <1>2, <2>1
  <2>3. Defined(n - 1)
    BY <2>1, <2>2
  <2>4. Defined(n)
    BY <1>3, <2>2, <2>3
  <2> QED BY <2>1, <2>4
<1>5. Defined(Len(Docs))
  BY <1>4, Documents
<1> QED BY <1>5 DEF Defined

LEMMA PlanIsOK ==
    ASSUME rows \in Seq(Note)
    PROVE  PlanOK(Plan, Len(Docs))
<1>1. PICK f : /\ f = [k \in 0 .. Len(Docs) |-> PlanStep(f, k)]
               /\ Plan = f[Len(Docs)]
  <2>1. Plan = (CHOOSE f : f = [k \in 0 .. Len(Docs) |-> PlanStep(f, k)])[Len(Docs)]
    BY DEF Plan, PlanStep
  <2> QED BY <2>1, PlanExists
<1>2. Len(Docs) \in Nat /\ Pending \subseteq 1 .. Len(Docs)
  BY Documents DEF Pending
<1>3. \A k \in 0 .. Len(Docs) : f[k] = PlanStep(f, k)
  BY <1>1
<1> DEFINE T == {k \in 0 .. Len(Docs) : ~ PlanOK(f[k], k)}
<1>4. PlanOK(f[0], 0)
  <2>1. 0 \in 0 .. Len(Docs)
    BY <1>2
  <2>2. f[0] = [final |-> <<>>, titles |-> TitlesIndex]
    BY <1>3, <2>1 DEF PlanStep
  <2>3. {i \in Pending : i <= 0} = {}
    BY <1>2, \A i \in Pending : ~(i <= 0)
  <2>4. f[0].final = <<>> /\ f[0].titles = TitlesIndex
    BY <2>2
  <2>5. DOMAIN f[0].final = {Docs[j].id : j \in {i \in Pending : i <= 0}}
    BY <2>3, <2>4
  <2> QED BY <2>3, <2>4, <2>5, TitlesIndexOK DEF PlanOK
<1>5. ASSUME NEW k \in 1 .. Len(Docs), PlanOK(f[k - 1], k - 1)
      PROVE  PlanOK(f[k], k)
  <2>1. k \in 0 .. Len(Docs) /\ k # 0
    BY <1>2
  <2>2. CASE k \in Pending
    <3>1. f[k] = Planned(f[k - 1], Docs[k])
      BY <1>3, <2>1, <2>2 DEF PlanStep
    <3> QED BY <1>5, <2>2, <3>1, PlannedOK
  <2>3. CASE k \notin Pending
    <3>1. f[k] = f[k - 1]
      BY <1>3, <2>1, <2>3 DEF PlanStep
    <3>2. \A i \in Pending : i <= k <=> i <= k - 1
      BY <1>2, <2>3
    <3>3. {i \in Pending : i <= k} = {i \in Pending : i <= k - 1}
      BY <3>2
    <3> QED BY <1>5, <3>1, <3>2, <3>3 DEF PlanOK
  <2> QED BY <2>2, <2>3
<1> HIDE DEF PlanOK
<1>6. T = {}
  <2> SUFFICES ASSUME T # {} PROVE FALSE
    OBVIOUS
  <2>0. T \subseteq Nat
    BY <1>2
  <2>1. PICK n \in T : \A m \in T : n <= m
    <3> HIDE DEF T
    <3> QED BY <2>0, LeastNumber
  <2>2. n # 0 /\ n \in 1 .. Len(Docs) /\ n - 1 \in 0 .. Len(Docs)
    BY <1>2, <1>4, <2>1
  <2>3. PlanOK(f[n - 1], n - 1)
    BY <2>1, <2>2
  <2>4. PlanOK(f[n], n)
    BY <1>5, <2>2, <2>3
  <2> QED BY <2>1, <2>4
<1>7. Len(Docs) \in 0 .. Len(Docs)
  BY <1>2
<1> QED BY <1>1, <1>6, <1>7


-----------------------------------------------------------------------------
(* The invariant of a batch.                                               *)

Strategies == {"skip", "merge", "rename"}

\* The notes that a batch made and has not on record.
Unrecorded == {id \in DOMAIN rows \ recorded : rows[id].doc # User}

TypeInv ==
    /\ strategy \in Strategies /\ rows \in Seq(Note) /\ recorded \subseteq DOMAIN rows
    /\ runs \in Nat /\ crashes \in Nat

\* A run knows a title for every document that it still has to do, none of which the
\* batch has on record; a title leads to a live note, or to none yet; and the note that is
\* made and not recorded is the last one, of the document at hand.
RunInv ==
    \/ run = NoRun
    \/ /\ DOMAIN run = {"at", "left", "final", "titles", "failed"}
       /\ run.at \in {"doc", "created"} /\ run.left \subseteq DOMAIN Docs /\ runs # 0
       /\ \A k \in run.left : Docs[k].id \notin Materialized /\ Docs[k].id \in DOMAIN run.final
       /\ \A x \in DOMAIN run.final : run.final[x] \in Title
       /\ \A t \in DOMAIN run.titles :
              run.titles[t] # Reserved =>
                  run.titles[t] \in LiveNotes /\ rows[run.titles[t]].title = t
       /\ run.at = "created" =>
              /\ run.left # {} /\ Len(rows) > 0 /\ Len(rows) \notin recorded
              /\ rows[Len(rows)].doc = Document.id

\* What is recorded comes from as many documents; what is not, from crashes and the
\* document at hand; before the first run, every note is the user's.
RecordInv ==
    /\ \A id \in recorded : rows[id].doc # User
    /\ \A i, j \in recorded : rows[i].doc = rows[j].doc => i = j
    /\ Cardinality(Unrecorded) <= crashes + IF run.at = "created" THEN 1 ELSE 0
    /\ runs = 0 => recorded = {} /\ \A id \in DOMAIN rows : rows[id].doc = User /\ rows[id].body = User

BatchInv == TypeInv /\ RunInv /\ RecordInv

\* In the first run: every body that is written links to the title planned for its
\* target, which a live note has as soon as the target is done; with renaming only the
\* note of the target has it.
LinkInv ==
    runs = 1 /\ run # NoRun =>
        /\ DOMAIN run.final = {Docs[j].id : j \in DOMAIN Docs}
        /\ \A id \in DOMAIN rows, k, j \in DOMAIN Docs :
               rows[id].body = Docs[k].id /\ Docs[k].link = Docs[j].id =>
                   rows[id].link = run.final[Docs[j].id]
        /\ strategy # "rename" => \A j \in DOMAIN Docs : run.final[Docs[j].id] = Docs[j].title
        /\ strategy = "rename" => \A i, j \in DOMAIN Docs :
               run.final[Docs[i].id] = run.final[Docs[j].id] => i = j
        /\ strategy = "rename" => \A id \in LiveNotes, j \in DOMAIN Docs :
               rows[id].title = run.final[Docs[j].id] => rows[id].doc = Docs[j].id
        /\ ~run.failed => \A j \in DOMAIN Docs \ run.left :
               \E id \in LiveNotes : rows[id].title = run.final[Docs[j].id]
        /\ run.at = "created" =>
               Len(rows) \in LiveNotes /\ rows[Len(rows)].title = run.final[Document.id]


-----------------------------------------------------------------------------
(* The steps: what they leave of BatchInv.                                 *)

\* The least of what is left to do.
LEMMA CurrentIsLeft ==
    ASSUME run.left \subseteq DOMAIN Docs, run.left # {}
    PROVE  Current \in run.left
<1> DEFINE L == run.left
<1>1. L \subseteq Nat
  BY Documents
<1> HIDE DEF L
<1>2. PICK l \in L : \A m \in L : l <= m
  BY <1>1, LeastNumber DEF L
<1> QED BY <1>2 DEF Current, Min, L

\* What a step at a document relies on.
LEMMA AtDocument ==
    ASSUME TypeInv, RunInv, run.at = "doc", run.left # {}
    PROVE  /\ run # NoRun /\ Current \in run.left /\ Current \in DOMAIN Docs
           /\ Document.id \in STRING \ {User} /\ Document.title \in Title
           /\ Document.id \notin Materialized /\ run.final[Document.id] \in Title
           /\ LiveId(Document) # Reserved =>
                  LiveId(Document) \in LiveNotes /\ rows[LiveId(Document)].title = Document.title
           /\ LinkText(Document) \in Title
<1>1. run # NoRun
  BY DEF NoRun
<1>2. Current \in run.left /\ Current \in DOMAIN Docs
  BY <1>1, CurrentIsLeft DEF RunInv
<1>3. Document.id \in STRING \ {User} /\ Document.title \in Title
  BY <1>2, Documents DEF Document
<1>4. Document.id \notin Materialized /\ run.final[Document.id] \in Title
  BY <1>1, <1>2 DEF RunInv, Document
<1>5. LiveId(Document) # Reserved =>
          LiveId(Document) \in LiveNotes /\ rows[LiveId(Document)].title = Document.title
  BY <1>1 DEF RunInv, LiveId
<1>6. LinkText(Document) \in Title
  <2>1. PICK j \in DOMAIN Docs : Docs[j].id = Document.link
    BY <1>2, ImportAssumption DEF Document
  <2>2. Docs[CHOOSE i \in DOMAIN Docs : Docs[i].id = Document.link].title \in Title
    BY <2>1, Documents
  <2> QED BY <1>1, <2>2 DEF RunInv, LinkText
<1> QED BY <1>1, <1>2, <1>3, <1>4, <1>5, <1>6

\* The notes are finitely many.
LEMMA UnrecordedFinite ==
    ASSUME TypeInv
    PROVE  IsFiniteSet(Unrecorded) /\ Cardinality(Unrecorded) \in Nat
<1>1. IsFiniteSet(DOMAIN rows)
  <2>1. DOMAIN rows = 1 .. Len(rows) /\ Len(rows) \in Nat
    BY DEF TypeInv
  <2> QED BY <2>1, FS_Interval
<1>2. IsFiniteSet(Unrecorded)
  <2>1. Unrecorded \subseteq DOMAIN rows
    BY DEF Unrecorded
  <2> QED BY <1>1, <2>1, FS_Subset
<1> QED BY <1>2, FS_CardinalityType

LEMMA NoteOf ==
    \A t \in Title, d \in Owner, v \in BOOLEAN, b \in Owner, k \in Title \cup {NoLink} :
        LET n == [title |-> t, doc |-> d, live |-> v, body |-> b, link |-> k]
        IN n \in Note /\ n.title = t /\ n.doc = d /\ n.live = v /\ n.body = b /\ n.link = k
BY DEF Note

LEMMA StepUserCreates ==
    ASSUME BatchInv, NEW title \in UserTitle, UserCreates(title)
    PROVE  BatchInv'
<1> DEFINE note == [title |-> title, doc |-> User, live |-> TRUE, body |-> User, link |-> NoLink]
<1>1. note \in Note /\ note.doc = User /\ note.body = User
  <2>1. title \in Title
    BY ImportAssumption
  <2> QED BY <2>1, NoteOf DEF Owner
<1>2. /\ rows' = Append(rows, note) /\ run' = run /\ run = NoRun /\ recorded' = recorded
      /\ strategy' = strategy /\ runs' = runs /\ crashes' = crashes
  BY DEF UserCreates
<1>3. rows \in Seq(Note) /\ recorded \subseteq DOMAIN rows
  BY DEF BatchInv, TypeInv
<1> HIDE DEF note
<1>4. /\ rows' \in Seq(Note) /\ DOMAIN rows' = DOMAIN rows \cup {Len(rows) + 1}
      /\ \A id \in DOMAIN rows : rows'[id] = rows[id]
      /\ rows'[Len(rows) + 1] = note /\ Len(rows) + 1 \notin DOMAIN rows
  BY <1>1, <1>2, <1>3
<1>5. TypeInv'
  BY <1>2, <1>4 DEF BatchInv, TypeInv
<1>6. RunInv'
  BY <1>2 DEF RunInv
<1>7. RecordInv'
  <2>1. Unrecorded' = Unrecorded
    BY <1>1, <1>2, <1>3, <1>4 DEF Unrecorded
  <2> QED BY <1>1, <1>2, <1>3, <1>4, <2>1 DEF BatchInv, RecordInv
<1> QED BY <1>5, <1>6, <1>7 DEF BatchInv

\* A step that keeps what is on record, whose note each note is and how many there are.
LEMMA KeepsRecords ==
    ASSUME TypeInv, RecordInv,
           rows' \in Seq(Note), DOMAIN rows' = DOMAIN rows,
           \A id \in DOMAIN rows : rows'[id].doc = rows[id].doc,
           recorded' = recorded, crashes' = crashes,
           run.at # "created" \/ run'.at = "created",
           runs' # 0 \/ \A id \in DOMAIN rows : rows'[id].body = rows[id].body /\ runs' = runs
    PROVE  RecordInv' /\ Unrecorded' = Unrecorded
<1>1. recorded \subseteq DOMAIN rows
  BY DEF TypeInv
<1>2. Unrecorded' = Unrecorded
  BY DEF Unrecorded
<1>3. Cardinality(Unrecorded) \in Nat
  BY UnrecordedFinite
<1>4. Cardinality(Unrecorded') <= crashes' + IF run'.at = "created" THEN 1 ELSE 0
  BY <1>2, <1>3 DEF RecordInv, TypeInv
<1> QED BY <1>1, <1>2, <1>4 DEF RecordInv

LEMMA StepUserTrashes ==
    ASSUME BatchInv, NEW id \in DOMAIN rows, UserTrashes(id)
    PROVE  BatchInv'
<1>1. /\ rows' = [rows EXCEPT ![id].live = FALSE] /\ run' = run /\ run = NoRun
      /\ recorded' = recorded /\ strategy' = strategy /\ runs' = runs /\ crashes' = crashes
  BY DEF UserTrashes
<1>2. rows \in Seq(Note) /\ rows[id] \in Note
  BY DEF BatchInv, TypeInv
<1>3. /\ rows' \in Seq(Note) /\ DOMAIN rows' = DOMAIN rows
      /\ \A i \in DOMAIN rows : rows'[i].doc = rows[i].doc /\ rows'[i].body = rows[i].body
  <2>1. DOMAIN rows' = DOMAIN rows /\ \A i \in DOMAIN rows : i # id => rows'[i] = rows[i]
    BY <1>1
  <2>2. rows'[id] = [rows[id] EXCEPT !.live = FALSE]
    BY <1>1
  <2>3. rows'[id] \in Note /\ rows'[id].doc = rows[id].doc /\ rows'[id].body = rows[id].body
    BY <1>2, <2>2 DEF Note
  <2>4. rows' \in Seq(Note)
    BY <1>1, <1>2, <2>2, <2>3
  <2> QED BY <2>1, <2>3, <2>4
<1>4. TypeInv' /\ RunInv'
  BY <1>1, <1>3 DEF BatchInv, TypeInv, RunInv
<1>5. RecordInv'
  BY <1>1, <1>3, KeepsRecords DEF BatchInv, NoRun
<1> QED BY <1>4, <1>5 DEF BatchInv

LEMMA StepStartRun ==
    ASSUME BatchInv, StartRun
    PROVE  BatchInv'
<1>1. /\ runs' = runs + 1 /\ strategy' = strategy /\ rows' = rows /\ recorded' = recorded
      /\ crashes' = crashes /\ run = NoRun
      /\ run' = [at |-> "doc", left |-> Pending, final |-> Plan.final,
                 titles |-> Plan.titles, failed |-> FALSE]
  BY DEF StartRun
<1>2. TypeInv /\ rows \in Seq(Note)
  BY DEF BatchInv, TypeInv
<1>3. TypeInv' /\ runs' # 0
  BY <1>1, <1>2 DEF TypeInv
<1>4. PICK p : p = Plan
  OBVIOUS
<1>5. PlanOK(p, Len(Docs))
  BY <1>2, <1>4, PlanIsOK
<1>6. /\ run' = [at |-> "doc", left |-> Pending, final |-> p.final,
                 titles |-> p.titles, failed |-> FALSE]
      /\ Materialized' = Materialized /\ LiveNotes' = LiveNotes
  BY <1>1, <1>4 DEF Materialized, LiveNotes
<1>7. \A k \in Pending : k \in DOMAIN Docs /\ k <= Len(Docs) /\ Docs[k].id \notin Materialized
  BY Documents DEF Pending
<1>8. \A k \in Pending : Docs[k].id \in DOMAIN p.final
  BY <1>5, <1>7 DEF PlanOK
<1>9. \A x \in DOMAIN p.final : p.final[x] \in Title
  BY <1>5, <1>7 DEF PlanOK
<1>10. \A t \in DOMAIN p.titles :
          p.titles[t] # Reserved => p.titles[t] \in LiveNotes /\ rows[p.titles[t]].title = t
  BY <1>2, <1>5, TitlesIndexOK DEF PlanOK
<1>11. RunInv'
  BY <1>1, <1>3, <1>6, <1>7, <1>8, <1>9, <1>10 DEF RunInv
<1>12. RecordInv'
  BY <1>1, <1>2, <1>3, KeepsRecords DEF BatchInv, NoRun
<1> QED BY <1>3, <1>11, <1>12 DEF BatchInv


\* A step that is done with the document at hand and makes no note.
LEMMA LeavesDocument ==
    ASSUME BatchInv, run.at = "doc", run.left # {},
           DOMAIN run' = DOMAIN run, run'.left = run.left \ {Current}, run'.at = run.at,
           run'.final = run.final, run'.titles = run.titles,
           rows' \in Seq(Note), DOMAIN rows' = DOMAIN rows,
           \A id \in DOMAIN rows : /\ rows'[id].doc = rows[id].doc /\ rows'[id].live = rows[id].live
                                   /\ rows'[id].title = rows[id].title,
           recorded' = recorded, strategy' = strategy, runs' = runs, crashes' = crashes
    PROVE  BatchInv'
<1>1. /\ TypeInv /\ recorded \subseteq DOMAIN rows /\ run # NoRun /\ runs # 0
  BY DEF BatchInv, TypeInv, RunInv, NoRun
<1>2. TypeInv'
  BY <1>1 DEF TypeInv
<1>3. LiveNotes' = LiveNotes /\ LiveNotes \subseteq DOMAIN rows
  BY DEF LiveNotes
<1>4. Materialized' = Materialized
  BY <1>1 DEF Materialized
<1>5. RunInv'
  BY <1>1, <1>3, <1>4 DEF BatchInv, RunInv
<1>6. RecordInv'
  BY <1>1, KeepsRecords DEF BatchInv
<1> QED BY <1>2, <1>5, <1>6 DEF BatchInv

LEMMA StepSkip ==
    ASSUME BatchInv, Skip
    PROVE  BatchInv'
<1>1. run.at = "doc" /\ run.left # {} /\ run' = [run EXCEPT !.left = @ \ {Current}]
      /\ rows' = rows /\ recorded' = recorded /\ strategy' = strategy /\ runs' = runs
      /\ crashes' = crashes
  BY DEF Skip
<1>2. rows \in Seq(Note) /\ "left" \in DOMAIN run
  BY <1>1 DEF BatchInv, TypeInv, RunInv, NoRun
<1>3. DOMAIN run' = DOMAIN run /\ run'.left = run.left \ {Current} /\ run'.at = run.at
      /\ run'.final = run.final /\ run'.titles = run.titles
  BY <1>1, <1>2
<1> QED BY <1>1, <1>2, <1>3, LeavesDocument

LEMMA StepReadFails ==
    ASSUME BatchInv, ReadFails
    PROVE  BatchInv'
<1>1. run.at = "doc" /\ run.left # {} /\ run' = [run EXCEPT !.left = @ \ {Current}, !.failed = TRUE]
      /\ rows' = rows /\ recorded' = recorded /\ strategy' = strategy /\ runs' = runs
      /\ crashes' = crashes
  BY DEF ReadFails, Materializes
<1>2. rows \in Seq(Note) /\ {"left", "failed"} \subseteq DOMAIN run
  BY <1>1 DEF BatchInv, TypeInv, RunInv, NoRun
<1>3. DOMAIN run' = DOMAIN run /\ run'.left = run.left \ {Current} /\ run'.at = run.at
      /\ run'.final = run.final /\ run'.titles = run.titles
  BY <1>1, <1>2
<1> QED BY <1>1, <1>2, <1>3, LeavesDocument

\* What a merge does to the notes.
LEMMA Merged ==
    ASSUME BatchInv, Merge
    PROVE  /\ run.at = "doc" /\ run.left # {} /\ strategy = "merge"
           /\ LiveId(Document) \in LiveNotes /\ rows[LiveId(Document)].title = Document.title
           /\ rows' \in Seq(Note) /\ DOMAIN rows' = DOMAIN rows
           /\ \A id \in DOMAIN rows :
                  /\ rows'[id].doc = rows[id].doc /\ rows'[id].live = rows[id].live
                  /\ rows'[id].title = rows[id].title
                  /\ id # LiveId(Document) => rows'[id] = rows[id]
           /\ rows'[LiveId(Document)].body = Document.id
           /\ rows'[LiveId(Document)].link = LinkText(Document)
<1>1. PICK id, b, t : id = LiveId(Document) /\ b = Document.id /\ t = LinkText(Document)
  OBVIOUS
<1>2. /\ run.at = "doc" /\ run.left # {} /\ id # Reserved /\ strategy = "merge"
      /\ rows' = [rows EXCEPT ![id].body = b, ![id].link = t]
  BY <1>1 DEF Merge, Materializes
<1>3. /\ id \in LiveNotes /\ rows[id].title = Document.title /\ b \in Owner
      /\ t \in Title \cup {NoLink}
  BY <1>1, <1>2, AtDocument DEF BatchInv, Owner
<1>4. rows \in Seq(Note) /\ id \in DOMAIN rows /\ rows[id] \in Note
  BY <1>3 DEF BatchInv, TypeInv, LiveNotes
<1>5. PICK n : n = [[rows[id] EXCEPT !.body = b] EXCEPT !.link = t]
  OBVIOUS
<1>6. n \in Note /\ n.doc = rows[id].doc /\ n.live = rows[id].live /\ n.title = rows[id].title
      /\ n.body = b /\ n.link = t
  BY <1>3, <1>4, <1>5 DEF Note
<1>7. rows' = [rows EXCEPT ![id] = n]
  BY <1>2, <1>4, <1>5
<1>8. /\ rows' \in Seq(Note) /\ DOMAIN rows' = DOMAIN rows /\ rows'[id] = n
      /\ \A i \in DOMAIN rows : i # id => rows'[i] = rows[i]
  BY <1>4, <1>6, <1>7
<1> QED BY <1>1, <1>2, <1>3, <1>4, <1>6, <1>8

LEMMA StepMerge ==
    ASSUME BatchInv, Merge
    PROVE  BatchInv'
<1>1. run' = [run EXCEPT !.left = @ \ {Current}] /\ recorded' = recorded
      /\ strategy' = strategy /\ runs' = runs /\ crashes' = crashes
  BY DEF Merge, RecordedBy
<1>2. run.at = "doc" /\ "left" \in DOMAIN run
  BY Merged DEF BatchInv, RunInv, NoRun
<1>3. DOMAIN run' = DOMAIN run /\ run'.left = run.left \ {Current} /\ run'.at = run.at
      /\ run'.final = run.final /\ run'.titles = run.titles
  BY <1>1, <1>2
<1> QED BY <1>1, <1>3, Merged, LeavesDocument

\* What making a note does to the notes.
LEMMA Created ==
    ASSUME BatchInv, CreateNote
    PROVE  LET note == [title |-> run.final[Document.id], doc |-> Document.id, live |-> TRUE,
                        body |-> Document.id, link |-> LinkText(Document)]
           IN /\ run.at = "doc" /\ run.left # {}
              /\ rows' \in Seq(Note) /\ DOMAIN rows' = DOMAIN rows \cup {Len(rows) + 1}
              /\ Len(rows') = Len(rows) + 1 /\ Len(rows) \in Nat
              /\ Len(rows) + 1 \notin DOMAIN rows
              /\ \A id \in DOMAIN rows : rows'[id] = rows[id]
              /\ rows'[Len(rows) + 1] = note
<1> DEFINE note == [title |-> run.final[Document.id], doc |-> Document.id, live |-> TRUE,
                    body |-> Document.id, link |-> LinkText(Document)]
<1>1. run.at = "doc" /\ run.left # {} /\ rows' = Append(rows, note)
  BY DEF CreateNote, Materializes
<1>2. rows \in Seq(Note)
  BY DEF BatchInv, TypeInv
<1>3. note \in Note
  BY <1>1, AtDocument, NoteOf DEF BatchInv, Owner
<1> HIDE DEF note
<1>4. /\ rows' \in Seq(Note) /\ DOMAIN rows' = DOMAIN rows \cup {Len(rows) + 1}
      /\ Len(rows') = Len(rows) + 1 /\ Len(rows) \in Nat
      /\ Len(rows) + 1 \notin DOMAIN rows
      /\ \A id \in DOMAIN rows : rows'[id] = rows[id]
      /\ rows'[Len(rows) + 1] = note
  BY <1>1, <1>2, <1>3
<1> QED BY <1>1, <1>4 DEF note

LEMMA StepCreateNote ==
    ASSUME BatchInv, CreateNote
    PROVE  BatchInv'
<1>1. PICK n, d, title : n = Len(rows) + 1 /\ d = Document.id /\ title = run.final[Document.id]
  OBVIOUS
<1>2. run' = [run EXCEPT !.at = "created", !.titles = Put(@, title, n)] /\ recorded' = recorded
      /\ strategy' = strategy /\ runs' = runs /\ crashes' = crashes
  BY <1>1 DEF CreateNote
<1>3. /\ run.at = "doc" /\ run.left # {} /\ rows' \in Seq(Note)
      /\ DOMAIN rows' = DOMAIN rows \cup {n} /\ Len(rows') = n /\ n \in Nat /\ n > 0
      /\ n \notin DOMAIN rows /\ \A id \in DOMAIN rows : rows'[id] = rows[id]
      /\ rows'[n].title = title /\ rows'[n].doc = d /\ rows'[n].live = TRUE
  BY <1>1, Created
<1>4. /\ TypeInv /\ recorded \subseteq DOMAIN rows /\ run # NoRun /\ runs # 0
      /\ DOMAIN run = {"at", "left", "final", "titles", "failed"}
  BY <1>3 DEF BatchInv, TypeInv, RunInv, NoRun
<1>5. /\ DOMAIN run' = DOMAIN run /\ run'.left = run.left /\ run'.at = "created"
      /\ run'.final = run.final /\ run'.titles = Put(run.titles, title, n)
  BY <1>2, <1>4
<1>6. TypeInv'
  BY <1>2, <1>3, <1>4 DEF TypeInv
<1>7. LiveNotes' = LiveNotes \cup {n} /\ LiveNotes \subseteq DOMAIN rows
  BY <1>3 DEF LiveNotes
<1>8. Materialized' = Materialized
  BY <1>2, <1>3, <1>4 DEF Materialized
<1>9. \A t \in DOMAIN run'.titles :
          run'.titles[t] # Reserved =>
              run'.titles[t] \in LiveNotes' /\ rows'[run'.titles[t]].title = t
  BY <1>3, <1>4, <1>5, <1>7 DEF Put, BatchInv, RunInv
<1>10. Document' = Document
  BY <1>5 DEF Document, Current
<1>11. RunInv'
  BY <1>1, <1>2, <1>3, <1>4, <1>5, <1>8, <1>9, <1>10 DEF BatchInv, RunInv
<1>12. d # User
  BY <1>1, <1>3, AtDocument DEF BatchInv
<1>13. Unrecorded' = Unrecorded \cup {n} /\ n \notin Unrecorded
  BY <1>2, <1>3, <1>4, <1>12 DEF Unrecorded
<1>14. Cardinality(Unrecorded') = Cardinality(Unrecorded) + 1
  BY <1>4, <1>13, UnrecordedFinite, FS_AddElement
<1>15. Cardinality(Unrecorded') <= crashes' + IF run'.at = "created" THEN 1 ELSE 0
  <2>1. Cardinality(Unrecorded) <= crashes /\ crashes \in Nat
    BY <1>3, <1>4, UnrecordedFinite DEF BatchInv, RecordInv, TypeInv
  <2> QED BY <1>2, <1>4, <1>5, <1>14, <2>1, UnrecordedFinite
<1>16. RecordInv'
  BY <1>2, <1>3, <1>4, <1>15 DEF BatchInv, RecordInv
<1> QED BY <1>6, <1>11, <1>16 DEF BatchInv

LEMMA StepAddArtifact ==
    ASSUME BatchInv, AddArtifact
    PROVE  BatchInv'
<1>1. PICK n, c : n = Len(rows) /\ c = Current
  OBVIOUS
<1>2. run.at = "created" /\ recorded' = recorded \cup {n} /\ rows' = rows
      /\ run' = [run EXCEPT !.at = "doc", !.left = @ \ {c}]
      /\ strategy' = strategy /\ runs' = runs /\ crashes' = crashes
  BY <1>1 DEF AddArtifact
<1>3. /\ TypeInv /\ recorded \subseteq DOMAIN rows /\ run # NoRun /\ runs # 0
      /\ DOMAIN run = {"at", "left", "final", "titles", "failed"}
      /\ run.left # {} /\ run.left \subseteq DOMAIN Docs
      /\ n > 0 /\ n \notin recorded /\ rows[n].doc = Docs[c].id
  BY <1>1, <1>2 DEF BatchInv, TypeInv, RunInv, NoRun, Document
<1>4. n \in DOMAIN rows
  BY <1>1, <1>3 DEF TypeInv
<1>5. c \in run.left
  BY <1>1, <1>3, CurrentIsLeft
<1>6. Docs[c].id \notin Materialized /\ Docs[c].id # User
  BY <1>3, <1>5, Documents DEF BatchInv, RunInv
<1>7. /\ DOMAIN run' = DOMAIN run /\ run'.left = run.left \ {c} /\ run'.at = "doc"
      /\ run'.final = run.final /\ run'.titles = run.titles
  BY <1>2, <1>3
<1>8. TypeInv'
  BY <1>2, <1>3, <1>4 DEF TypeInv
<1>9. Materialized' = Materialized \cup {Docs[c].id} /\ LiveNotes' = LiveNotes
  BY <1>2, <1>3 DEF Materialized, LiveNotes
<1>10. \A k \in run'.left : Docs[k].id \notin Materialized'
  BY <1>3, <1>5, <1>7, <1>9, ImportAssumption DEF BatchInv, RunInv
<1>11. RunInv'
  BY <1>2, <1>3, <1>7, <1>9, <1>10 DEF BatchInv, RunInv
<1>12. Unrecorded' = Unrecorded \ {n} /\ n \in Unrecorded
  BY <1>2, <1>3, <1>4, <1>6 DEF Unrecorded
<1>13. Cardinality(Unrecorded') = Cardinality(Unrecorded) - 1
  BY <1>3, <1>12, UnrecordedFinite, FS_RemoveElement
<1>14. Cardinality(Unrecorded') <= crashes'
  <2>1. Cardinality(Unrecorded) <= crashes + 1 /\ crashes \in Nat
    BY <1>2, <1>3, UnrecordedFinite DEF BatchInv, RecordInv, TypeInv
  <2> QED BY <1>2, <1>3, <1>13, <2>1, UnrecordedFinite
<1>15. \A i, j \in recorded' : rows'[i].doc = rows'[j].doc => i = j
  BY <1>2, <1>3, <1>6 DEF BatchInv, RecordInv, Materialized
<1>16. RecordInv'
  BY <1>2, <1>3, <1>6, <1>7, <1>8, <1>14, <1>15 DEF BatchInv, RecordInv, TypeInv
<1> QED BY <1>8, <1>11, <1>16 DEF BatchInv

LEMMA StepEndRun ==
    ASSUME BatchInv, EndRun
    PROVE  BatchInv'
<1>1. run.at = "doc" /\ run' = NoRun /\ rows' = rows /\ recorded' = recorded
      /\ strategy' = strategy /\ runs' = runs /\ crashes' = crashes
  BY DEF EndRun
<1>2. TypeInv' /\ RunInv' /\ rows \in Seq(Note)
  BY <1>1 DEF BatchInv, TypeInv, RunInv
<1>3. RecordInv'
  BY <1>1, <1>2, KeepsRecords DEF BatchInv
<1> QED BY <1>2, <1>3 DEF BatchInv

LEMMA StepCrashRun ==
    ASSUME BatchInv, CrashRun
    PROVE  BatchInv'
<1>1. run' = NoRun /\ rows' = rows /\ recorded' = recorded /\ crashes' = crashes + 1
      /\ strategy' = strategy /\ runs' = runs
  BY DEF CrashRun
<1>2. TypeInv' /\ RunInv' /\ TypeInv /\ crashes \in Nat
  BY <1>1 DEF BatchInv, TypeInv, RunInv
<1>3. Cardinality(Unrecorded') <= crashes' + IF run'.at = "created" THEN 1 ELSE 0
  <2>1. Unrecorded' = Unrecorded /\ run'.at # "created"
    BY <1>1 DEF Unrecorded, NoRun
  <2>2. Cardinality(Unrecorded) <= crashes + 1
    BY <1>2, UnrecordedFinite DEF BatchInv, RecordInv
  <2> QED BY <1>1, <2>1, <2>2
<1>4. RecordInv'
  BY <1>1, <1>3 DEF BatchInv, RecordInv
<1> QED BY <1>2, <1>4 DEF BatchInv

LEMMA StepRollback ==
    ASSUME BatchInv, Rollback
    PROVE  BatchInv'
<1>1. run = NoRun /\ run' = run /\ recorded' = recorded /\ crashes' = crashes
      /\ strategy' = strategy /\ runs' = runs
      /\ rows' = [id \in DOMAIN rows |-> IF id \in recorded THEN [rows[id] EXCEPT !.live = FALSE]
                                         ELSE rows[id]]
  BY DEF Rollback
<1>2. rows \in Seq(Note) /\ DOMAIN rows = 1 .. Len(rows) /\ Len(rows) \in Nat
  BY DEF BatchInv, TypeInv
<1>3. ASSUME NEW id \in DOMAIN rows
      PROVE  /\ rows'[id] \in Note /\ rows'[id].doc = rows[id].doc
             /\ rows'[id].body = rows[id].body
  <2>1. rows[id] \in Note
    BY <1>2
  <2>2. rows'[id] = rows[id] \/ rows'[id] = [rows[id] EXCEPT !.live = FALSE]
    BY <1>1
  <2> QED BY <2>1, <2>2 DEF Note
<1>4. DOMAIN rows' = DOMAIN rows
  BY <1>1
<1>5. rows' \in Seq(Note)
  <2>1. rows' \in [1 .. Len(rows) -> Note]
    BY <1>1, <1>2, <1>3
  <2> QED BY <1>2, <2>1
<1>6. TypeInv' /\ RunInv'
  BY <1>1, <1>4, <1>5 DEF BatchInv, TypeInv, RunInv
<1>7. RecordInv'
  BY <1>1, <1>3, <1>4, <1>5, KeepsRecords DEF BatchInv, NoRun
<1> QED BY <1>6, <1>7 DEF BatchInv


LEMMA BatchInvInit == ImportInit => BatchInv
<1> SUFFICES ASSUME ImportInit PROVE BatchInv
  OBVIOUS
<1>1. rows = <<>> /\ recorded = {} /\ run = NoRun /\ runs = 0 /\ crashes = 0
      /\ strategy \in Strategies
  BY DEF ImportInit, Strategies
<1>2. rows \in Seq(Note) /\ DOMAIN rows = {}
  BY <1>1
<1>3. Unrecorded = {}
  BY <1>2 DEF Unrecorded
<1>4. Cardinality(Unrecorded) = 0
  BY <1>3, FS_EmptySet
<1>5. TypeInv
  BY <1>1, <1>2 DEF TypeInv
<1>6. RecordInv
  BY <1>1, <1>2, <1>4 DEF RecordInv, NoRun
<1> QED BY <1>1, <1>5, <1>6 DEF BatchInv, RunInv

LEMMA BatchInvStep == BatchInv /\ [ImportNext]_importVars => BatchInv'
<1> SUFFICES ASSUME BatchInv, [ImportNext]_importVars PROVE BatchInv'
  OBVIOUS
<1>1. CASE UNCHANGED importVars
  <2>1. Unrecorded' = Unrecorded /\ Materialized' = Materialized /\ LiveNotes' = LiveNotes
    BY <1>1 DEF importVars, Unrecorded, Materialized, LiveNotes
  <2>2. Document' = Document
    BY <1>1 DEF importVars, Document, Current
  <2> QED BY <1>1, <2>1, <2>2 DEF importVars, BatchInv, TypeInv, RunInv, RecordInv
<1>2. CASE \E title \in UserTitle : UserCreates(title)
  BY <1>2, StepUserCreates
<1>3. CASE \E id \in DOMAIN rows : UserTrashes(id)
  BY <1>3, StepUserTrashes
<1> QED BY <1>1, <1>2, <1>3, StepStartRun, StepSkip, StepReadFails, StepMerge, StepCreateNote,
           StepAddArtifact, StepEndRun, StepCrashRun, StepRollback DEF ImportNext

THEOREM BatchInvariant == ImportSpec => []BatchInv
<1> QED BY BatchInvInit, BatchInvStep, PTL DEF ImportSpec

-----------------------------------------------------------------------------
(* What a batch records.                                                   *)

\* However often a batch is resumed, it materializes a document once, but for what a
\* crash kept it from recording (F1405).
THEOREM OncePerDocumentHolds == ImportSpec => []OncePerDocument
<1>1. BatchInv => OncePerDocument
  <2>1. BatchInv => run.at \in {"idle", "doc", "created"}
    BY DEF BatchInv, RunInv, NoRun
  <2> QED BY <2>1 DEF BatchInv, TypeInv, RecordInv, OncePerDocument, Unrecorded
<1> QED BY <1>1, BatchInvariant, PTL

\* Rolling a batch back takes no note of the user, and leaves of its own no more than one
\* for each crash.
THEOREM RollbackTakesItsOwnHolds == ImportSpec => RollbackTakesItsOwn
<1>1. ASSUME BatchInv, Rollback
      PROVE  /\ \A id \in LiveNotes : rows[id].doc = User => rows'[id].live
             /\ Cardinality({id \in DOMAIN rows' : rows'[id].live /\ rows'[id].doc # User}) <= crashes
  <2>1. /\ run = NoRun /\ TypeInv /\ RecordInv /\ rows \in Seq(Note)
        /\ rows' = [id \in DOMAIN rows |-> IF id \in recorded THEN [rows[id] EXCEPT !.live = FALSE]
                                           ELSE rows[id]]
    BY <1>1 DEF Rollback, BatchInv, TypeInv
  <2>2. ASSUME NEW id \in LiveNotes, rows[id].doc = User
        PROVE  rows'[id].live
    <3>1. id \in DOMAIN rows /\ id \notin recorded /\ rows[id].live
      BY <2>1, <2>2 DEF LiveNotes, RecordInv
    <3> QED BY <2>1, <3>1
  <2> DEFINE L == {id \in DOMAIN rows' : rows'[id].live /\ rows'[id].doc # User}
  <2>3. L \subseteq Unrecorded
    <3>1. ASSUME NEW id \in DOMAIN rows, id \in recorded
          PROVE  ~ rows'[id].live
      <4>1. rows'[id] = [rows[id] EXCEPT !.live = FALSE] /\ rows[id] \in Note
        BY <2>1, <3>1
      <4> QED BY <4>1 DEF Note
    <3> QED BY <2>1, <3>1 DEF Unrecorded
  <2> HIDE DEF L
  <2>4. Cardinality(L) <= Cardinality(Unrecorded) /\ Cardinality(L) \in Nat
    BY <2>1, <2>3, UnrecordedFinite, FS_Subset, FS_CardinalityType
  <2>5. Cardinality(Unrecorded) <= crashes /\ crashes \in Nat
    BY <2>1, UnrecordedFinite DEF RecordInv, NoRun, TypeInv
  <2>6. Cardinality(L) <= crashes
    BY <2>1, <2>4, <2>5, UnrecordedFinite
  <2> QED BY <2>2, <2>6 DEF L
<1>2. BatchInv /\ [ImportNext]_importVars =>
          [Rollback =>
             /\ \A id \in LiveNotes : rows[id].doc = User => rows'[id].live
             /\ Cardinality({id \in DOMAIN rows' : rows'[id].live /\ rows'[id].doc # User})
                    <= crashes]_importVars
  BY <1>1
<1> QED BY <1>2, BatchInvariant, PTL DEF ImportSpec, RollbackTakesItsOwn


-----------------------------------------------------------------------------
(* Links, in the first run of a batch.                                     *)

LEMMA LinkStartRun ==
    ASSUME BatchInv, StartRun
    PROVE  LinkInv'
<1> SUFFICES ASSUME runs' = 1 PROVE LinkInv'
  BY DEF LinkInv
<1>1. PICK p : p = Plan
  OBVIOUS
<1>2. /\ runs' = runs + 1 /\ strategy' = strategy /\ rows' = rows /\ recorded' = recorded
      /\ run' = [at |-> "doc", left |-> Pending, final |-> p.final,
                 titles |-> p.titles, failed |-> FALSE]
  BY <1>1 DEF StartRun
<1>3. rows \in Seq(Note) /\ runs \in Nat /\ strategy \in Strategies
  BY DEF BatchInv, TypeInv
<1>4. runs = 0 /\ recorded = {} /\ \A id \in DOMAIN rows : rows[id].body = User
  BY <1>2, <1>3 DEF BatchInv, RecordInv
<1>5. Pending = DOMAIN Docs
  BY <1>4 DEF Pending, Materialized
<1>6. PlanOK(p, Len(Docs))
  BY <1>1, <1>3, PlanIsOK
<1>7. \A j \in DOMAIN Docs : j <= Len(Docs)
  BY Documents
<1>8. DOMAIN p.final = {Docs[j].id : j \in DOMAIN Docs}
  <2>1. {i \in DOMAIN Docs : i <= Len(Docs)} = DOMAIN Docs
    BY <1>7
  <2> QED BY <1>5, <1>6, <2>1 DEF PlanOK
<1>9. \A id \in DOMAIN rows, k \in DOMAIN Docs : rows[id].body # Docs[k].id
  BY <1>4, Documents
<1>10. strategy # "rename" => \A j \in DOMAIN Docs : p.final[Docs[j].id] = Docs[j].title
  BY <1>5, <1>6, <1>7 DEF PlanOK
<1>11. strategy = "rename" =>
          /\ \A j \in DOMAIN Docs : p.final[Docs[j].id] \notin DOMAIN TitlesIndex
          /\ \A i, j \in DOMAIN Docs : p.final[Docs[i].id] = p.final[Docs[j].id] => i = j
  BY <1>5, <1>6, <1>7 DEF PlanOK
<1>12. \A id \in LiveNotes : rows[id].title \in DOMAIN TitlesIndex
  BY <1>3, TitlesIndexOK
<1>13. LiveNotes' = LiveNotes
  BY <1>2 DEF LiveNotes
<1>14. /\ run'.at = "doc" /\ run'.left = DOMAIN Docs /\ run'.final = p.final
  BY <1>2, <1>5
<1> QED BY <1>2, <1>8, <1>9, <1>10, <1>11, <1>12, <1>13, <1>14 DEF LinkInv

\* A step that is done with the document at hand and leaves the notes as they are.
LEMMA LinkLeaves ==
    ASSUME BatchInv, LinkInv, run.at = "doc", run.left # {}, rows' = rows,
           strategy' = strategy, runs' = runs, run'.at = run.at, run'.final = run.final,
           run'.left = run.left \ {Current},
           \/ run'.failed
           \/ /\ run'.failed = run.failed
              /\ \E id \in LiveNotes : rows[id].title = run.final[Document.id]
    PROVE  LinkInv'
<1> SUFFICES ASSUME runs = 1 PROVE LinkInv'
  BY DEF LinkInv
<1>1. run # NoRun /\ LiveNotes' = LiveNotes
  BY DEF NoRun, LiveNotes
<1>2. ~ run'.failed =>
          \A j \in DOMAIN Docs \ run'.left :
              \E id \in LiveNotes : rows[id].title = run.final[Docs[j].id]
  BY <1>1 DEF LinkInv, Document
<1> QED BY <1>1, <1>2 DEF LinkInv

LEMMA LinkSkip ==
    ASSUME BatchInv, LinkInv, Skip
    PROVE  LinkInv'
<1> SUFFICES ASSUME runs' = 1 PROVE LinkInv'
  BY DEF LinkInv
<1>1. run.at = "doc" /\ run.left # {} /\ run' = [run EXCEPT !.left = @ \ {Current}]
      /\ rows' = rows /\ strategy' = strategy /\ runs' = runs
      /\ strategy = "skip" /\ LiveId(Document) # Reserved
  BY DEF Skip
<1>2. "left" \in DOMAIN run /\ run # NoRun
  BY <1>1 DEF BatchInv, RunInv, NoRun
<1>3. run'.left = run.left \ {Current} /\ run'.at = run.at
      /\ run'.final = run.final /\ run'.failed = run.failed
  BY <1>1, <1>2
<1>4. Current \in DOMAIN Docs /\ LiveId(Document) \in LiveNotes
      /\ rows[LiveId(Document)].title = Document.title
  BY <1>1, AtDocument DEF BatchInv
<1>5. run.final[Document.id] = Document.title
  BY <1>1, <1>2, <1>4 DEF LinkInv, Document
<1> QED BY <1>1, <1>3, <1>4, <1>5, LinkLeaves

LEMMA LinkReadFails ==
    ASSUME BatchInv, LinkInv, ReadFails
    PROVE  LinkInv'
<1>1. run.at = "doc" /\ run.left # {} /\ run' = [run EXCEPT !.left = @ \ {Current}, !.failed = TRUE]
      /\ rows' = rows /\ strategy' = strategy /\ runs' = runs
  BY DEF ReadFails, Materializes
<1>2. {"left", "failed"} \subseteq DOMAIN run
  BY <1>1 DEF BatchInv, RunInv, NoRun
<1>3. run'.left = run.left \ {Current} /\ run'.at = run.at
      /\ run'.final = run.final /\ run'.failed = TRUE
  BY <1>1, <1>2
<1> QED BY <1>1, <1>3, LinkLeaves

\* The text of the link of the document at hand.
LEMMA LinkTextIs ==
    ASSUME BatchInv, LinkInv, runs = 1, run.at = "doc", run.left # {},
           NEW k \in DOMAIN Docs, NEW j \in DOMAIN Docs,
           Document.id = Docs[k].id, Docs[k].link = Docs[j].id
    PROVE  LinkText(Document) = run.final[Docs[j].id]
<1>1. run # NoRun /\ Current \in DOMAIN Docs
  BY AtDocument DEF BatchInv
<1>2. Document.link = Docs[j].id
  BY <1>1, ImportAssumption DEF Document
<1>3. Docs[j].id \in DOMAIN run.final
  BY <1>1 DEF LinkInv
<1> QED BY <1>2, <1>3 DEF LinkText

LEMMA LinkMerge ==
    ASSUME BatchInv, LinkInv, Merge
    PROVE  LinkInv'
<1> SUFFICES ASSUME runs' = 1 PROVE LinkInv'
  BY DEF LinkInv
<1>1. run' = [run EXCEPT !.left = @ \ {Current}] /\ strategy' = strategy /\ runs' = runs
  BY DEF Merge
<1>2. "left" \in DOMAIN run /\ run # NoRun /\ run.at = "doc" /\ run.left # {}
      /\ strategy = "merge"
  BY Merged DEF BatchInv, RunInv, NoRun
<1>3. run'.left = run.left \ {Current} /\ run'.at = run.at
      /\ run'.final = run.final /\ run'.failed = run.failed
  BY <1>1, <1>2
<1>4. PICK m : m = LiveId(Document)
  OBVIOUS
<1>5. /\ m \in LiveNotes /\ rows[m].title = Document.title /\ DOMAIN rows' = DOMAIN rows
      /\ \A id \in DOMAIN rows : /\ rows'[id].live = rows[id].live
                                 /\ rows'[id].title = rows[id].title
                                 /\ id # m => rows'[id] = rows[id]
      /\ rows'[m].body = Document.id /\ rows'[m].link = LinkText(Document)
  BY <1>4, Merged
<1>6. LiveNotes' = LiveNotes /\ LiveNotes \subseteq DOMAIN rows
  BY <1>5 DEF LiveNotes
<1>7. ASSUME NEW id \in DOMAIN rows, NEW k \in DOMAIN Docs, NEW j \in DOMAIN Docs,
             rows'[id].body = Docs[k].id, Docs[k].link = Docs[j].id
      PROVE  rows'[id].link = run.final[Docs[j].id]
  <2>1. CASE id = m
    BY <1>1, <1>2, <1>5, <1>7, <2>1, LinkTextIs
  <2>2. CASE id # m
    BY <1>1, <1>2, <1>5, <1>7, <2>2 DEF LinkInv
  <2> QED BY <2>1, <2>2
<1>8. Current \in DOMAIN Docs /\ run.final[Document.id] = Document.title
  BY <1>1, <1>2, AtDocument DEF LinkInv, BatchInv, Document
<1>9. ~ run'.failed =>
          \A j \in DOMAIN Docs \ run'.left :
              \E id \in LiveNotes' : rows'[id].title = run.final[Docs[j].id]
  BY <1>1, <1>2, <1>3, <1>5, <1>6, <1>8 DEF LinkInv, Document
<1> QED BY <1>1, <1>2, <1>3, <1>5, <1>7, <1>9 DEF LinkInv

LEMMA LinkCreateNote ==
    ASSUME BatchInv, LinkInv, CreateNote
    PROVE  LinkInv'
<1> SUFFICES ASSUME runs' = 1 PROVE LinkInv'
  BY DEF LinkInv
<1>1. PICK n, d, title, t : /\ n = Len(rows) + 1 /\ d = Document.id
                            /\ title = run.final[Document.id] /\ t = LinkText(Document)
  OBVIOUS
<1>2. run' = [run EXCEPT !.at = "created", !.titles = Put(@, title, n)]
      /\ strategy' = strategy /\ runs' = runs
  BY <1>1 DEF CreateNote
<1>3. /\ run.at = "doc" /\ run.left # {}
      /\ DOMAIN rows' = DOMAIN rows \cup {n} /\ Len(rows') = n
      /\ n \notin DOMAIN rows /\ \A id \in DOMAIN rows : rows'[id] = rows[id]
      /\ rows'[n].title = title /\ rows'[n].doc = d /\ rows'[n].live = TRUE
      /\ rows'[n].body = d /\ rows'[n].link = t
  BY <1>1, Created
<1>4. /\ run # NoRun /\ DOMAIN run = {"at", "left", "final", "titles", "failed"}
  BY <1>3 DEF BatchInv, RunInv, NoRun
<1>5. /\ run'.left = run.left /\ run'.at = "created"
      /\ run'.final = run.final /\ run'.failed = run.failed
  BY <1>2, <1>4
<1>6. LiveNotes' = LiveNotes \cup {n} /\ LiveNotes \subseteq DOMAIN rows
  BY <1>3 DEF LiveNotes
<1>7. Current \in DOMAIN Docs /\ d = Docs[Current].id /\ title = run.final[Docs[Current].id]
  BY <1>1, <1>3, AtDocument DEF BatchInv, Document
<1>8. ASSUME NEW id \in DOMAIN rows', NEW k \in DOMAIN Docs, NEW j \in DOMAIN Docs,
             rows'[id].body = Docs[k].id, Docs[k].link = Docs[j].id
      PROVE  rows'[id].link = run.final[Docs[j].id]
  <2>1. CASE id = n
    BY <1>1, <1>2, <1>3, <1>8, <2>1, LinkTextIs
  <2>2. CASE id \in DOMAIN rows
    BY <1>2, <1>3, <1>4, <1>8, <2>2 DEF LinkInv
  <2> QED BY <1>3, <2>1, <2>2
<1>9. strategy = "rename" =>
          \A id \in LiveNotes', j \in DOMAIN Docs :
              rows'[id].title = run.final[Docs[j].id] => rows'[id].doc = Docs[j].id
  BY <1>2, <1>3, <1>4, <1>6, <1>7 DEF LinkInv
<1>10. ~ run'.failed =>
           \A j \in DOMAIN Docs \ run'.left :
               \E id \in LiveNotes' : rows'[id].title = run.final[Docs[j].id]
  BY <1>2, <1>3, <1>4, <1>5, <1>6 DEF LinkInv
<1>11. Document' = Document
  BY <1>5 DEF Document, Current
<1> QED BY <1>1, <1>2, <1>3, <1>4, <1>5, <1>6, <1>8, <1>9, <1>10, <1>11 DEF LinkInv

LEMMA LinkAddArtifact ==
    ASSUME BatchInv, LinkInv, AddArtifact
    PROVE  LinkInv'
<1> SUFFICES ASSUME runs' = 1 PROVE LinkInv'
  BY DEF LinkInv
<1>1. run.at = "created" /\ rows' = rows /\ run' = [run EXCEPT !.at = "doc", !.left = @ \ {Current}]
      /\ strategy' = strategy /\ runs' = runs
  BY DEF AddArtifact
<1>2. run # NoRun /\ DOMAIN run = {"at", "left", "final", "titles", "failed"}
  BY <1>1 DEF BatchInv, RunInv, NoRun
<1>3. /\ run'.left = run.left \ {Current} /\ run'.at = "doc"
      /\ run'.final = run.final /\ run'.failed = run.failed
  BY <1>1, <1>2
<1>4. \E id \in LiveNotes : rows[id].title = run.final[Docs[Current].id]
  BY <1>1, <1>2 DEF LinkInv, Document
<1>5. LiveNotes' = LiveNotes
  BY <1>1 DEF LiveNotes
<1>6. ~ run'.failed =>
          \A j \in DOMAIN Docs \ run'.left :
              \E id \in LiveNotes : rows[id].title = run.final[Docs[j].id]
  BY <1>1, <1>2, <1>3, <1>4 DEF LinkInv
<1> QED BY <1>1, <1>2, <1>3, <1>5, <1>6 DEF LinkInv

LEMMA LinkInvStep == BatchInv /\ LinkInv /\ [ImportNext]_importVars => LinkInv'
<1> SUFFICES ASSUME BatchInv, LinkInv, [ImportNext]_importVars PROVE LinkInv'
  OBVIOUS
<1>1. CASE UNCHANGED importVars
  <2>1. LiveNotes' = LiveNotes /\ Document' = Document
    BY <1>1 DEF importVars, LiveNotes, Document, Current
  <2> QED BY <1>1, <2>1 DEF importVars, LinkInv
<1>2. ASSUME run' = NoRun PROVE LinkInv'
  BY <1>2 DEF LinkInv
<1>3. CASE \E title \in UserTitle : UserCreates(title)
  BY <1>2, <1>3 DEF UserCreates
<1>4. CASE \E id \in DOMAIN rows : UserTrashes(id)
  BY <1>2, <1>4 DEF UserTrashes
<1>5. CASE EndRun \/ CrashRun \/ Rollback
  BY <1>2, <1>5 DEF EndRun, CrashRun, Rollback
<1> QED BY <1>1, <1>3, <1>4, <1>5, LinkStartRun, LinkSkip, LinkReadFails, LinkMerge,
           LinkCreateNote, LinkAddArtifact DEF ImportNext

\* At the end of the first run of a batch in which nothing failed, the link of every body
\* that it wrote resolves to the note made from the document that it names; or, when its
\* title was taken and is kept, to a note of its title (F1404).
THEOREM LinksReachTheirTargetHolds == ImportSpec => []LinksReachTheirTarget
<1>1. ImportInit => LinkInv
  BY DEF ImportInit, LinkInv
<1>2. BatchInv /\ LinkInv => LinksReachTheirTarget
  <2> SUFFICES ASSUME BatchInv, LinkInv, run # NoRun, run.left = {}, ~ run.failed, runs = 1,
                      NEW id \in DOMAIN rows, NEW k \in DOMAIN Docs, NEW j \in DOMAIN Docs,
                      rows[id].body = Docs[k].id, Docs[k].link = Docs[j].id
               PROVE  /\ rows[id].link \in DOMAIN TitlesIndex
                      /\ \/ rows[TitlesIndex[rows[id].link]].doc = Docs[j].id
                         \/ /\ strategy # "rename"
                            /\ rows[TitlesIndex[rows[id].link]].title = Docs[j].title
    BY DEF LinksReachTheirTarget
  <2>1. PICK t : t = run.final[Docs[j].id] /\ rows[id].link = t
    BY DEF LinkInv
  <2>2. PICK n \in LiveNotes : rows[n].title = t
    BY <2>1 DEF LinkInv
  <2>3. /\ t \in DOMAIN TitlesIndex /\ TitlesIndex[t] \in LiveNotes
        /\ rows[TitlesIndex[t]].title = t
    BY <2>2, TitlesIndexOK DEF BatchInv, TypeInv
  <2> QED BY <2>1, <2>3 DEF LinkInv
<1> QED BY <1>1, <1>2, LinkInvStep, BatchInvariant, PTL DEF ImportSpec

=============================================================================
