---------------------------- MODULE ForgeVM_proofs ----------------------------
(***************************************************************************)
(* Theorems about ForgeVM, for any well-formed stories, seeds and budgets: *)
(* what a host finds at a stop, that a save holds all of a story, that a   *)
(* restore is whole or not at all, and that a choice that can be taken     *)
(* once is.                                                                *)
(*                                                                         *)
(* VmOK says of one machine what every method keeps: its fields and frames *)
(* are sound; it stops with nothing left over; it knows what was taken.    *)
(* The lemmas follow the methods, from the instruction (Onward, Aside) to  *)
(* the expression, the offer of choices, the step, the run, the start, the *)
(* save and the replay.  A loop is followed by Upto, and unfolded once by  *)
(* a lemma about its recursive function.                                   *)
(***************************************************************************)
EXTENDS ForgeVM, FiniteSetTheorems, TLAPS

-----------------------------------------------------------------------------
(* The invariant.                                                          *)

Fields == SavedFields \cup {"steps", "evals", "suspended", "stale", "thrown"}

\* A machine is a record of its fields, whatever they hold.
Shape(vm) == vm = [f \in Fields |-> vm[f]]

\* A sequence of anything.
Listed(s) == s \in Seq(ToSet(s))

\* A frame of a machine that plays story p stands at an instruction of it, or
\* behind the last one.
FrameOK(p, f) ==
    /\ f = [at |-> f.at, ip |-> f.ip, kind |-> f.kind, temp |-> f.temp]
    /\ f.at \in DOMAIN Program[p].code /\ f.ip \in 1 .. Len(Program[p].code[f.at]) + 1
    /\ f.kind \in {"flow", "tunnel", "eval"}
    /\ f.kind = "eval" => f.at \in Expressions(p)

\* The flow is at the bottom.
FramesOK(p, s) ==
    /\ Listed(s) /\ s # <<>>
    /\ \A k \in DOMAIN s : FrameOK(p, s[k]) /\ (s[k].kind = "flow" <=> k = 1)

\* A deck holds branches of its alternative, none twice.
DeckOK(p, id, deck) ==
    /\ Listed(deck)
    /\ \A j, k \in DOMAIN deck : deck[j] = deck[k] => j = k
    /\ \A c \in DOMAIN Program[p].code : \A k \in DOMAIN Program[p].code[c] :
          Program[p].code[c][k].op = "alt" /\ Program[p].code[c][k].id = id
          => \A j \in DOMAIN deck : deck[j] \in DOMAIN Program[p].code[c][k].branches

AltsOK(p, alts) ==
    \A id \in DOMAIN alts : alts[id].count \in Nat /\ DeckOK(p, id, alts[id].deck)

\* A choice on view is one of those that were registered.
ViewsOK(views, pending) ==
    /\ Listed(views)
    /\ \A i \in DOMAIN views : \E k \in DOMAIN pending :
          /\ pending[k].body = views[i].body /\ pending[k].sticky = views[i].sticky
          /\ ~pending[k].fallback

\* A function has been called that has yet to answer, since the last bootstrap.
Due(vm) == vm.suspended /\ ~vm.stale

Sound(vm) ==
    /\ Shape(vm)
    /\ vm.program \in DOMAIN Program
    /\ vm.seed \in 0 .. PrngStates - 1 /\ vm.prng \in 0 .. PrngStates - 1
    /\ FramesOK(vm.program, vm.frames)
    /\ vm.visits \in [DOMAIN Program[vm.program].code -> Nat]
    /\ AltsOK(vm.program, vm.alts)
    /\ Listed(vm.pending) /\ ToSet(vm.pending) \subseteq ChoicesOf(vm.program)
    /\ ViewsOK(vm.views, vm.pending)
    /\ Listed(vm.history) /\ vm.turn = Len(vm.history)
    /\ Listed(vm.stack) /\ Listed(vm.lineBuf) /\ Listed(vm.transcript)
    /\ vm.steps \in Nat /\ vm.evals \in Nat
    /\ vm.status \in {"running", "choices", "done"}
    /\ {vm.suspended, vm.stale, vm.astray, vm.intact} \subseteq BOOLEAN
    /\ vm.views # <<>> <=> vm.status = "choices"
    /\ Due(vm) => vm.status = "running"
    /\ vm.status # "running" => ~HasExpression(vm)
    /\ vm.status = "done" => \A k \in DOMAIN vm.frames : vm.frames[k].kind = "flow"

\* The values on the stack, with the one that an awaited function owes.
Owed(vm) == IF Due(vm) THEN Len(vm.stack) + 1 ELSE Len(vm.stack)

\* A machine that stops does so with nothing left over; while it runs there is
\* no more on the stack than the code that it is in has put there.
Healthy(vm) ==
    /\ ~HasExpression(vm)
    /\ vm.status = "running" =>
          Owed(vm) <= Height(Code(vm, Top(vm).at), Top(vm).ip)
    /\ vm.status # "running" => vm.stack = <<>> /\ vm.lineBuf = <<>>

\* After an error in an expression the flow stands behind its last instruction
\* and never stops any more.
Wounded(vm) ==
    /\ vm.status = "running"
    /\ \E k \in DOMAIN vm.frames :
          /\ vm.frames[k].ip > Len(Code(vm, vm.frames[k].at))
          /\ k + 1 \in DOMAIN vm.frames => vm.frames[k + 1].kind = "eval"

Title(vm) == Program[vm.program].title

\* What was taken has been visited, but for the body that the flow enters next.
Logged(vm) ==
    \A k \in DOMAIN vm.history :
        OnceOnly(Title(vm), vm.history[k].body) => vm.visits[vm.history[k].body] > 0

Entering(vm) ==
    /\ vm.status = "running" /\ vm.history # <<>>
    /\ Top(vm).at = Last(vm.history).body /\ Top(vm).ip = 1 /\ Top(vm).kind # "eval"
    /\ Len(Code(vm, Top(vm).at)) > 0
    /\ Code(vm, Top(vm).at)[1] = [op |-> "visit", of |-> Top(vm).at]
    /\ \A k \in 1 .. Len(vm.history) - 1 :
          OnceOnly(Title(vm), vm.history[k].body) => vm.visits[vm.history[k].body] > 0

\* A choice on view that can be taken once has not been taken.
Untaken(vm) ==
    \A i \in DOMAIN vm.views, k \in DOMAIN vm.history :
        vm.history[k].body = vm.views[i].body => ~OnceOnly(Title(vm), vm.views[i].body)

TakenOnce(vm) ==
    \A j, k \in DOMAIN vm.history :
        vm.history[j].body = vm.history[k].body /\ OnceOnly(Title(vm), vm.history[j].body) => j = k

Memory(vm) == TakenOnce(vm) /\ Untaken(vm) /\ (Logged(vm) \/ Entering(vm))

VmOK(vm) ==
    /\ Sound(vm) /\ vm.evals = 0
    /\ vm.intact => Healthy(vm) \/ Wounded(vm)
    /\ Memory(vm)

\* A saved state is that of a machine which had stopped.
SlotOK(s) == s = Empty \/ \E vm : VmOK(vm) /\ vm.status # "running" /\ s = SaveState(vm)

ForgeInv == VmOK(story) /\ SlotOK(slot) /\ (awaiting => story.suspended)

-----------------------------------------------------------------------------
(* Numbers and sequences.                                                  *)

\* A set of natural numbers has a least one: what stands for induction here.
LEMMA LeastNumber ==
    ASSUME NEW T, T \subseteq Nat, T # {}
    PROVE  \E n \in T : \A m \in T : n <= m
<1>1. \E R : IsWellFoundedOn(R, Nat) /\ \A n, m \in Nat : <<m, n>> \in R <=> m < n
  <2>1. \A n, m \in Nat : <<m, n>> \in OpToRel(<, Nat) <=> m < n
    BY DEF OpToRel
  <2>2. IsWellFoundedOn(OpToRel(<, Nat), Nat)
    BY NatLessThanWellFounded
  <2> WITNESS OpToRel(<, Nat)
  <2> QED BY <2>1, <2>2
<1>2. PICK R : IsWellFoundedOn(R, Nat) /\ \A n, m \in Nat : <<m, n>> \in R <=> m < n
  BY <1>1
<1>3. PICK n \in T : \A m \in T : ~ (<<m, n>> \in R)
  BY <1>2, WFMin
<1>4. \A m \in T : ~ (m < n)
  BY <1>2, <1>3
<1> QED BY <1>4

\* What holds of 0, and of k if it holds of k - 1, holds up to any number.
LEMMA Upto ==
    ASSUME NEW N \in Nat, NEW K, 0 \in K,
           \A k \in 1 .. N : k - 1 \in K => k \in K
    PROVE  \A k \in 0 .. N : k \in K
<1> DEFINE T == {k \in 0 .. N : k \notin K}
<1>1. SUFFICES ASSUME T # {} PROVE FALSE
  OBVIOUS
<1>0. T \subseteq Nat
  OBVIOUS
<1>2. PICK k \in T : \A m \in T : k <= m
  <2> HIDE DEF T
  <2> QED BY <1>0, <1>1, LeastNumber
<1>3. k \in 1 .. N /\ k - 1 \in 0 .. N
  BY <1>2
<1>4. k - 1 \in K
  BY <1>2, <1>3
<1> QED BY <1>2, <1>3, <1>4

\* Sequences of anything.
LEMMA ListedIs ==
    ASSUME NEW s
    PROVE  /\ Listed(s) => /\ Len(s) \in Nat /\ DOMAIN s = 1 .. Len(s)
                          /\ s = [k \in 1 .. Len(s) |-> s[k]]
                          /\ (s = <<>> <=> Len(s) = 0)
           /\ \A S : s \in Seq(S) => Listed(s)
           /\ \A n \in Nat : s = [k \in 1 .. n |-> s[k]] => Listed(s) /\ Len(s) = n
<1>1. Listed(s) => /\ Len(s) \in Nat /\ DOMAIN s = 1 .. Len(s)
                  /\ s = [k \in 1 .. Len(s) |-> s[k]]
                  /\ (s = <<>> <=> Len(s) = 0)
  BY DEF Listed
<1>2. ASSUME NEW S, s \in Seq(S) PROVE Listed(s)
  BY <1>2 DEF Listed, ToSet
<1>3. ASSUME NEW n \in Nat, s = [k \in 1 .. n |-> s[k]] PROVE Listed(s) /\ Len(s) = n
  <2>1. \A k \in 1 .. n : s[k] \in ToSet(s)
    BY <1>3 DEF ToSet
  <2>2. [k \in 1 .. n |-> s[k]] \in Seq(ToSet(s)) /\ Len([k \in 1 .. n |-> s[k]]) = n
    BY <2>1
  <2> QED BY <1>3, <2>2 DEF Listed
<1> QED BY <1>1, <1>2, <1>3

LEMMA AppendListed ==
    ASSUME NEW s, Listed(s), NEW x
    PROVE  /\ Listed(Append(s, x)) /\ Len(Append(s, x)) = Len(s) + 1
           /\ DOMAIN Append(s, x) = 1 .. Len(s) + 1
           /\ \A k \in 1 .. Len(s) : Append(s, x)[k] = s[k]
           /\ Append(s, x)[Len(s) + 1] = x
           /\ Append(s, x) # <<>>
           /\ ToSet(Append(s, x)) = ToSet(s) \cup {x}
<1> DEFINE S == ToSet(s) \cup {x}
<1>1. s \in Seq(S) /\ x \in S
  BY DEF Listed, ToSet
<1> HIDE DEF S
<1>2. Append(s, x) \in Seq(S) /\ Len(Append(s, x)) = Len(s) + 1 /\ Len(s) \in Nat
  BY <1>1
<1>3. Listed(Append(s, x)) /\ DOMAIN Append(s, x) = 1 .. Len(s) + 1
  BY <1>2, ListedIs
<1>4. \A k \in 1 .. Len(s) : Append(s, x)[k] = s[k]
  BY <1>1
<1>5. Append(s, x)[Len(s) + 1] = x
  BY <1>1
<1>6. Append(s, x) # <<>>
  BY <1>2
<1>7. ToSet(Append(s, x)) = ToSet(s) \cup {x}
  BY <1>2, <1>3, <1>4, <1>5, ListedIs DEF ToSet
<1> QED BY <1>2, <1>3, <1>4, <1>5, <1>6, <1>7

LEMMA FrontListed ==
    ASSUME NEW s, Listed(s), s # <<>>
    PROVE  /\ Len(s) \in Nat \ {0} /\ Listed(Front(s)) /\ Len(Front(s)) = Len(s) - 1
           /\ DOMAIN Front(s) = 1 .. Len(s) - 1
           /\ \A k \in 1 .. Len(s) - 1 : Front(s)[k] = s[k]
           /\ Last(s) = s[Len(s)]
<1>1. Len(s) \in Nat \ {0} /\ DOMAIN s = 1 .. Len(s)
  BY ListedIs
<1>2. Front(s) = [k \in 1 .. Len(s) - 1 |-> s[k]]
  <2>1. Front(s) = SubSeq(s, 1, Len(s) - 1)
    BY DEF Front
  <2>2. s \in Seq(ToSet(s))
    BY DEF Listed
  <2>3. SubSeq(s, 1, Len(s) - 1) \in Seq(ToSet(s)) /\ Len(SubSeq(s, 1, Len(s) - 1)) = Len(s) - 1
    BY <1>1, <2>2
  <2>4. \A k \in 1 .. Len(s) - 1 : SubSeq(s, 1, Len(s) - 1)[k] = s[k]
    BY <1>1, <2>2
  <2> QED BY <1>1, <2>1, <2>3, <2>4
<1>3. Front(s) = [k \in 1 .. Len(s) - 1 |-> Front(s)[k]] /\ Len(s) - 1 \in Nat
  BY <1>1, <1>2
<1>4. Listed(Front(s)) /\ Len(Front(s)) = Len(s) - 1
  BY <1>3, ListedIs
<1>5. Last(s) = s[Len(s)]
  BY DEF Last
<1> QED BY <1>1, <1>2, <1>4, <1>5

\* Replacing the value at a place.
LEMMA ReplaceListed ==
    ASSUME NEW s, Listed(s), NEW i, NEW x
    PROVE  /\ Listed([s EXCEPT ![i] = x]) /\ Len([s EXCEPT ![i] = x]) = Len(s)
           /\ DOMAIN [s EXCEPT ![i] = x] = 1 .. Len(s)
           /\ \A k \in 1 .. Len(s) : [s EXCEPT ![i] = x][k] = IF k = i THEN x ELSE s[k]
<1>1. Len(s) \in Nat /\ DOMAIN s = 1 .. Len(s)
  BY ListedIs
<1> DEFINE r == [s EXCEPT ![i] = x]
<1>2. r = [k \in 1 .. Len(s) |-> r[k]] /\ \A k \in 1 .. Len(s) : r[k] = IF k = i THEN x ELSE s[k]
  BY <1>1
<1> HIDE DEF r
<1>3. Listed(r) /\ Len(r) = Len(s)
  BY <1>1, <1>2, ListedIs
<1>4. DOMAIN r = 1 .. Len(s)
  BY <1>2
<1> QED BY <1>2, <1>3, <1>4 DEF r

\* The recursion of FramesOf, one frame after the other.
KeptStep(s, kinds, f, k) ==
    IF k = 0 THEN <<>> ELSE IF s[k].kind \in kinds THEN Append(f[k - 1], s[k]) ELSE f[k - 1]

LEMMA FramesOfExists ==
    ASSUME NEW s, NEW kinds, NEW N \in Nat
    PROVE  \E f : f = [k \in 0 .. N |-> KeptStep(s, kinds, f, k)]
<1> DEFINE K == {n \in Nat : \E f : f = [k \in 0 .. n |-> KeptStep(s, kinds, f, k)]}
<1>1. ASSUME NEW f, NEW g, NEW k \in Nat, k > 0 => f[k - 1] = g[k - 1]
      PROVE  KeptStep(s, kinds, f, k) = KeptStep(s, kinds, g, k)
  BY <1>1 DEF KeptStep
<1> HIDE DEF KeptStep
<1>2. 0 \in K
  <2> DEFINE f == [k \in 0 .. 0 |-> KeptStep(s, kinds, <<>>, k)]
  <2>1. f = [k \in 0 .. 0 |-> KeptStep(s, kinds, f, k)]
    <3>1. \A k \in 0 .. 0 : KeptStep(s, kinds, <<>>, k) = KeptStep(s, kinds, f, k)
      <4> HIDE DEF f
      <4> QED BY <1>1
    <3> QED BY <3>1
  <2> QED BY <2>1
<1>3. ASSUME NEW n \in 1 .. N, n - 1 \in K PROVE n \in K
  <2>1. PICK f : f = [k \in 0 .. n - 1 |-> KeptStep(s, kinds, f, k)]
    BY <1>3
  <2> DEFINE g == [k \in 0 .. n |-> IF k = n THEN KeptStep(s, kinds, f, k) ELSE f[k]]
  <2>2. \A k \in 0 .. n - 1 : f[k] = g[k]
    OBVIOUS
  <2>3. g = [k \in 0 .. n |-> g[k]] /\ g[n] = KeptStep(s, kinds, f, n)
    OBVIOUS
  <2> HIDE DEF g
  <2>4. ASSUME NEW k \in 0 .. n PROVE g[k] = KeptStep(s, kinds, g, k)
    <3>1. KeptStep(s, kinds, f, k) = KeptStep(s, kinds, g, k)
      <4>1. k > 0 => k - 1 \in 0 .. n - 1
        OBVIOUS
      <4>2. k > 0 => f[k - 1] = g[k - 1]
        BY <2>2, <4>1
      <4> QED BY <1>1, <4>2
    <3>2. CASE k = n
      BY <2>3, <3>1, <3>2
    <3>3. CASE k \in 0 .. n - 1
      <4>1. f[k] = KeptStep(s, kinds, f, k)
        BY <2>1, <3>3
      <4> QED BY <2>2, <3>1, <3>3, <4>1
    <3> QED BY <3>2, <3>3
  <2>5. g = [k \in 0 .. n |-> KeptStep(s, kinds, g, k)]
    BY <2>3, <2>4
  <2> QED BY <2>5
<1>4. N \in K
  <2> HIDE DEF K
  <2> QED BY <1>2, <1>3, Upto
<1> QED BY <1>4

LEMMA FramesOfIs ==
    ASSUME NEW s, NEW kinds, Len(s) \in Nat
    PROVE  \E f : /\ f[0] = <<>> /\ FramesOf(s, kinds) = f[Len(s)]
                  /\ \A k \in 1 .. Len(s) : f[k] = IF s[k].kind \in kinds THEN Append(f[k - 1], s[k])
                                                   ELSE f[k - 1]
<1> DEFINE F == CHOOSE f : f = [k \in 0 .. Len(s) |-> KeptStep(s, kinds, f, k)]
<1>1. F = [k \in 0 .. Len(s) |-> KeptStep(s, kinds, F, k)]
  <2>1. \E f : f = [k \in 0 .. Len(s) |-> KeptStep(s, kinds, f, k)]
    BY FramesOfExists
  <2> QED BY <2>1
<1>2. FramesOf(s, kinds) = F[Len(s)]
  BY DEF FramesOf, KeptStep
<1> HIDE DEF F
<1>3. \A k \in 0 .. Len(s) : F[k] = KeptStep(s, kinds, F, k)
  BY <1>1
<1>4. F[0] = <<>>
  BY <1>3 DEF KeptStep
<1>5. \A k \in 1 .. Len(s) : F[k] = IF s[k].kind \in kinds THEN Append(F[k - 1], s[k]) ELSE F[k - 1]
  BY <1>3 DEF KeptStep
<1> QED BY <1>2, <1>4, <1>5

LEMMA FramesOfAll ==
    ASSUME NEW s, Listed(s), NEW kinds, \A k \in DOMAIN s : s[k].kind \in kinds
    PROVE  FramesOf(s, kinds) = s
<1>0. Len(s) \in Nat /\ DOMAIN s = 1 .. Len(s) /\ s = [k \in 1 .. Len(s) |-> s[k]]
  BY ListedIs
<1>1. PICK f : /\ f[0] = <<>> /\ FramesOf(s, kinds) = f[Len(s)]
               /\ \A k \in 1 .. Len(s) : f[k] = IF s[k].kind \in kinds THEN Append(f[k - 1], s[k])
                                                ELSE f[k - 1]
  BY <1>0, FramesOfIs
<1> DEFINE K == {n \in 0 .. Len(s) : /\ Listed(f[n]) /\ Len(f[n]) = n
                                     /\ \A k \in 1 .. n : f[n][k] = s[k]}
<1>2. 0 \in K
  <2>1. Listed(<<>>) /\ Len(<<>>) = 0
    BY DEF Listed
  <2> QED BY <1>0, <1>1, <2>1
<1>3. ASSUME NEW n \in 1 .. Len(s), n - 1 \in K PROVE n \in K
  <2>1. f[n] = Append(f[n - 1], s[n])
    BY <1>0, <1>1
  <2>2. Listed(f[n - 1]) /\ Len(f[n - 1]) = n - 1 /\ \A k \in 1 .. n - 1 : f[n - 1][k] = s[k]
    BY <1>3
  <2>3. /\ Listed(f[n]) /\ Len(f[n]) = n - 1 + 1
        /\ \A k \in 1 .. n - 1 : f[n][k] = f[n - 1][k]
        /\ f[n][n - 1 + 1] = s[n]
    <3> HIDE <1>1, <1>3
    <3> QED BY <2>1, <2>2, AppendListed
  <2>4. \A k \in 1 .. n : f[n][k] = s[k]
    BY <2>2, <2>3
  <2> QED BY <2>3, <2>4
<1>4. Len(s) \in K
  <2> HIDE DEF K
  <2> QED BY <1>0, <1>2, <1>3, Upto
<1>5. f[Len(s)] = [k \in 1 .. Len(s) |-> s[k]]
  <2>1. f[Len(s)] = [k \in 1 .. Len(f[Len(s)]) |-> f[Len(s)][k]]
    BY <1>4, ListedIs
  <2> QED BY <1>4, <2>1
<1> QED BY <1>0, <1>1, <1>5

LEMMA FramesOfFirst ==
    ASSUME NEW s, Listed(s), s # <<>>, NEW kinds, \A k \in DOMAIN s : s[k].kind \in kinds <=> k = 1
    PROVE  FramesOf(s, kinds) = <<s[1]>>
<1>0. Len(s) \in Nat /\ Len(s) # 0 /\ DOMAIN s = 1 .. Len(s)
  BY ListedIs
<1>1. PICK f : /\ f[0] = <<>> /\ FramesOf(s, kinds) = f[Len(s)]
               /\ \A k \in 1 .. Len(s) : f[k] = IF s[k].kind \in kinds THEN Append(f[k - 1], s[k])
                                                ELSE f[k - 1]
  BY <1>0, FramesOfIs
<1> DEFINE K == {n \in 0 .. Len(s) : n > 0 => f[n] = <<s[1]>>}
<1>2. 0 \in K
  BY <1>0
<1>3. ASSUME NEW n \in 1 .. Len(s), n - 1 \in K PROVE n \in K
  <2>1. CASE n = 1
    <3>1. s[n].kind \in kinds /\ n - 1 = 0
      BY <1>0, <2>1
    <3>2. f[n] = Append(f[n - 1], s[n])
      BY <1>1, <3>1
    <3>3. f[n] = Append(<<>>, s[n])
      BY <1>1, <3>1, <3>2
    <3>4. Append(<<>>, s[n]) = <<s[n]>>
      OBVIOUS
    <3> QED BY <2>1, <3>3, <3>4
  <2>2. CASE n # 1
    <3>1. f[n] = f[n - 1] /\ n - 1 > 0
      BY <1>0, <1>1, <2>2
    <3> QED BY <1>3, <3>1
  <2> QED BY <2>1, <2>2
<1>4. Len(s) \in K
  <2>1. \A n \in 1 .. Len(s) : n - 1 \in K => n \in K
    BY <1>3
  <2> HIDE DEF K
  <2>2. \A n \in 0 .. Len(s) : n \in K
    BY <1>0, <1>2, <2>1, Upto
  <2> QED BY <1>0, <2>2
<1> QED BY <1>0, <1>1, <1>4

-----------------------------------------------------------------------------
(* The fields that a step leaves alone.                                    *)

\* w is v but for these fields.
Alike(v, w, changed) == Shape(w) /\ \A f \in Fields \ changed : w[f] = v[f]

LEMMA AlikeMore ==
    ASSUME NEW v, NEW w, NEW A, NEW B, Alike(v, w, A), A \subseteq B
    PROVE  Alike(v, w, B)
  BY DEF Alike

-----------------------------------------------------------------------------
(* What the instructions do.                                               *)

\* Frames that differ in their temporaries only.
SameFrames(s, t) ==
    /\ Listed(t) /\ Len(t) = Len(s)
    /\ \A k \in 1 .. Len(s) :
          /\ t[k] = [at |-> t[k].at, ip |-> t[k].ip, kind |-> t[k].kind, temp |-> t[k].temp]
          /\ t[k].at = s[k].at /\ t[k].ip = s[k].ip /\ t[k].kind = s[k].kind

LEMMA SameFramesOK ==
    ASSUME NEW p, NEW s, FramesOK(p, s), NEW t, SameFrames(s, t)
    PROVE  FramesOK(p, t)
<1>1. Len(s) \in Nat /\ DOMAIN s = 1 .. Len(s) /\ DOMAIN t = 1 .. Len(s) /\ t # <<>>
  BY ListedIs DEF FramesOK, SameFrames
<1> QED BY <1>1 DEF FramesOK, SameFrames, FrameOK

LEMMA FramesAlike ==
    ASSUME NEW p, NEW s, FramesOK(p, s)
    PROVE  SameFrames(s, s)
<1>1. Len(s) \in Nat /\ DOMAIN s = 1 .. Len(s)
  BY ListedIs DEF FramesOK
<1> QED BY <1>1 DEF FramesOK, SameFrames, FrameOK

LEMMA TempStored ==
    ASSUME NEW p, NEW s, FramesOK(p, s), NEW n, NEW x
    PROVE  SameFrames(s, [s EXCEPT ![n].temp = x])
<1>1. Len(s) \in Nat /\ DOMAIN s = 1 .. Len(s) /\ Listed(s)
  BY ListedIs DEF FramesOK
<1>2. PICK y : y = [s[n] EXCEPT !.temp = x]
  OBVIOUS
<1>3. PICK t : t = [s EXCEPT ![n] = y]
  OBVIOUS
<1>4. Listed(t) /\ Len(t) = Len(s) /\ \A k \in 1 .. Len(s) : t[k] = IF k = n THEN y ELSE s[k]
  BY <1>1, <1>3, ReplaceListed
<1>5. ASSUME NEW k \in 1 .. Len(s)
      PROVE  /\ t[k] = [at |-> t[k].at, ip |-> t[k].ip, kind |-> t[k].kind, temp |-> t[k].temp]
             /\ t[k].at = s[k].at /\ t[k].ip = s[k].ip /\ t[k].kind = s[k].kind
  <2>1. s[k] = [at |-> s[k].at, ip |-> s[k].ip, kind |-> s[k].kind, temp |-> s[k].temp]
    BY <1>1 DEF FramesOK, FrameOK
  <2>2. CASE k = n
    <3>1. t[k] = [s[k] EXCEPT !.temp = x]
      BY <1>2, <1>4, <2>2
    <3> QED BY <2>1, <3>1
  <2>3. CASE k # n
    BY <1>4, <2>1, <2>3
  <2> QED BY <2>2, <2>3
<1>6. SameFrames(s, t)
  BY <1>4, <1>5 DEF SameFrames
<1> QED BY <1>2, <1>3, <1>6

LEMMA PrngRange ==
    ASSUME NEW s \in 0 .. PrngStates - 1
    PROVE  PrngNext(s) \in 0 .. PrngStates - 1
<1>1. PrngStates \in Nat \ {0}
  BY ForgeAssumption
<1> QED BY <1>1 DEF PrngNext

ValueOps == (Pushing \ {"call"}) \cup (Taking \ {"jump_if_false"}) \cup Joining
ValueFields == {"stack", "globals", "frames", "lineBuf", "prng", "thrown", "replayable"}

\* The number of values on the stack after an instruction that finds n.
Depth(op, n) ==
    CASE op \in Pushing -> n + 1
      [] op \in Taking -> IF n = 0 THEN 0 ELSE n - 1
      [] op \in Joining -> IF n < 2 THEN 0 ELSE n - 1
      [] OTHER -> n

LEMMA DepthIs ==
    ASSUME NEW op, NEW n
    PROVE  /\ op \in Pushing => Depth(op, n) = n + 1
           /\ op \in Taking => Depth(op, n) = IF n = 0 THEN 0 ELSE n - 1
           /\ op \in Joining => Depth(op, n) = IF n < 2 THEN 0 ELSE n - 1
           /\ op \notin Pushing \cup Taking \cup Joining => Depth(op, n) = n
<1>1. op \in Taking => op \notin Pushing
  BY DEF Taking, Pushing
<1>2. op \in Joining => op \notin Pushing \cup Taking
  BY DEF Taking, Pushing, Joining
<1> QED BY <1>1, <1>2 DEF Depth

\* w is v but for values, counters, the output and what is pending.
Kept(v, w) ==
    \A f \in {"program", "seed", "turn", "history", "views", "evals", "steps", "intact"} : w[f] = v[f]

Quiet(v, w) ==
    /\ Shape(w) /\ Kept(v, w) /\ w.status = v.status
    /\ SameFrames(v.frames, w.frames)
    /\ w.prng \in 0 .. PrngStates - 1
    /\ AltsOK(v.program, w.alts)
    /\ w.visits \in [DOMAIN Program[v.program].code -> Nat]
    /\ \A c \in DOMAIN v.visits : w.visits[c] >= v.visits[c]
    /\ Listed(w.pending) /\ ToSet(w.pending) \subseteq ChoicesOf(v.program)
    /\ Listed(w.stack) /\ Listed(w.lineBuf) /\ Listed(w.transcript)
    /\ {w.suspended, w.stale, w.astray} \subseteq BOOLEAN

\* What an instruction on values leaves alone besides.
Offstage(v, w) ==
    /\ w.suspended = v.suspended /\ w.stale = v.stale
    /\ w.pending = v.pending /\ w.visits = v.visits /\ w.alts = v.alts

LEMMA QuietSelf ==
    ASSUME NEW v, Sound(v)
    PROVE  Quiet(v, v) /\ Offstage(v, v)
<1>1. SameFrames(v.frames, v.frames)
  BY FramesAlike DEF Sound
<1>2. Kept(v, v)
  BY DEF Kept
<1>3. \A c \in DOMAIN v.visits : v.visits[c] >= v.visits[c]
  BY DEF Sound
<1> QED BY <1>1, <1>2, <1>3 DEF Quiet, Offstage, Sound

LEMMA PushQuiet ==
    ASSUME NEW v, NEW u, Quiet(v, u), NEW x
    PROVE  /\ Quiet(v, Push(u, x)) /\ Alike(u, Push(u, x), {"stack"})
           /\ Len(Push(u, x).stack) = Len(u.stack) + 1
<1>1. Alike(u, Push(u, x), {"stack"}) /\ Push(u, x).stack = Append(u.stack, x)
  BY DEF Alike, Shape, Push, Fields, SavedFields, Quiet
<1>2. Listed(Push(u, x).stack) /\ Len(Push(u, x).stack) = Len(u.stack) + 1
  BY <1>1, AppendListed DEF Quiet
<1> QED BY <1>1, <1>2 DEF Quiet, Kept, Alike, Fields, SavedFields

LEMMA PopQuiet ==
    ASSUME NEW v, NEW u, Quiet(v, u), u.stack # <<>>
    PROVE  /\ Quiet(v, Popped(u)) /\ Alike(u, Popped(u), {"stack"})
           /\ Len(u.stack) \in Nat \ {0} /\ Len(Popped(u).stack) = Len(u.stack) - 1
<1>1. Alike(u, Popped(u), {"stack"}) /\ Popped(u).stack = Front(u.stack)
  BY DEF Alike, Shape, Popped, Fields, SavedFields, Quiet
<1>2. /\ Listed(Popped(u).stack) /\ Len(Popped(u).stack) = Len(u.stack) - 1
      /\ Len(u.stack) \in Nat \ {0}
  BY <1>1, FrontListed DEF Quiet
<1> QED BY <1>1, <1>2 DEF Quiet, Kept, Alike, Fields, SavedFields

LEMMA ThrowQuiet ==
    ASSUME NEW v, NEW u, Quiet(v, u), NEW x
    PROVE  Quiet(v, Throw(u, x)) /\ Alike(u, Throw(u, x), {"thrown", "replayable"})
<1>1. Alike(u, Throw(u, x), {"thrown", "replayable"})
  BY DEF Alike, Shape, Throw, Fields, SavedFields, Quiet
<1> QED BY <1>1 DEF Quiet, Kept, Alike, Fields, SavedFields

\* What an instruction on values does.
ValueEffect(v, w, op) ==
    Quiet(v, w) /\ Offstage(v, w) /\ Len(w.stack) = Depth(op, Len(v.stack))

LEMMA PushingEffect ==
    ASSUME NEW v, Sound(v), NEW i, i.op \in Pushing \ {"call"}
    PROVE  ValueEffect(v, ExecuteValue(v, i), i.op)
<1>1. Depth(i.op, Len(v.stack)) = Len(v.stack) + 1
  BY DepthIs
<1>2. PICK w : w = ExecuteValue(v, i)
  OBVIOUS
<1>3. Quiet(v, v) /\ Offstage(v, v)
  BY QuietSelf
<1>4. CASE i.op # "random"
  <2>1. PICK y : w = Push(v, y)
    BY <1>2, <1>4 DEF ExecuteValue, Pushing
  <2>2. Quiet(v, w) /\ Alike(v, w, {"stack"}) /\ Len(w.stack) = Len(v.stack) + 1
    BY <1>3, <2>1, PushQuiet
  <2>3. Offstage(v, w)
    BY <2>2 DEF Alike, Fields, SavedFields, Offstage
  <2> QED BY <1>1, <1>2, <2>2, <2>3 DEF ValueEffect
<1>5. CASE i.op = "random"
  <2>1. PICK u : u = [v EXCEPT !.prng = PrngNext(@)]
    OBVIOUS
  <2>2. PICK y : w = Push(u, y)
    BY <1>2, <1>5, <2>1 DEF ExecuteValue
  <2>3. Alike(v, u, {"prng"}) /\ u.prng = PrngNext(v.prng)
    BY <2>1 DEF Alike, Shape, Fields, SavedFields, Sound
  <2>4. u.prng \in 0 .. PrngStates - 1
    BY <2>3, PrngRange DEF Sound
  <2>5. Quiet(v, u)
    BY <1>3, <2>3, <2>4 DEF Quiet, Kept, Alike, Fields, SavedFields
  <2>6. Quiet(v, w) /\ Alike(u, w, {"stack"}) /\ Len(w.stack) = Len(u.stack) + 1
    BY <2>2, <2>5, PushQuiet
  <2>7. Offstage(v, w) /\ u.stack = v.stack
    BY <2>3, <2>6 DEF Alike, Fields, SavedFields, Offstage
  <2> QED BY <1>1, <1>2, <2>6, <2>7 DEF ValueEffect
<1> QED BY <1>4, <1>5

LEMMA TakingEffect ==
    ASSUME NEW v, Sound(v), NEW i, i.op \in Taking \ {"jump_if_false"}
    PROVE  ValueEffect(v, ExecuteValue(v, i), i.op)
<1>1. Depth(i.op, Len(v.stack)) = IF Len(v.stack) = 0 THEN 0 ELSE Len(v.stack) - 1
  BY DepthIs
<1>2. PICK w : w = ExecuteValue(v, i)
  OBVIOUS
<1>3. Quiet(v, v) /\ Offstage(v, v)
  BY QuietSelf
<1>4. Len(v.stack) \in Nat /\ (Len(v.stack) = 0 <=> v.stack = <<>>)
  BY ListedIs DEF Sound
<1>5. CASE Len(v.stack) = 0
  <2>1. w = v \/ w = Throw(v, "stack underflow")
    <3>1. ~(Len(v.stack) > 0)
      BY <1>5
    <3>2. CASE i.op = "pop"
      BY <1>2, <1>5, <3>2 DEF ExecuteValue
    <3>3. CASE i.op \in {"store", "store_temp", "print"}
      BY <1>2, <1>5, <3>1, <3>3 DEF ExecuteValue
    <3> QED BY <3>2, <3>3 DEF Taking
  <2>2. Quiet(v, w) /\ Offstage(v, w) /\ w.stack = v.stack
    <3>1. CASE w = v
      BY <1>3, <3>1
    <3>2. CASE w = Throw(v, "stack underflow")
      <4>1. Quiet(v, w) /\ Alike(v, w, {"thrown", "replayable"})
        BY <1>3, <3>2, ThrowQuiet
      <4> QED BY <4>1 DEF Alike, Fields, SavedFields, Offstage
    <3> QED BY <2>1, <3>1, <3>2
  <2> QED BY <1>1, <1>2, <1>5, <2>2 DEF ValueEffect
<1>6. CASE Len(v.stack) # 0
  <2>1. PICK u : u = Popped(v)
    OBVIOUS
  <2>2. Quiet(v, u) /\ Alike(v, u, {"stack"}) /\ Len(u.stack) = Len(v.stack) - 1
    BY <1>3, <1>4, <1>6, <2>1, PopQuiet
  <2>0. Len(v.stack) > 0
    BY <1>4, <1>6
  <2>3. ASSUME Quiet(v, w), NEW f \in {"stack", "globals", "frames", "lineBuf"}, Alike(u, w, {f}),
               f # "stack"
        PROVE  ValueEffect(v, w, i.op)
    <3>1. Offstage(v, w) /\ w.stack = u.stack
      BY <2>2, <2>3 DEF Alike, Fields, SavedFields, Offstage
    <3> QED BY <1>1, <1>6, <2>2, <2>3, <3>1 DEF ValueEffect
  <2>4. CASE i.op = "pop"
    <3>1. w = u
      BY <1>2, <1>6, <2>1, <2>4 DEF ExecuteValue
    <3>2. Offstage(v, w)
      BY <2>2, <3>1 DEF Alike, Fields, SavedFields, Offstage
    <3> QED BY <1>1, <1>2, <1>6, <2>2, <3>1, <3>2 DEF ValueEffect
  <2>5. CASE i.op = "store"
    <3>1. w = [Popped(v) EXCEPT !.globals[i.name] = Last(v.stack)]
      BY <1>2, <1>6, <2>0, <2>5 DEF ExecuteValue
    <3>2. PICK g : w = [u EXCEPT !.globals = g]
      BY <2>1, <3>1
    <3>3. Alike(u, w, {"globals"})
      BY <2>2, <3>2 DEF Alike, Shape, Fields, SavedFields
    <3>4. Quiet(v, w)
      BY <2>2, <3>3 DEF Quiet, Kept, Alike, Fields, SavedFields
    <3> QED BY <1>2, <2>3, <3>3, <3>4
  <2>6. CASE i.op = "store_temp"
    <3>1. w = [Popped(v) EXCEPT !.frames[TempFrame(v)].temp = Last(v.stack)]
      BY <1>2, <1>6, <2>0, <2>6 DEF ExecuteValue
    <3>2. PICK k : k = TempFrame(v)
      OBVIOUS
    <3>3. PICK t : t = [u.frames EXCEPT ![k].temp = Last(v.stack)]
      OBVIOUS
    <3>4. w = [u EXCEPT !.frames = t]
      BY <2>1, <3>1, <3>2, <3>3
    <3>5. Alike(u, w, {"frames"}) /\ w.frames = t /\ u.frames = v.frames
      BY <2>2, <3>4 DEF Alike, Shape, Fields, SavedFields
    <3>6. SameFrames(v.frames, w.frames)
      <4>1. FramesOK(v.program, v.frames)
        BY DEF Sound
      <4> QED BY <3>3, <3>5, <4>1, TempStored
    <3>7. Quiet(v, w)
      BY <2>2, <3>5, <3>6 DEF Quiet, Kept, Alike, Fields, SavedFields
    <3> QED BY <1>2, <2>3, <3>5, <3>7
  <2>7. CASE i.op = "print"
    <3>1. w = [Popped(v) EXCEPT !.lineBuf = Append(@, ToString(Last(v.stack)))]
      BY <1>2, <1>6, <2>0, <2>7 DEF ExecuteValue
    <3>2. PICK y : y = Append(u.lineBuf, ToString(Last(v.stack)))
      OBVIOUS
    <3>3. w = [u EXCEPT !.lineBuf = y]
      BY <2>1, <3>1, <3>2
    <3>4. Alike(u, w, {"lineBuf"}) /\ w.lineBuf = y
      BY <2>2, <3>3 DEF Alike, Shape, Fields, SavedFields
    <3>5. Listed(w.lineBuf)
      BY <2>2, <3>2, <3>4, AppendListed DEF Quiet
    <3>6. Quiet(v, w)
      BY <2>2, <3>4, <3>5 DEF Quiet, Kept, Alike, Fields, SavedFields
    <3> QED BY <1>2, <2>3, <3>4, <3>6
  <2> QED BY <2>4, <2>5, <2>6, <2>7 DEF Taking
<1> QED BY <1>5, <1>6

LEMMA JoiningEffect ==
    ASSUME NEW v, Sound(v), NEW i, i.op \in Joining
    PROVE  ValueEffect(v, ExecuteValue(v, i), i.op)
<1>1. Depth(i.op, Len(v.stack)) = IF Len(v.stack) < 2 THEN 0 ELSE Len(v.stack) - 1
  BY DepthIs
<1>2. PICK w : w = ExecuteValue(v, i)
  OBVIOUS
<1>3. Quiet(v, v) /\ Offstage(v, v) /\ Len(v.stack) \in Nat
  BY QuietSelf, ListedIs DEF Sound
<1>4. CASE Len(v.stack) < 2
  <2>0. PICK u : u = [v EXCEPT !.stack = <<>>]
    OBVIOUS
  <2>1. PICK y : w = Throw(u, y)
    BY <1>2, <1>4, <2>0 DEF ExecuteValue, Joining
  <2>4. Alike(v, u, {"stack"}) /\ u.stack = <<>>
    BY <2>0 DEF Alike, Shape, Fields, SavedFields, Sound
  <2>5. Listed(u.stack) /\ Len(u.stack) = 0
    BY <2>4 DEF Listed, ToSet
  <2>6. Quiet(v, u)
    BY <1>3, <2>4, <2>5 DEF Quiet, Kept, Alike, Fields, SavedFields
  <2>2. Quiet(v, w) /\ Alike(u, w, {"thrown", "replayable"})
    BY <2>1, <2>6, ThrowQuiet
  <2>3. Offstage(v, w) /\ w.stack = u.stack
    BY <2>2, <2>4 DEF Alike, Fields, SavedFields, Offstage
  <2> QED BY <1>1, <1>2, <1>4, <2>2, <2>3, <2>5 DEF ValueEffect
<1>5. CASE ~(Len(v.stack) < 2)
  <2>1. PICK u : u = Popped(v)
    OBVIOUS
  <2>2. Quiet(v, u) /\ Alike(v, u, {"stack"}) /\ Len(u.stack) = Len(v.stack) - 1
    <3>1. v.stack # <<>>
      BY <1>5
    <3> QED BY <1>3, <2>1, <3>1, PopQuiet
  <2>3. PICK z : z = Popped(u)
    OBVIOUS
  <2>4. Quiet(v, z) /\ Alike(u, z, {"stack"}) /\ Len(z.stack) = Len(v.stack) - 2
    <3>1. u.stack # <<>>
      BY <1>3, <1>5, <2>2
    <3> QED BY <1>3, <1>5, <2>2, <2>3, <3>1, PopQuiet
  <2>5. PICK y : w = Push(z, y)
    BY <1>2, <1>5, <2>1, <2>3 DEF ExecuteValue, Joining
  <2>6. Quiet(v, w) /\ Alike(z, w, {"stack"}) /\ Len(w.stack) = Len(v.stack) - 1
    BY <1>3, <2>4, <2>5, PushQuiet
  <2>7. Offstage(v, w)
    BY <2>2, <2>4, <2>6 DEF Alike, Fields, SavedFields, Offstage
  <2> QED BY <1>1, <1>2, <1>5, <2>6, <2>7 DEF ValueEffect
<1> QED BY <1>4, <1>5

-----------------------------------------------------------------------------
(* The code.                                                               *)

LEMMA CodeIs ==
    ASSUME NEW p \in DOMAIN Program, NEW c \in DOMAIN Program[p].code
    PROVE  /\ Len(Program[p].code[c]) \in Nat
           /\ DOMAIN Program[p].code[c] = 1 .. Len(Program[p].code[c])
           /\ Balanced(Program[p].code[c])
           /\ \A k \in 1 .. Len(Program[p].code[c]) : WellPlaced(p, c, k)
  BY ProgramAssumption DEF WellFormed, IsSequence

LEMMA CountNext ==
    ASSUME NEW code, NEW ops, NEW k \in Nat \ {0}
    PROVE  LET C(m) == Cardinality({j \in 1 .. m - 1 : code[j].op \in ops})
           IN C(k) \in Nat /\ C(k + 1) = C(k) + (IF code[k].op \in ops THEN 1 ELSE 0)
<1> DEFINE S(m) == {j \in 1 .. m - 1 : code[j].op \in ops}
<1>1. IsFiniteSet(S(k))
  <2>1. IsFiniteSet(1 .. k - 1)
    BY FS_Interval
  <2> QED BY <2>1, FS_Subset
<1>2. k \notin S(k) /\ S(k + 1) = IF code[k].op \in ops THEN S(k) \cup {k} ELSE S(k)
  OBVIOUS
<1> HIDE DEF S
<1>3. Cardinality(S(k)) \in Nat
  BY <1>1, FS_CardinalityType
<1>4. Cardinality(S(k) \cup {k}) = Cardinality(S(k)) + 1
  BY <1>1, <1>2, FS_AddElement
<1>5. Cardinality(S(k + 1)) = Cardinality(S(k)) + (IF code[k].op \in ops THEN 1 ELSE 0)
  BY <1>2, <1>3, <1>4
<1> QED BY <1>3, <1>5 DEF S

LEMMA HeightOne ==
    ASSUME NEW code
    PROVE  Height(code, 1) = 0
<1>1. \A ops : {j \in 1 .. 1 - 1 : code[j].op \in ops} = {}
  OBVIOUS
<1>2. Cardinality({}) = 0
  BY FS_EmptySet
<1> QED BY <1>1, <1>2 DEF Height

\* An instruction leaves as much on the stack as is counted along the code, or less.
LEMMA HeightNext ==
    ASSUME NEW code, Balanced(code), NEW k \in DOMAIN code, k \in Nat \ {0}
    PROVE  /\ Height(code, k) \in Nat /\ Height(code, k + 1) \in Nat
           /\ \A n \in Nat : n <= Height(code, k) => Depth(code[k].op, n) <= Height(code, k + 1)
           /\ code[k].op \notin Pushing \cup Taking \cup Joining => Height(code, k + 1) = Height(code, k)
<1> DEFINE C(ops, m) == Cardinality({j \in 1 .. m - 1 : code[j].op \in ops})
           op == code[k].op
<1>1. \A m : Height(code, m) = C(Pushing, m) - C(Taking \cup Joining, m)
  BY DEF Height
<1>2. /\ C(Pushing, k) \in Nat
      /\ C(Pushing, k + 1) = C(Pushing, k) + (IF op \in Pushing THEN 1 ELSE 0)
  BY CountNext
<1>3. /\ C(Taking \cup Joining, k) \in Nat
      /\ C(Taking \cup Joining, k + 1)
            = C(Taking \cup Joining, k) + (IF op \in Taking \cup Joining THEN 1 ELSE 0)
  BY CountNext
<1> HIDE DEF C
<1>4. /\ Height(code, k) \in Int
      /\ Height(code, k + 1) = Height(code, k) + (IF op \in Pushing THEN 1 ELSE 0)
                               - (IF op \in Taking \cup Joining THEN 1 ELSE 0)
  BY <1>1, <1>2, <1>3
<1>5. /\ Height(code, k) >= 0 /\ (op \in Taking => Height(code, k) >= 1)
      /\ (op \in Joining => Height(code, k) >= 2)
  BY DEF Balanced
<1>6. /\ op \in Pushing => op \notin Taking \cup Joining
      /\ op \in Taking \cup Joining => op \notin Pushing
  BY DEF Pushing, Taking, Joining
<1> HIDE DEF op
<1>7. Height(code, k) \in Nat /\ Height(code, k + 1) \in Nat
  BY <1>4, <1>5, <1>6
<1>8. ASSUME NEW n \in Nat, n <= Height(code, k) PROVE Depth(op, n) <= Height(code, k + 1)
  <2>1. CASE op \in Pushing
    <3>1. Depth(op, n) = n + 1
      BY <2>1, DepthIs
    <3> QED BY <1>4, <1>6, <1>8, <2>1, <3>1
  <2>2. CASE op \in Taking
    <3>1. Depth(op, n) = IF n = 0 THEN 0 ELSE n - 1
      BY <2>2, DepthIs
    <3> QED BY <1>4, <1>5, <1>6, <1>8, <2>2, <3>1
  <2>3. CASE op \in Joining
    <3>1. Depth(op, n) = IF n < 2 THEN 0 ELSE n - 1
      BY <2>3, DepthIs
    <3> QED BY <1>4, <1>5, <1>6, <1>8, <2>3, <3>1
  <2>4. CASE op \notin Pushing \cup Taking \cup Joining
    <3>1. Depth(op, n) = n
      BY <2>4, DepthIs
    <3> QED BY <1>4, <1>8, <2>4, <3>1
  <2> QED BY <2>1, <2>2, <2>3, <2>4
<1>9. op \notin Pushing \cup Taking \cup Joining => Height(code, k + 1) = Height(code, k)
  BY <1>4
<1> QED BY <1>7, <1>8, <1>9 DEF op

LEMMA HeightNat ==
    ASSUME NEW p \in DOMAIN Program, NEW c \in DOMAIN Program[p].code,
           NEW k \in 1 .. Len(Program[p].code[c]) + 1
    PROVE  Height(Program[p].code[c], k) \in Nat
<1> DEFINE code == Program[p].code[c]
<1>1. Len(code) \in Nat /\ DOMAIN code = 1 .. Len(code) /\ Balanced(code)
  BY CodeIs
<1> HIDE DEF code
<1>2. CASE k = 1
  BY <1>2, HeightOne
<1>3. CASE k # 1
  <2>1. PICK j : j = k - 1
    OBVIOUS
  <2>2. j \in DOMAIN code /\ j \in Nat \ {0} /\ k = j + 1
    BY <1>1, <1>3, <2>1 DEF code
  <2>3. Height(code, j + 1) \in Nat
    BY <1>1, <2>2, HeightNext
  <2> QED BY <2>2, <2>3 DEF code
<1> QED BY <1>2, <1>3

\* An expression offers no choices.
LEMMA ExpressionCode ==
    ASSUME NEW p \in DOMAIN Program, NEW c \in Expressions(p), NEW k \in 1 .. Len(Program[p].code[c])
    PROVE  Program[p].code[c][k].op \notin {"choice", "present"}
<1>1. OnlyEvaluates(p)
  BY ProgramAssumption DEF WellFormed
<1>2. k \in DOMAIN Program[p].code[c]
  BY <1>1, CodeIs DEF OnlyEvaluates
<1> QED BY <1>1, <1>2 DEF OnlyEvaluates

-----------------------------------------------------------------------------
(* The frames.                                                             *)

LEMMA FramesAre ==
    ASSUME NEW p, NEW s, FramesOK(p, s)
    PROVE  /\ Len(s) \in Nat \ {0} /\ DOMAIN s = 1 .. Len(s) /\ Listed(s)
           /\ FrameOK(p, s[Len(s)])
<1>1. Len(s) \in Nat /\ DOMAIN s = 1 .. Len(s) /\ Listed(s) /\ Len(s) # 0
  BY ListedIs DEF FramesOK
<1> QED BY <1>1 DEF FramesOK

\* The flow is not above an expression.
LEMMA AboveExpression ==
    ASSUME NEW p, NEW s, FramesOK(p, s), NEW j \in DOMAIN s, s[j].kind = "eval",
           NEW k \in DOMAIN s, k >= j
    PROVE  s[k].kind # "flow"
<1>1. DOMAIN s = 1 .. Len(s)
  BY FramesAre
<1> QED BY <1>1 DEF FramesOK

LEMMA TopChanged ==
    ASSUME NEW p, NEW s, FramesOK(p, s), NEW x, FrameOK(p, x), x.kind = s[Len(s)].kind
    PROVE  LET t == [s EXCEPT ![Len(s)] = x]
           IN /\ FramesOK(p, t) /\ Len(t) = Len(s) /\ DOMAIN t = DOMAIN s
              /\ \A k \in 1 .. Len(s) : t[k] = IF k = Len(s) THEN x ELSE s[k]
<1>1. Len(s) \in Nat \ {0} /\ DOMAIN s = 1 .. Len(s) /\ Listed(s)
  BY FramesAre
<1>2. PICK t : t = [s EXCEPT ![Len(s)] = x]
  OBVIOUS
<1>3. /\ Listed(t) /\ Len(t) = Len(s) /\ DOMAIN t = 1 .. Len(s)
      /\ \A k \in 1 .. Len(s) : t[k] = IF k = Len(s) THEN x ELSE s[k]
  BY <1>1, <1>2, ReplaceListed
<1>4. t # <<>>
  BY <1>1, <1>3
<1>5. \A k \in DOMAIN t : FrameOK(p, t[k]) /\ (t[k].kind = "flow" <=> k = 1)
  BY <1>1, <1>3 DEF FramesOK
<1>7. FramesOK(p, t)
  BY <1>3, <1>4, <1>5 DEF FramesOK
<1> QED BY <1>1, <1>2, <1>3, <1>7

LEMMA FramePushed ==
    ASSUME NEW p, NEW s, FramesOK(p, s), NEW x, FrameOK(p, x), x.kind # "flow"
    PROVE  LET t == Append(s, x)
           IN /\ FramesOK(p, t) /\ Len(t) = Len(s) + 1 /\ t[Len(s) + 1] = x
              /\ \A k \in 1 .. Len(s) : t[k] = s[k]
<1>1. Len(s) \in Nat \ {0} /\ DOMAIN s = 1 .. Len(s) /\ Listed(s)
  BY FramesAre
<1>2. PICK t : t = Append(s, x)
  OBVIOUS
<1>3. /\ Listed(t) /\ Len(t) = Len(s) + 1 /\ DOMAIN t = 1 .. Len(s) + 1 /\ t # <<>>
      /\ t[Len(s) + 1] = x /\ \A k \in 1 .. Len(s) : t[k] = s[k]
  BY <1>1, <1>2, AppendListed
<1>5. ASSUME NEW k \in DOMAIN t PROVE FrameOK(p, t[k]) /\ (t[k].kind = "flow" <=> k = 1)
  <2>1. CASE k \in 1 .. Len(s)
    BY <1>1, <1>3, <2>1 DEF FramesOK
  <2>2. CASE k = Len(s) + 1
    BY <1>1, <1>3, <2>2
  <2> QED BY <1>1, <1>3, <2>1, <2>2
<1>7. FramesOK(p, t)
  BY <1>3, <1>5 DEF FramesOK
<1> QED BY <1>2, <1>3, <1>7

LEMMA FramePopped ==
    ASSUME NEW p, NEW s, FramesOK(p, s), s[Len(s)].kind # "flow"
    PROVE  LET t == Front(s)
           IN /\ FramesOK(p, t) /\ Len(t) = Len(s) - 1 /\ Len(s) > 1
              /\ \A k \in 1 .. Len(s) - 1 : t[k] = s[k]
<1>1. Len(s) \in Nat \ {0} /\ DOMAIN s = 1 .. Len(s) /\ Listed(s) /\ s # <<>>
  BY FramesAre DEF FramesOK
<1>2. Len(s) > 1
  BY <1>1 DEF FramesOK
<1>3. PICK t : t = Front(s)
  OBVIOUS
<1>4. /\ Listed(t) /\ Len(t) = Len(s) - 1 /\ DOMAIN t = 1 .. Len(s) - 1
      /\ \A k \in 1 .. Len(s) - 1 : t[k] = s[k]
  BY <1>1, <1>3, FrontListed
<1>5. t # <<>>
  BY <1>2, <1>1, <1>4, ListedIs
<1>6. \A k \in DOMAIN t : k \in DOMAIN s /\ t[k] = s[k]
  BY <1>1, <1>4
<1>7. FramesOK(p, t)
  BY <1>4, <1>5, <1>6 DEF FramesOK
<1> QED BY <1>2, <1>3, <1>4, <1>7

LEMMA FramesUnwound ==
    ASSUME NEW p, NEW s, FramesOK(p, s)
    PROVE  FramesOf(s, {"flow"}) = <<s[1]>> /\ FramesOK(p, <<s[1]>>) /\ s[1].kind = "flow"
<1>1. Len(s) \in Nat \ {0} /\ DOMAIN s = 1 .. Len(s) /\ Listed(s) /\ s # <<>>
  BY FramesAre DEF FramesOK
<1>2. \A k \in DOMAIN s : s[k].kind \in {"flow"} <=> k = 1
  BY DEF FramesOK
<1>3. FramesOf(s, {"flow"}) = <<s[1]>>
  BY <1>1, <1>2, FramesOfFirst
<1>4. FrameOK(p, s[1]) /\ s[1].kind = "flow"
  BY <1>1 DEF FramesOK
<1>5. Listed(<<s[1]>>)
  BY DEF Listed, ToSet
<1>6. FramesOK(p, <<s[1]>>)
  BY <1>4, <1>5 DEF FramesOK
<1> QED BY <1>3, <1>4, <1>6

-----------------------------------------------------------------------------
(* One instruction.                                                        *)

\* The machine has fetched instruction i, with v as the result, and does not stray.
Executing(v, i) ==
    /\ Sound(v) /\ v.status = "running"
    /\ Top(v).ip \in 2 .. Len(Code(v, Top(v).at)) + 1
    /\ i = Code(v, Top(v).at)[Top(v).ip - 1]
    /\ HasExpression(v) /\ Top(v).kind = "tunnel" => i.op \notin {"choice", "present", "end"}

\* What any instruction makes of v.  In an expression it stays there: the frames
\* below are as they were, nothing stops, nothing becomes pending.
Outcome(v, w) ==
    /\ Sound(w) /\ Kept(v, w)
    /\ \A c \in DOMAIN v.visits : w.visits[c] >= v.visits[c]
    /\ v.evals > 0 => w.suspended = v.suspended /\ w.stale = v.stale
    /\ HasExpression(v) =>
          /\ w.status = "running" /\ w.pending = v.pending
          /\ Len(w.frames) >= Len(v.frames) - 1
          /\ \A k \in 1 .. Len(v.frames) - 1 :
                /\ w.frames[k].at = v.frames[k].at /\ w.frames[k].ip = v.frames[k].ip
                /\ w.frames[k].kind = v.frames[k].kind
          /\ Len(v.frames) <= Len(w.frames) => w.frames[Len(v.frames)].kind = Top(v).kind

\* Outside of expressions, no more is on the stack than the code has put there.
Level(v) ==
    /\ ~HasExpression(v) /\ ~v.suspended
    /\ Len(v.stack) <= Height(Code(v, Top(v).at), Top(v).ip - 1)

LEMMA ExecutingIs ==
    ASSUME NEW v, NEW i, Executing(v, i)
    PROVE  LET p == v.program
               c == Top(v).at
               k == Top(v).ip - 1
           IN /\ p \in DOMAIN Program /\ FramesOK(p, v.frames) /\ FrameOK(p, Top(v))
              /\ Len(v.frames) \in Nat \ {0} /\ DOMAIN v.frames = 1 .. Len(v.frames)
              /\ c \in DOMAIN Program[p].code /\ Code(v, c) = Program[p].code[c]
              /\ Len(Code(v, c)) \in Nat /\ DOMAIN Code(v, c) = 1 .. Len(Code(v, c))
              /\ k \in 1 .. Len(Code(v, c)) /\ Top(v).ip = k + 1 /\ i = Program[p].code[c][k]
              /\ Balanced(Code(v, c)) /\ WellPlaced(p, c, k)
<1>1. v.program \in DOMAIN Program /\ FramesOK(v.program, v.frames)
  BY DEF Executing, Sound
<1>2. /\ Len(v.frames) \in Nat \ {0} /\ DOMAIN v.frames = 1 .. Len(v.frames)
      /\ FrameOK(v.program, Top(v))
  BY <1>1, FramesAre DEF Top
<1>3. PICK c : c = Top(v).at
  OBVIOUS
<1>4. c \in DOMAIN Program[v.program].code
  BY <1>2, <1>3 DEF FrameOK
<1>5. /\ Len(Code(v, c)) \in Nat /\ DOMAIN Code(v, c) = 1 .. Len(Code(v, c)) /\ Balanced(Code(v, c))
      /\ \A k \in 1 .. Len(Code(v, c)) : WellPlaced(v.program, c, k)
  BY <1>1, <1>4, CodeIs DEF Code
<1>6. PICK ip : ip = Top(v).ip
  OBVIOUS
<1>7. ip \in 2 .. Len(Code(v, c)) + 1 /\ i = Code(v, c)[ip - 1]
  BY <1>3, <1>6 DEF Executing
<1>8. ip - 1 \in 1 .. Len(Code(v, c)) /\ ip = (ip - 1) + 1
  BY <1>5, <1>7
<1>9. i = Program[v.program].code[c][ip - 1] /\ Code(v, c) = Program[v.program].code[c]
  BY <1>7 DEF Code
<1> QED BY <1>1, <1>2, <1>3, <1>4, <1>5, <1>6, <1>8, <1>9

\* In an expression nothing is presented and nothing ends.
LEMMA InExpression ==
    ASSUME NEW v, NEW i, Executing(v, i), HasExpression(v)
    PROVE  /\ Top(v).kind # "flow" /\ i.op \notin {"choice", "present"}
           /\ Top(v).kind # "eval" => i.op # "end"
<1> DEFINE p == v.program
<1>1. /\ p \in DOMAIN Program /\ FramesOK(p, v.frames) /\ FrameOK(p, Top(v))
      /\ Len(v.frames) \in Nat \ {0} /\ DOMAIN v.frames = 1 .. Len(v.frames)
      /\ Top(v).ip - 1 \in 1 .. Len(Code(v, Top(v).at)) /\ i = Program[p].code[Top(v).at][Top(v).ip - 1]
      /\ Code(v, Top(v).at) = Program[p].code[Top(v).at]
  BY ExecutingIs
<1>2. Top(v).kind # "flow"
  <2>1. PICK j \in DOMAIN v.frames : v.frames[j].kind = "eval"
    BY DEF HasExpression
  <2>2. Len(v.frames) \in DOMAIN v.frames /\ Len(v.frames) >= j
    BY <1>1
  <2>3. v.frames[Len(v.frames)].kind # "flow"
    BY <1>1, <2>1, <2>2, AboveExpression
  <2> QED BY <2>3 DEF Top
<1>3. CASE Top(v).kind = "eval"
  <2>1. Top(v).at \in Expressions(p)
    BY <1>1, <1>3 DEF FrameOK
  <2>2. PICK c, k : c = Top(v).at /\ k = Top(v).ip - 1
    OBVIOUS
  <2>3. k \in 1 .. Len(Program[p].code[c]) /\ i = Program[p].code[c][k] /\ c \in Expressions(p)
    BY <1>1, <2>1, <2>2
  <2>4. i.op \notin {"choice", "present"}
    BY <1>1, <2>3, ExpressionCode
  <2> QED BY <1>2, <1>3, <2>4
<1>4. CASE Top(v).kind = "tunnel"
  BY <1>2, <1>4 DEF Executing
<1> QED BY <1>1, <1>2, <1>3, <1>4 DEF FrameOK

LEMMA SoundIf ==
    ASSUME NEW v, Sound(v), v.status = "running", NEW u, Quiet(v, u),
           NEW w, Alike(u, w, {"frames"}), FramesOK(v.program, w.frames)
    PROVE  /\ Sound(w) /\ Kept(v, w) /\ w.status = "running"
           /\ \A c \in DOMAIN v.visits : w.visits[c] >= v.visits[c]
<1>1. \A f \in Fields \ {"frames"} : w[f] = u[f]
  BY DEF Alike
<1>2. /\ w.program = u.program /\ w.seed = u.seed /\ w.prng = u.prng /\ w.visits = u.visits
      /\ w.alts = u.alts /\ w.pending = u.pending /\ w.views = u.views /\ w.history = u.history
      /\ w.turn = u.turn /\ w.stack = u.stack /\ w.lineBuf = u.lineBuf /\ w.transcript = u.transcript
      /\ w.steps = u.steps /\ w.evals = u.evals /\ w.status = u.status /\ w.suspended = u.suspended
      /\ w.intact = u.intact /\ w.stale = u.stale /\ w.astray = u.astray
  BY <1>1 DEF Fields, SavedFields
<1>3. /\ u.program = v.program /\ u.seed = v.seed /\ u.views = v.views /\ u.history = v.history
      /\ u.turn = v.turn /\ u.steps = v.steps /\ u.evals = v.evals /\ u.intact = v.intact
      /\ u.status = "running"
  BY DEF Quiet, Kept
<1>4. v.views = <<>>
  BY DEF Sound
<1>5. ViewsOK(w.views, w.pending)
  BY <1>2, <1>3, <1>4 DEF ViewsOK, Listed
<1>6. Shape(w)
  BY DEF Alike
<1>7. Sound(w)
  BY <1>2, <1>3, <1>4, <1>5, <1>6 DEF Sound, Quiet
<1>8. Kept(v, w)
  BY <1>2, <1>3 DEF Kept
<1> QED BY <1>2, <1>3, <1>7, <1>8 DEF Quiet

\* An instruction that lets the frames stand where they are.
LEMMA QuietOutcome ==
    ASSUME NEW v, NEW i, Executing(v, i), NEW w, Quiet(v, w),
           v.evals > 0 => w.suspended = v.suspended /\ w.stale = v.stale,
           HasExpression(v) => w.pending = v.pending
    PROVE  /\ Outcome(v, w) /\ w.status = "running"
           /\ Level(v) /\ Owed(w) <= Depth(i.op, Len(v.stack)) => Healthy(w)
<1> DEFINE p == v.program
           n == Len(v.frames)
           c == Top(v).at
           k == Top(v).ip - 1
<1>1. /\ p \in DOMAIN Program /\ FramesOK(p, v.frames)
      /\ n \in Nat \ {0} /\ DOMAIN v.frames = 1 .. n
      /\ Code(v, c) = Program[p].code[c] /\ DOMAIN Code(v, c) = 1 .. Len(Code(v, c))
      /\ k \in 1 .. Len(Code(v, c)) /\ Top(v).ip = k + 1 /\ i = Code(v, c)[k]
      /\ Balanced(Code(v, c))
  BY ExecutingIs
<1>2. SameFrames(v.frames, w.frames) /\ Shape(w)
  BY DEF Quiet
<1>3. FramesOK(p, w.frames)
  BY <1>1, <1>2, SameFramesOK
<1>4. Alike(w, w, {"frames"})
  BY <1>2 DEF Alike
<1>5. /\ Sound(w) /\ Kept(v, w) /\ w.status = "running"
      /\ \A d \in DOMAIN v.visits : w.visits[d] >= v.visits[d]
  <2>1. Sound(v) /\ v.status = "running"
    BY DEF Executing
  <2> QED BY <1>3, <1>4, <2>1, SoundIf
<1>6. /\ Len(w.frames) = n /\ DOMAIN w.frames = 1 .. n
      /\ \A j \in 1 .. n :
            /\ w.frames[j].at = v.frames[j].at /\ w.frames[j].ip = v.frames[j].ip
            /\ w.frames[j].kind = v.frames[j].kind
  BY <1>1, <1>2, ListedIs DEF SameFrames
<1>7. Outcome(v, w)
  <2>1. n <= n /\ w.frames[n].kind = Top(v).kind
    <3>1. n \in Nat /\ n \in 1 .. n
      BY <1>1
    <3>2. Top(v) = v.frames[n]
      BY DEF Top
    <3> HIDE DEF n, p
    <3>3. w.frames[n].kind = v.frames[n].kind
      BY <1>6, <3>1
    <3> QED BY <3>1, <3>2, <3>3
  <2>2. n \in Nat /\ Len(w.frames) = n
    BY <1>1, <1>6
  <2> QED BY <1>5, <1>6, <2>1, <2>2 DEF Outcome
<1>8. ASSUME Level(v), Owed(w) <= Depth(i.op, Len(v.stack))
      PROVE  Healthy(w)
  <2>1. ~HasExpression(w)
    BY <1>1, <1>6, <1>8 DEF Level, HasExpression
  <2>2. Top(w).at = c /\ Top(w).ip = k + 1 /\ Code(w, c) = Code(v, c)
    <3>1. w.program = v.program
      BY <1>5 DEF Kept
    <3>2. Top(w) = w.frames[n] /\ Top(v) = v.frames[n]
      BY <1>6 DEF Top
    <3>4. n \in 1 .. n
      BY <1>1
    <3>3. Top(w).at = Top(v).at /\ Top(w).ip = Top(v).ip
      BY <1>6, <3>2, <3>4
    <3> QED BY <1>1, <3>1, <3>3 DEF Code
  <2>3. Len(v.stack) \in Nat /\ Len(v.stack) <= Height(Code(v, c), k)
    BY <1>8, ListedIs DEF Level, Executing, Sound
  <2>4. Depth(i.op, Len(v.stack)) <= Height(Code(v, c), k + 1)
    <3>1. k \in DOMAIN Code(v, c) /\ k \in Nat \ {0}
      BY <1>1
    <3> QED BY <1>1, <2>3, <3>1, HeightNext
  <2>5. Len(w.stack) \in Nat /\ Height(Code(v, c), k + 1) \in Nat
    <3>1. k \in DOMAIN Code(v, c) /\ k \in Nat \ {0}
      BY <1>1
    <3> QED BY <1>1, <1>5, <3>1, HeightNext, ListedIs DEF Sound
  <2>6. Depth(i.op, Len(v.stack)) \in Nat
    BY <2>3, DepthIs DEF Depth
  <2>7. Owed(w) <= Height(Code(w, Top(w).at), Top(w).ip)
    <3>1. PICK h : h = Height(Code(v, c), k + 1)
      OBVIOUS
    <3>2. h = Height(Code(w, Top(w).at), Top(w).ip)
      BY <2>2, <3>1
    <3>3. PICK a, d : a = Owed(w) /\ d = Depth(i.op, Len(v.stack))
      OBVIOUS
    <3>4. a \in Nat /\ d \in Nat /\ h \in Nat /\ a <= d /\ d <= h
      <4> HIDE DEF c, k, n
      <4>1. d \in Nat /\ a <= d
        BY <1>8, <2>6, <3>3
      <4>2. h \in Nat /\ d <= h
        BY <2>4, <2>5, <3>1, <3>3
      <4>3. a \in Nat
        BY <2>5, <3>3 DEF Owed
      <4> QED BY <4>1, <4>2, <4>3
    <3>5. a <= h
      BY <3>4
    <3> QED BY <3>2, <3>3, <3>5
  <2> QED BY <1>5, <2>1, <2>7 DEF Healthy
<1> QED BY <1>5, <1>7, <1>8

-----------------------------------------------------------------------------
(* Alternatives.                                                           *)

\* Permutation before its first draw.
Unshuffled(s, n) == [prng |-> s, order |-> [x \in 1 .. n |-> x]]

\* One draw of Permutation: one of the first places goes to place n + 1 - k.
Swapped(n, r, k) ==
    LET i == n + 1 - k
        p == PrngNext(r.prng)
        j == 1 + PrngInt(p, i)
        o == r.order
    IN [prng |-> p,
        order |-> [x \in 1 .. n |-> IF x = i THEN o[j] ELSE IF x = j THEN o[i] ELSE o[x]]]

\* Permutation, draw by draw.
PermutationRun(s, n, N, f) ==
    /\ f[0] = Unshuffled(s, n) /\ Permutation(s, n) = f[N]
    /\ \A k \in 1 .. N : f[k] = Swapped(n, f[k - 1], k)

LEMMA PermutationUnfolds ==
    ASSUME NEW s, NEW n, NEW N \in Nat, N = n - 1
    PROVE  \E f : PermutationRun(s, n, N, f)
<1> DEFINE Run(f, m) == f = [k \in 0 .. m |-> IF k = 0 THEN Unshuffled(s, n) ELSE Swapped(n, f[k - 1], k)]
           K == {m \in Nat : \E f : Run(f, m)}
           F == CHOOSE f : Run(f, N)
<1>1. ASSUME NEW M \in Nat PROVE \E f : Run(f, M)
  <2>1. 0 \in K
    <3>1. Run([k \in 0 .. 0 |-> Unshuffled(s, n)], 0)
      OBVIOUS
    <3> QED BY <3>1
  <2>2. ASSUME NEW m \in 1 .. M, m - 1 \in K PROVE m \in K
    <3>1. PICK f : Run(f, m - 1)
      BY <2>2
    <3>2. PICK g : g = [k \in 0 .. m |-> IF k = m THEN Swapped(n, f[m - 1], m) ELSE f[k]]
      OBVIOUS
    <3>3. ASSUME NEW k \in 0 .. m PROVE g[k] = IF k = 0 THEN Unshuffled(s, n) ELSE Swapped(n, g[k - 1], k)
      <4>1. k # 0 => g[k - 1] = f[k - 1]
        BY <3>2
      <4>2. CASE k = m
        BY <3>2, <4>1, <4>2
      <4>3. CASE k \in 0 .. m - 1
        BY <3>1, <3>2, <4>1, <4>3
      <4> QED BY <4>2, <4>3
    <3>4. Run(g, m)
      BY <3>2, <3>3
    <3> QED BY <3>4
  <2> HIDE DEF K
  <2>3. M \in K
    BY <2>1, <2>2, Upto
  <2> QED BY <2>3 DEF K
<1>2. Run(F, N)
  BY <1>1
<1>3. Permutation(s, n) = F[N]
  BY DEF Permutation, Swapped, Unshuffled
<1> HIDE DEF F
<1>4. F[0] = Unshuffled(s, n)
  BY <1>2
<1>5. \A k \in 1 .. N : F[k] = Swapped(n, F[k - 1], k)
  BY <1>2
<1>6. PermutationRun(s, n, N, F)
  BY <1>3, <1>4, <1>5 DEF PermutationRun
<1> QED BY <1>6

\* A number below n.
LEMMA PrngBelow ==
    ASSUME NEW s \in Nat, NEW n \in Nat \ {0}
    PROVE  PrngInt(s, n) \in 0 .. n - 1
<1>1. PICK m : m = s * s + (s \div 2)
  OBVIOUS
<1>2. m \in Int
  BY <1>1
<1>3. m % n \in 0 .. n - 1
  BY <1>2
<1> QED BY <1>1, <1>3 DEF PrngInt

\* An order of the branches, none twice.
Ordered(n, o) ==
    /\ o = [x \in 1 .. n |-> o[x]] /\ \A x \in 1 .. n : o[x] \in 1 .. n
    /\ \A x, y \in 1 .. n : o[x] = o[y] => x = y

LEMMA PermutationIs ==
    ASSUME NEW s \in 0 .. PrngStates - 1, NEW n \in Nat \ {0}
    PROVE  Permutation(s, n).prng \in 0 .. PrngStates - 1 /\ Ordered(n, Permutation(s, n).order)
<1>0. PICK N : N = n - 1
  OBVIOUS
<1>2. N \in Nat
  BY <1>0
<1>1. PICK f : PermutationRun(s, n, N, f)
  BY <1>0, <1>2, PermutationUnfolds
<1>3. /\ f[0] = Unshuffled(s, n) /\ Permutation(s, n) = f[N]
      /\ \A k \in 1 .. N : f[k] = Swapped(n, f[k - 1], k)
  BY <1>1 DEF PermutationRun
<1> DEFINE K == {k \in 0 .. N : f[k].prng \in 0 .. PrngStates - 1 /\ Ordered(n, f[k].order)}
<1>4. 0 \in K
  <2>1. f[0].prng = s /\ f[0].order = [x \in 1 .. n |-> x]
    BY <1>3 DEF Unshuffled
  <2>2. Ordered(n, [x \in 1 .. n |-> x])
    BY DEF Ordered
  <2> QED BY <1>2, <2>1, <2>2
<1>5. ASSUME NEW k \in 1 .. N, k - 1 \in K PROVE k \in K
  <2>1. PICK r : r = f[k - 1]
    OBVIOUS
  <2>2. r.prng \in 0 .. PrngStates - 1 /\ Ordered(n, r.order)
    BY <1>5, <2>1
  <2>3. PICK i, p, j, o : i = n + 1 - k /\ p = PrngNext(r.prng) /\ j = 1 + PrngInt(p, i) /\ o = r.order
    OBVIOUS
  <2>4. p \in 0 .. PrngStates - 1
    BY <2>2, <2>3, PrngRange
  <2>5. i \in 1 .. n /\ j \in 1 .. n
    <3>1. i \in 2 .. n
      BY <1>0, <2>3
    <3>2. p \in Nat /\ i \in Nat \ {0}
      BY <2>4, <3>1
    <3>3. PrngInt(p, i) \in 0 .. i - 1
      BY <3>2, PrngBelow
    <3> QED BY <2>3, <3>1, <3>3
  <2>6. f[k] = [prng |-> p, order |-> [x \in 1 .. n |-> IF x = i THEN o[j] ELSE IF x = j THEN o[i] ELSE o[x]]]
    BY <1>3, <2>1, <2>3 DEF Swapped
  <2>7. PICK q : q = f[k].order
    OBVIOUS
  <2>8. q = [x \in 1 .. n |-> q[x]]
        /\ \A x \in 1 .. n : q[x] = IF x = i THEN o[j] ELSE IF x = j THEN o[i] ELSE o[x]
    BY <2>6, <2>7
  <2>9. \A x \in 1 .. n : o[x] \in 1 .. n
    BY <2>2, <2>3 DEF Ordered
  <2>10. \A x, y \in 1 .. n : o[x] = o[y] => x = y
    BY <2>2, <2>3 DEF Ordered
  <2>11. Ordered(n, q)
    BY <2>5, <2>8, <2>9, <2>10 DEF Ordered
  <2> QED BY <2>4, <2>6, <2>7, <2>11
<1>6. N \in K
  <2> HIDE DEF K
  <2> QED BY <1>2, <1>4, <1>5, Upto
<1> QED BY <1>3, <1>6

\* The instruction of an alternative.
IsAlt(p, i) ==
    \E c \in DOMAIN Program[p].code : \E k \in DOMAIN Program[p].code[c] :
        i = Program[p].code[c][k] /\ i.op = "alt"

LEMMA DeckTail ==
    ASSUME NEW p, NEW id, NEW deck, DeckOK(p, id, deck), deck # <<>>
    PROVE  DeckOK(p, id, Tail(deck)) /\ Head(deck) = deck[1] /\ 1 \in DOMAIN deck
<1>1. Listed(deck) /\ Len(deck) \in Nat /\ DOMAIN deck = 1 .. Len(deck) /\ Len(deck) # 0
  BY ListedIs DEF DeckOK
<1>2. deck \in Seq(ToSet(deck))
  BY <1>1 DEF Listed
<1>3. /\ Tail(deck) \in Seq(ToSet(deck)) /\ Len(Tail(deck)) = Len(deck) - 1
      /\ \A k \in 1 .. Len(deck) - 1 : Tail(deck)[k] = deck[k + 1]
      /\ Head(deck) = deck[1]
  BY <1>1, <1>2
<1>4. Listed(Tail(deck)) /\ DOMAIN Tail(deck) = 1 .. Len(deck) - 1
  BY <1>3, ListedIs
<1>5. \A k \in DOMAIN Tail(deck) : k + 1 \in DOMAIN deck /\ Tail(deck)[k] = deck[k + 1] /\ k \in Int
  BY <1>1, <1>3, <1>4
<1>6. \A j, k \in DOMAIN Tail(deck) : Tail(deck)[j] = Tail(deck)[k] => j = k
  <2> SUFFICES ASSUME NEW j \in DOMAIN Tail(deck), NEW k \in DOMAIN Tail(deck),
                      Tail(deck)[j] = Tail(deck)[k]
               PROVE  j = k
    OBVIOUS
  <2>1. j + 1 = k + 1
    BY <1>5 DEF DeckOK
  <2> QED BY <1>5, <2>1
<1>7. ASSUME NEW c \in DOMAIN Program[p].code, NEW k \in DOMAIN Program[p].code[c],
             Program[p].code[c][k].op = "alt" /\ Program[p].code[c][k].id = id,
             NEW j \in DOMAIN Tail(deck)
      PROVE  Tail(deck)[j] \in DOMAIN Program[p].code[c][k].branches
  BY <1>5, <1>7 DEF DeckOK
<1>8. DeckOK(p, id, Tail(deck))
  BY <1>4, <1>6, <1>7 DEF DeckOK
<1> QED BY <1>1, <1>3, <1>8

\* The count or the deck of an alternative changes.
LEMMA CountedIs ==
    ASSUME NEW p, NEW v, Shape(v), AltsOK(p, v.alts), NEW id, NEW alt, alt.count \in Nat,
           NEW deck, DeckOK(p, id, deck)
    PROVE  LET w == Counted(v, id, alt, deck) IN Alike(v, w, {"alts"}) /\ AltsOK(p, w.alts)
<1>1. PICK a : a = [d \in DOMAIN v.alts \cup {id} |->
                        IF d = id THEN [count |-> alt.count + 1, deck |-> deck] ELSE v.alts[d]]
  OBVIOUS
<1>2. Counted(v, id, alt, deck) = [v EXCEPT !.alts = a]
  BY <1>1 DEF Counted
<1>3. Alike(v, Counted(v, id, alt, deck), {"alts"}) /\ Counted(v, id, alt, deck).alts = a
  BY <1>2 DEF Alike, Shape, Fields, SavedFields
<1>4. /\ DOMAIN a = {id} \cup DOMAIN v.alts /\ a[id] = [count |-> alt.count + 1, deck |-> deck]
      /\ \A d \in DOMAIN v.alts \ {id} : a[d] = v.alts[d]
  <2>1. PICK x : x = [count |-> alt.count + 1, deck |-> deck]
    OBVIOUS
  <2>2. a = [d \in DOMAIN v.alts \cup {id} |-> IF d = id THEN x ELSE v.alts[d]]
    BY <1>1, <2>1
  <2> QED BY <2>1, <2>2
<1>5. AltsOK(p, a)
  BY <1>4 DEF AltsOK
<1> QED BY <1>3, <1>5

\* An alternative takes one of its branches.
LEMMA AlternativeIs ==
    ASSUME NEW v, Sound(v), NEW i, IsAlt(v.program, i), Len(i.branches) \in Nat \ {0},
           DOMAIN i.branches = 1 .. Len(i.branches), i.flavor \in {"cycle", "sequence", "shuffle"}
    PROVE  LET r == Alternative(v, i.id, i.flavor, Len(i.branches))
           IN /\ r.branch \in 1 .. Len(i.branches) /\ Alike(v, r.vm, {"alts", "prng"})
              /\ AltsOK(v.program, r.vm.alts) /\ r.vm.prng \in 0 .. PrngStates - 1
<1>1. PICK n, alt, id : /\ n = Len(i.branches) /\ id = i.id
                        /\ alt = IF i.id \in DOMAIN v.alts THEN v.alts[i.id] ELSE [count |-> 0, deck |-> <<>>]
  OBVIOUS
<1>2. PICK r : r = AlternativeOf(v, id, i.flavor, n, alt)
  OBVIOUS
<1>3. r = Alternative(v, i.id, i.flavor, Len(i.branches))
  BY <1>1, <1>2 DEF Alternative
<1>4. Shape(v) /\ AltsOK(v.program, v.alts) /\ v.prng \in 0 .. PrngStates - 1 /\ n \in Nat \ {0}
  BY <1>1 DEF Sound
<1>5. alt.count \in Nat /\ DeckOK(v.program, id, alt.deck)
  <2>1. CASE id \in DOMAIN v.alts
    BY <1>1, <1>4, <2>1 DEF AltsOK
  <2>2. CASE id \notin DOMAIN v.alts
    <3>1. alt = [count |-> 0, deck |-> <<>>]
      BY <1>1, <2>2
    <3>2. Listed(<<>>) /\ DOMAIN <<>> = {}
      BY DEF Listed
    <3>3. DeckOK(v.program, id, <<>>)
      BY <3>2 DEF DeckOK
    <3> QED BY <3>1, <3>3
  <2> QED BY <2>1, <2>2
\* A deck that is dealt anew.
<1>6. ASSUME NEW o, Ordered(n, o)
      PROVE  DeckOK(v.program, id, o) /\ o # <<>>
  <2>1. Listed(o) /\ Len(o) = n /\ DOMAIN o = 1 .. n
    BY <1>4, <1>6, ListedIs DEF Ordered
  <2>2. ASSUME NEW c \in DOMAIN Program[v.program].code, NEW k \in DOMAIN Program[v.program].code[c],
               Program[v.program].code[c][k].op = "alt" /\ Program[v.program].code[c][k].id = id
        PROVE  1 .. n = DOMAIN Program[v.program].code[c][k].branches
    <3>1. PICK d \in DOMAIN Program[v.program].code : \E j \in DOMAIN Program[v.program].code[d] :
              i = Program[v.program].code[d][j] /\ i.op = "alt"
      BY DEF IsAlt
    <3>2. PICK j \in DOMAIN Program[v.program].code[d] : i = Program[v.program].code[d][j] /\ i.op = "alt"
      BY <3>1
    <3>3. v.program \in DOMAIN Program
      BY DEF Sound
    <3>4. OneAlternative(v.program) /\ WellPlaced(v.program, c, k)
      BY <3>3, ProgramAssumption DEF WellFormed
    <3>7. /\ Program[v.program].code[c][k].op = "alt" /\ Program[v.program].code[d][j].op = "alt"
          /\ Program[v.program].code[c][k].id = Program[v.program].code[d][j].id
          /\ Len(Program[v.program].code[d][j].branches) = n
      BY <1>1, <2>2, <3>2
    <3>5. Len(Program[v.program].code[c][k].branches) = n
      BY <3>4, <3>7 DEF OneAlternative
    <3>6. IsSequence(Program[v.program].code[c][k].branches)
      BY <2>2, <3>4 DEF WellPlaced
    <3> QED BY <3>5, <3>6 DEF IsSequence
  <2>3. \A j, k \in DOMAIN o : o[j] = o[k] => j = k
    BY <1>6, <2>1 DEF Ordered
  <2>4. \A j \in DOMAIN o : o[j] \in 1 .. n
    BY <1>6, <2>1 DEF Ordered
  <2>5. o # <<>>
    BY <1>4, <2>1, ListedIs
  <2> QED BY <2>1, <2>2, <2>3, <2>4, <2>5 DEF DeckOK
\* A branch of a deck.
<1>7. ASSUME NEW deck, DeckOK(v.program, id, deck), 1 \in DOMAIN deck
      PROVE  deck[1] \in 1 .. n
  <2>1. PICK c \in DOMAIN Program[v.program].code : \E j \in DOMAIN Program[v.program].code[c] :
            i = Program[v.program].code[c][j] /\ i.op = "alt"
    BY DEF IsAlt
  <2>2. PICK j \in DOMAIN Program[v.program].code[c] : i = Program[v.program].code[c][j] /\ i.op = "alt"
    BY <2>1
  <2> QED BY <1>1, <1>7, <2>2 DEF DeckOK
<1>8. ASSUME NEW u, Shape(u), Alike(v, u, {"prng"}), u.prng \in 0 .. PrngStates - 1,
             NEW deck, DeckOK(v.program, id, deck)
      PROVE  /\ Alike(v, Counted(u, id, alt, deck), {"alts", "prng"})
             /\ AltsOK(v.program, Counted(u, id, alt, deck).alts)
             /\ Counted(u, id, alt, deck).prng \in 0 .. PrngStates - 1
  <2>1. u.alts = v.alts
    BY <1>8 DEF Alike, Fields, SavedFields
  <2>2. Alike(u, Counted(u, id, alt, deck), {"alts"}) /\ AltsOK(v.program, Counted(u, id, alt, deck).alts)
    BY <1>4, <1>5, <1>8, <2>1, CountedIs
  <2> QED BY <1>8, <2>2 DEF Alike, Fields, SavedFields
<1>9. Alike(v, v, {"prng"})
  BY <1>4 DEF Alike
<1>10. CASE i.flavor \in {"cycle", "sequence"}
  <2>1. r.vm = Counted(v, id, alt, alt.deck) /\ r.branch \in 1 .. n
    <3>1. alt.count % n \in 0 .. n - 1
      BY <1>4, <1>5
    <3>2. CASE i.flavor = "cycle"
      BY <1>2, <1>4, <3>1, <3>2 DEF AlternativeOf
    <3>3. CASE i.flavor = "sequence"
      BY <1>2, <1>4, <1>5, <3>3 DEF AlternativeOf
    <3> QED BY <1>10, <3>2, <3>3
  <2> QED BY <1>1, <1>3, <1>4, <1>5, <1>8, <1>9, <2>1
<1>11. CASE i.flavor = "shuffle" /\ alt.deck # <<>>
  <2>1. r = [vm |-> Counted(v, id, alt, Tail(alt.deck)), branch |-> Head(alt.deck)]
    BY <1>2, <1>11 DEF AlternativeOf, Drawn
  <2>2. DeckOK(v.program, id, Tail(alt.deck)) /\ Head(alt.deck) \in 1 .. n
    BY <1>5, <1>7, <1>11, DeckTail
  <2> QED BY <1>1, <1>3, <1>4, <1>8, <1>9, <2>1, <2>2
<1>12. CASE i.flavor = "shuffle" /\ alt.deck = <<>>
  <2>1. PICK fresh : fresh = Permutation(v.prng, n)
    OBVIOUS
  <2>2. PICK u : u = [v EXCEPT !.prng = fresh.prng]
    OBVIOUS
  <2>3. r = [vm |-> Counted(u, id, alt, Tail(fresh.order)), branch |-> Head(fresh.order)]
    BY <1>2, <1>12, <2>1, <2>2 DEF AlternativeOf, Dealt, Drawn
  <2>4. fresh.prng \in 0 .. PrngStates - 1 /\ Ordered(n, fresh.order)
    BY <1>4, <2>1, PermutationIs
  <2>5. DeckOK(v.program, id, fresh.order) /\ fresh.order # <<>>
    BY <1>6, <2>4
  <2>6. DeckOK(v.program, id, Tail(fresh.order)) /\ Head(fresh.order) \in 1 .. n
    BY <1>7, <2>5, DeckTail
  <2>7. Shape(u) /\ Alike(v, u, {"prng"}) /\ u.prng = fresh.prng
    BY <1>4, <2>2 DEF Alike, Shape, Fields, SavedFields
  <2> QED BY <1>1, <1>3, <1>8, <2>3, <2>4, <2>6, <2>7
<1> QED BY <1>10, <1>11, <1>12

-----------------------------------------------------------------------------
(* The instructions that move the flow.                                    *)

\* The frame at the top goes elsewhere.
LEMMA MovedOutcome ==
    ASSUME NEW v, NEW i, Executing(v, i), NEW u, Quiet(v, u), u.frames = v.frames,
           u.suspended = v.suspended /\ u.stale = v.stale, u.pending = v.pending,
           NEW x, FrameOK(v.program, x), x.kind = Top(v).kind
    PROVE  LET w == WithTop(u, x)
           IN /\ Outcome(v, w) /\ w.status = "running"
              /\ Level(v) /\ Len(u.stack) <= Height(Code(v, x.at), x.ip) => Healthy(w)
<1> DEFINE p == v.program
           n == Len(v.frames)
<1>1. /\ FramesOK(p, v.frames) /\ n \in Nat \ {0} /\ DOMAIN v.frames = 1 .. n
      /\ Sound(v) /\ v.status = "running"
  BY ExecutingIs DEF Executing
<1>2. PICK t : t = [v.frames EXCEPT ![n] = x]
  OBVIOUS
<1>3. PICK w : w = WithTop(u, x)
  OBVIOUS
<1>4. Alike(u, w, {"frames"}) /\ w.frames = t
  <2>1. w = [u EXCEPT !.frames = t]
    BY <1>2, <1>3 DEF WithTop
  <2> QED BY <2>1 DEF Alike, Shape, Fields, SavedFields, Quiet
<1>5. /\ FramesOK(p, t) /\ Len(t) = n /\ DOMAIN t = 1 .. n
      /\ \A k \in 1 .. n : t[k] = IF k = n THEN x ELSE v.frames[k]
  BY <1>1, <1>2, TopChanged DEF Top
<1>6. /\ Sound(w) /\ Kept(v, w) /\ w.status = "running"
      /\ \A c \in DOMAIN v.visits : w.visits[c] >= v.visits[c]
  BY <1>1, <1>4, <1>5, SoundIf
<1>7. w.suspended = v.suspended /\ w.stale = v.stale /\ w.pending = v.pending /\ w.stack = u.stack
  BY <1>4 DEF Alike, Fields, SavedFields
<1>8. Outcome(v, w)
  <2>1. n \in Nat /\ Len(w.frames) = n /\ n \in 1 .. n /\ t[n] = x /\ Top(v) = v.frames[n]
    BY <1>1, <1>4, <1>5 DEF Top
  <2>2. \A k \in 1 .. n - 1 : w.frames[k] = v.frames[k]
    BY <1>1, <1>4, <1>5
  <2>3. w.frames[n].kind = Top(v).kind
    BY <1>4, <2>1
  <2> QED BY <1>6, <1>7, <2>1, <2>2, <2>3 DEF Outcome
<1>9. ASSUME Level(v), Len(u.stack) <= Height(Code(v, x.at), x.ip) PROVE Healthy(w)
  <2>1. ~HasExpression(w)
    <3>1. \A k \in 1 .. n : v.frames[k].kind # "eval"
      BY <1>1, <1>9 DEF Level, HasExpression
    <3>2. \A k \in 1 .. n : t[k].kind # "eval"
      BY <1>1, <1>5, <3>1 DEF Top
    <3> QED BY <1>4, <1>5, <3>2 DEF HasExpression
  <2>2. Top(w) = x
    BY <1>1, <1>4, <1>5 DEF Top
  <2>3. Code(w, x.at) = Code(v, x.at)
    BY <1>6 DEF Kept, Code
  <2>4. Owed(w) = Len(u.stack)
    BY <1>7, <1>9 DEF Owed, Due, Level
  <2> QED BY <1>6, <1>9, <2>1, <2>2, <2>3, <2>4 DEF Healthy
<1> QED BY <1>3, <1>6, <1>8, <1>9

\* A jump stays in the container, at a place of the same height.
LEMMA JumpOutcome ==
    ASSUME NEW v, NEW i, Executing(v, i), NEW u, Quiet(v, u), u.frames = v.frames,
           u.suspended = v.suspended /\ u.stale = v.stale, u.pending = v.pending, Len(u.stack) = Depth(i.op, Len(v.stack)),
           NEW to, to \in 1 .. Len(Code(v, Top(v).at)) + 1,
           Height(Code(v, Top(v).at), to) = Height(Code(v, Top(v).at), Top(v).ip)
    PROVE  LET w == WithTop(u, [Top(v) EXCEPT !.ip = to])
           IN Outcome(v, w) /\ w.status = "running" /\ (Level(v) => Healthy(w))
<1>1. PICK x, c, k : x = [Top(v) EXCEPT !.ip = to] /\ c = Top(v).at /\ k = Top(v).ip - 1
  OBVIOUS
<1>2. /\ FrameOK(v.program, Top(v)) /\ Code(v, c) = Program[v.program].code[c]
      /\ k \in 1 .. Len(Code(v, c)) /\ DOMAIN Code(v, c) = 1 .. Len(Code(v, c))
      /\ Top(v).ip = k + 1 /\ Balanced(Code(v, c)) /\ i = Code(v, c)[k]
  BY <1>1, ExecutingIs
<1>3. x = [at |-> c, ip |-> to, kind |-> Top(v).kind, temp |-> Top(v).temp]
  BY <1>1, <1>2 DEF FrameOK
<1>4. FrameOK(v.program, x) /\ x.kind = Top(v).kind /\ x.at = c /\ x.ip = to
  BY <1>1, <1>2, <1>3 DEF FrameOK
<1>6. ASSUME Level(v) PROVE Len(u.stack) <= Height(Code(v, x.at), x.ip)
  <2>1. Len(v.stack) \in Nat /\ Len(v.stack) <= Height(Code(v, c), k)
    BY <1>1, <1>6, ListedIs DEF Level, Executing, Sound
  <2>2. Depth(i.op, Len(v.stack)) <= Height(Code(v, c), k + 1)
    BY <1>2, <2>1, HeightNext
  <2> QED BY <1>1, <1>2, <1>4, <2>2
<1>7. PICK w : w = WithTop(u, x)
  OBVIOUS
<1>8. Outcome(v, w) /\ w.status = "running"
      /\ (Level(v) /\ Len(u.stack) <= Height(Code(v, x.at), x.ip) => Healthy(w))
  BY <1>4, <1>7, MovedOutcome
<1> QED BY <1>1, <1>6, <1>7, <1>8

\* A frame comes or goes.
LEMMA FramesOutcome ==
    ASSUME NEW v, NEW i, Executing(v, i), NEW t, FramesOK(v.program, t),
           Len(t) \in {Len(v.frames) - 1, Len(v.frames) + 1},
           \A k \in 1 .. Len(v.frames) - 1 : t[k] = v.frames[k],
           Len(t) = Len(v.frames) + 1 => t[Len(v.frames)] = Top(v)
    PROVE  LET w == [v EXCEPT !.frames = t]
           IN /\ Outcome(v, w) /\ w.status = "running" /\ w.frames = t
              /\ w.program = v.program /\ w.stack = v.stack /\ w.suspended = v.suspended /\ w.stale = v.stale
<1> DEFINE p == v.program
           n == Len(v.frames)
<1>1. n \in Nat \ {0} /\ Sound(v) /\ v.status = "running"
  BY ExecutingIs DEF Executing
<1>2. PICK w : w = [v EXCEPT !.frames = t]
  OBVIOUS
<1>3. Alike(v, w, {"frames"}) /\ w.frames = t
  BY <1>1, <1>2 DEF Alike, Shape, Fields, SavedFields, Sound
<1>4. /\ Sound(w) /\ Kept(v, w) /\ w.status = "running"
      /\ \A c \in DOMAIN v.visits : w.visits[c] >= v.visits[c]
  <2>1. Quiet(v, v)
    BY <1>1, QuietSelf
  <2> QED BY <1>1, <1>3, <2>1, SoundIf
<1>5. w.suspended = v.suspended /\ w.stale = v.stale /\ w.pending = v.pending /\ w.stack = v.stack /\ w.program = v.program
  BY <1>3 DEF Alike, Fields, SavedFields
<1>6. ASSUME n <= Len(t) PROVE t[n].kind = Top(v).kind
  <2>1. Len(t) = n + 1
    BY <1>1, <1>6
  <2> QED BY <2>1
<1>7. Len(t) >= n - 1
  BY <1>1
<1>9. Outcome(v, w)
  BY <1>3, <1>4, <1>5, <1>6, <1>7 DEF Outcome
<1> QED BY <1>2, <1>3, <1>4, <1>5, <1>9

LEMMA ThrowOutcome ==
    ASSUME NEW v, NEW i, Executing(v, i), NEW message,
           i.op \notin Taking \cup Joining \/ Depth(i.op, Len(v.stack)) >= Len(v.stack)
    PROVE  LET w == Throw(v, message)
           IN Outcome(v, w) /\ w.status = "running" /\ (Level(v) => Healthy(w))
<1>1. PICK w : w = Throw(v, message)
  OBVIOUS
<1>2. Quiet(v, v) /\ Sound(v)
  BY QuietSelf DEF Executing
<1>3. Quiet(v, w) /\ Alike(v, w, {"thrown", "replayable"})
  BY <1>1, <1>2, ThrowQuiet
<1>4. w.suspended = v.suspended /\ w.stale = v.stale /\ w.pending = v.pending /\ w.stack = v.stack
  BY <1>3 DEF Alike, Fields, SavedFields
<1>5. Len(v.stack) \in Nat
  BY <1>2, ListedIs DEF Sound
<1>6. Depth(i.op, Len(v.stack)) >= Len(v.stack)
  <2>1. CASE i.op \notin Taking \cup Joining
    <3>1. Depth(i.op, Len(v.stack)) \in {Len(v.stack), Len(v.stack) + 1}
      BY <2>1, DepthIs
    <3> QED BY <1>5, <3>1
  <2> QED BY <2>1
<1>7. Level(v) => Owed(w) <= Depth(i.op, Len(v.stack))
  BY <1>4, <1>6 DEF Level, Owed, Due
<1> QED BY <1>1, <1>3, <1>4, <1>7, QuietOutcome

LEMMA FlushQuiet ==
    ASSUME NEW v, NEW u, Quiet(v, u)
    PROVE  /\ Quiet(v, Flush(u)) /\ Alike(u, Flush(u), {"lineBuf", "transcript"})
           /\ Flush(u).lineBuf = <<>>
<1>1. PICK t : t = IF u.lineBuf = <<>> THEN u.transcript
                   ELSE Append(u.transcript, [kind |-> "text", text |-> u.lineBuf])
  OBVIOUS
<1>2. Flush(u) = [u EXCEPT !.lineBuf = <<>>, !.transcript = t]
  BY <1>1 DEF Flush
<1>3. Alike(u, Flush(u), {"lineBuf", "transcript"}) /\ Flush(u).lineBuf = <<>> /\ Flush(u).transcript = t
  BY <1>2 DEF Alike, Shape, Fields, SavedFields, Quiet
<1>4. Listed(t)
  BY <1>1, AppendListed DEF Quiet
<1>5. Listed(<<>>)
  BY DEF Listed
<1>6. Quiet(v, Flush(u))
  BY <1>3, <1>4, <1>5 DEF Quiet, Kept, Alike, Fields, SavedFields
<1> QED BY <1>3, <1>6

\* The end of the story.
LEMMA EndOutcome ==
    ASSUME NEW v, NEW i, Executing(v, i), i.op = "end", Top(v).kind # "eval", ~Due(v)
    PROVE  LET w == [Flush(Unwound(v)) EXCEPT !.status = "done"]
           IN Outcome(v, w) /\ (Level(v) => Healthy(w))
<1> DEFINE p == v.program
<1>1. /\ Sound(v) /\ v.status = "running" /\ FramesOK(p, v.frames) /\ Shape(v)
      /\ Len(v.frames) \in Nat \ {0}
  BY ExecutingIs DEF Executing, Sound
<1>2. ~HasExpression(v)
  BY InExpression
<1>3. PICK t : t = <<v.frames[1]>>
  OBVIOUS
<1>4. FramesOf(v.frames, {"flow"}) = t /\ FramesOK(p, t) /\ DOMAIN t = {1} /\ t[1].kind = "flow"
  BY <1>1, <1>3, FramesUnwound
<1>5. PICK u : u = Flush(v)
  OBVIOUS
<1>6. Quiet(v, u) /\ Alike(v, u, {"lineBuf", "transcript"}) /\ u.lineBuf = <<>>
  BY <1>1, <1>5, FlushQuiet, QuietSelf
<1>7. PICK z : z = [u EXCEPT !.frames = t]
  OBVIOUS
<1>8. Alike(u, z, {"frames"}) /\ z.frames = t
  BY <1>6, <1>7 DEF Alike, Shape, Fields, SavedFields
<1>9. /\ Sound(z) /\ Kept(v, z) /\ z.status = "running"
      /\ \A c \in DOMAIN v.visits : z.visits[c] >= v.visits[c]
  BY <1>1, <1>4, <1>6, <1>8, SoundIf
<1>10. PICK w : w = [z EXCEPT !.status = "done"]
  OBVIOUS
<1>11. w = [Flush(Unwound(v)) EXCEPT !.status = "done"]
  <2>1. PICK y : y = Unwound(v)
    OBVIOUS
  <2>2. y = [v EXCEPT !.frames = t]
    BY <1>4, <2>1 DEF Unwound
  <2>3. Alike(v, y, {"frames"}) /\ y.frames = t
    BY <1>1, <2>2 DEF Alike, Shape, Fields, SavedFields
  <2>4. Flush(y) = [Flush(v) EXCEPT !.frames = t]
    <3>1. PICK x : x = IF v.lineBuf = <<>> THEN v.transcript
                       ELSE Append(v.transcript, [kind |-> "text", text |-> v.lineBuf])
      OBVIOUS
    <3>2. y.lineBuf = v.lineBuf /\ y.transcript = v.transcript
      BY <2>3 DEF Alike, Fields, SavedFields
    <3>3. Flush(v) = [v EXCEPT !.lineBuf = <<>>, !.transcript = x]
      BY <3>1 DEF Flush
    <3>4. Flush(y) = [y EXCEPT !.lineBuf = <<>>, !.transcript = x]
      BY <3>1, <3>2 DEF Flush
    <3> QED BY <2>2, <3>3, <3>4
  <2> QED BY <1>5, <1>7, <1>10, <2>1, <2>4
<1>12. Alike(z, w, {"status"}) /\ w.status = "done"
  BY <1>9, <1>10 DEF Alike, Shape, Fields, SavedFields, Sound
<1>13. /\ w.frames = t /\ w.program = p /\ w.lineBuf = <<>> /\ w.stack = v.stack /\ ~Due(w)
       /\ w.visits = z.visits /\ w.views = <<>>
  <2>1. z.views = <<>>
    BY <1>9 DEF Sound
  <2> QED BY <1>6, <1>8, <1>12, <2>1 DEF Alike, Fields, SavedFields, Due
<1>14. ~HasExpression(w)
  BY <1>4, <1>13 DEF HasExpression
<1>15. Sound(w)
  <2>1. Sound(z)
    BY <1>9
  <2>2. /\ w.program = z.program /\ w.seed = z.seed /\ w.prng = z.prng /\ w.frames = z.frames
        /\ w.alts = z.alts /\ w.pending = z.pending /\ w.history = z.history /\ w.turn = z.turn
        /\ w.stack = z.stack /\ w.lineBuf = z.lineBuf /\ w.transcript = z.transcript
        /\ w.steps = z.steps /\ w.evals = z.evals /\ w.suspended = z.suspended
        /\ w.intact = z.intact /\ w.views = z.views /\ w.stale = z.stale /\ w.astray = z.astray
        /\ Shape(w)
    BY <1>12 DEF Alike, Fields, SavedFields
  <2>3. \A k \in DOMAIN w.frames : w.frames[k].kind = "flow"
    BY <1>4, <1>13
  <2>4. ~Due(w)
    BY <1>13
  <2> QED BY <1>12, <1>13, <1>14, <2>1, <2>2, <2>3, <2>4 DEF Sound
<1>16. Kept(v, w)
  BY <1>9, <1>12 DEF Kept, Alike, Fields, SavedFields
<1>17. v.evals > 0 => w.suspended = v.suspended /\ w.stale = v.stale
  BY <1>6, <1>8, <1>12 DEF Alike, Fields, SavedFields
<1>18. Outcome(v, w)
  BY <1>2, <1>9, <1>13, <1>15, <1>16, <1>17 DEF Outcome
<1>19. ASSUME Level(v) PROVE Healthy(w)
  <2>1. PICK c, k : c = Top(v).at /\ k = Top(v).ip - 1
    OBVIOUS
  <2>2. k \in DOMAIN Code(v, c) /\ Code(v, c)[k].op = "end" /\ Balanced(Code(v, c))
    BY <2>1, ExecutingIs
  <2>3. Height(Code(v, c), k) = 0
    BY <2>2 DEF Balanced, Moving
  <2>4. Len(v.stack) <= 0
    BY <1>19, <2>1, <2>3 DEF Level
  <2>5. v.stack = <<>>
    BY <1>1, <2>4, ListedIs DEF Sound
  <2> QED BY <1>12, <1>13, <1>14, <2>5 DEF Healthy
<1> QED BY <1>11, <1>18, <1>19

FlowOps == {"jump", "jump_if_false", "alt", "divert", "tunnel", "tunnel_return", "ret", "end"}

\* Every instruction has an outcome, and keeps the stack level.
Good(v, w) == Outcome(v, w) /\ (Level(v) => Healthy(w))

LEMMA JumpsGood ==
    ASSUME NEW v, NEW i, Executing(v, i), i.op \in {"jump", "jump_if_false"}
    PROVE  Good(v, ExecuteFlow(v, i))
<1>1. PICK c, k, w : c = Top(v).at /\ k = Top(v).ip - 1 /\ w = ExecuteFlow(v, i)
  OBVIOUS
<1>2. /\ Sound(v) /\ Quiet(v, v) /\ k \in DOMAIN Code(v, c) /\ i = Code(v, c)[k]
      /\ Balanced(Code(v, c)) /\ Top(v).ip = k + 1
  BY <1>1, ExecutingIs, QuietSelf DEF Executing
<1>3. /\ i.to \in 1 .. Len(Code(v, Top(v).at)) + 1
      /\ Height(Code(v, Top(v).at), i.to) = Height(Code(v, Top(v).at), Top(v).ip)
  <2>1. i.to \in 1 .. Len(Code(v, c)) + 1 /\ Height(Code(v, c), i.to) = Height(Code(v, c), k + 1)
    BY <1>2 DEF Balanced
  <2> QED BY <1>1, <1>2, <2>1
<1>4. Len(v.stack) \in Nat /\ (Len(v.stack) = 0 <=> v.stack = <<>>)
  BY <1>2, ListedIs DEF Sound
<1>5. CASE i.op = "jump"
  <2>1. w = WithTop(v, [Top(v) EXCEPT !.ip = i.to])
    BY <1>1, <1>5 DEF ExecuteFlow
  <2>2. Len(v.stack) = Depth(i.op, Len(v.stack))
    BY <1>5, DepthIs DEF Pushing, Taking, Joining
  <2>3. /\ v.frames = v.frames /\ v.suspended = v.suspended /\ v.stale = v.stale /\ v.pending = v.pending
    OBVIOUS
  <2>4. Outcome(v, w) /\ (Level(v) => Healthy(w))
    BY <1>2, <1>3, <2>1, <2>2, <2>3, JumpOutcome
  <2> QED BY <1>1, <2>4 DEF Good
<1>6. CASE i.op = "jump_if_false" /\ v.stack = <<>>
  <2>1. w = Throw(v, "stack underflow")
    BY <1>1, <1>6 DEF ExecuteFlow
  <2>2. Depth(i.op, Len(v.stack)) >= Len(v.stack)
    BY <1>4, <1>6, DepthIs DEF Taking
  <2> QED BY <1>1, <2>1, <2>2, ThrowOutcome DEF Good
<1>7. CASE i.op = "jump_if_false" /\ v.stack # <<>>
  <2>1. PICK u : u = Popped(v)
    OBVIOUS
  <2>2. Quiet(v, u) /\ Alike(v, u, {"stack"}) /\ Len(u.stack) = Len(v.stack) - 1
    BY <1>2, <1>4, <1>7, <2>1, PopQuiet
  <2>3. Len(u.stack) = Depth(i.op, Len(v.stack))
    BY <1>4, <1>7, <2>2, DepthIs DEF Taking
  <2>4. u.suspended = v.suspended /\ u.stale = v.stale /\ u.pending = v.pending /\ u.frames = v.frames
    BY <2>2 DEF Alike, Fields, SavedFields
  <2>5. w = WithTop(u, [Top(v) EXCEPT !.ip = i.to]) \/ w = u
    BY <1>1, <1>7, <2>1 DEF ExecuteFlow
  <2>6. CASE w = WithTop(u, [Top(v) EXCEPT !.ip = i.to])
    <3>1. Outcome(v, w) /\ (Level(v) => Healthy(w))
      BY <1>3, <2>2, <2>3, <2>4, <2>6, JumpOutcome
    <3> QED BY <1>1, <3>1 DEF Good
  <2>7. CASE w = u
    <3>1. Level(v) => Owed(w) <= Depth(i.op, Len(v.stack))
      BY <1>4, <1>7, <2>2, <2>3, <2>4, <2>7 DEF Level, Owed, Due
    <3> QED BY <1>1, <2>2, <2>4, <2>7, <3>1, QuietOutcome DEF Good
  <2> QED BY <2>5, <2>6, <2>7
<1> QED BY <1>5, <1>6, <1>7

LEMMA AltGood ==
    ASSUME NEW v, NEW i, Executing(v, i), i.op = "alt"
    PROVE  Good(v, ExecuteFlow(v, i))
<1>1. PICK c, k, w, r : /\ c = Top(v).at /\ k = Top(v).ip - 1 /\ w = ExecuteFlow(v, i)
                        /\ r = Alternative(v, i.id, i.flavor, Len(i.branches))
  OBVIOUS
<1>2. /\ Sound(v) /\ Quiet(v, v) /\ k \in DOMAIN Code(v, c) /\ i = Code(v, c)[k]
      /\ Balanced(Code(v, c)) /\ Top(v).ip = k + 1 /\ WellPlaced(v.program, c, k)
      /\ Code(v, c) = Program[v.program].code[c] /\ c \in DOMAIN Program[v.program].code
  BY <1>1, ExecutingIs, QuietSelf DEF Executing
<1>3. /\ i.flavor \in {"cycle", "sequence", "shuffle"} /\ IsSequence(i.branches)
      /\ Len(i.branches) > 0
  BY <1>2 DEF WellPlaced
<1>4. Len(i.branches) \in Nat \ {0} /\ DOMAIN i.branches = 1 .. Len(i.branches)
  BY <1>3 DEF IsSequence
<1>5. IsAlt(v.program, i)
  BY <1>2 DEF IsAlt
<1>6. /\ r.branch \in 1 .. Len(i.branches) /\ Alike(v, r.vm, {"alts", "prng"})
      /\ AltsOK(v.program, r.vm.alts) /\ r.vm.prng \in 0 .. PrngStates - 1
  BY <1>1, <1>2, <1>3, <1>4, <1>5, AlternativeIs
<1>7. PICK u, to : u = r.vm /\ to = i.branches[r.branch]
  OBVIOUS
<1>8. /\ Quiet(v, u) /\ u.frames = v.frames /\ u.suspended = v.suspended /\ u.stale = v.stale /\ u.pending = v.pending
      /\ u.stack = v.stack
  BY <1>2, <1>6, <1>7 DEF Quiet, Kept, Alike, Fields, SavedFields
<1>9. /\ to \in 1 .. Len(Code(v, Top(v).at)) + 1
      /\ Height(Code(v, Top(v).at), to) = Height(Code(v, Top(v).at), Top(v).ip)
  <2>1. to \in 1 .. Len(Code(v, c)) + 1 /\ Height(Code(v, c), to) = Height(Code(v, c), k + 1)
    BY <1>2, <1>4, <1>6, <1>7 DEF Balanced
  <2> QED BY <1>1, <1>2, <2>1
<1>10. w = WithTop(u, [Top(v) EXCEPT !.ip = to])
  <2>1. w = Branched(i.branches, r)
    BY <1>1 DEF ExecuteFlow
  <2>2. Top(u) = Top(v)
    BY <1>8 DEF Top
  <2> QED BY <1>7, <2>1, <2>2 DEF Branched
<1>11. Len(u.stack) = Depth(i.op, Len(v.stack))
  BY <1>8, DepthIs DEF Pushing, Taking, Joining
<1>12. Outcome(v, w) /\ (Level(v) => Healthy(w))
  BY <1>8, <1>9, <1>10, <1>11, JumpOutcome
<1> QED BY <1>1, <1>12 DEF Good

LEMMA DivertGood ==
    ASSUME NEW v, NEW i, Executing(v, i), i.op = "divert"
    PROVE  Good(v, ExecuteFlow(v, i))
<1>1. PICK c, k, w : c = Top(v).at /\ k = Top(v).ip - 1 /\ w = ExecuteFlow(v, i)
  OBVIOUS
<1>2. /\ Sound(v) /\ Quiet(v, v) /\ k \in DOMAIN Code(v, c) /\ i = Code(v, c)[k]
      /\ Balanced(Code(v, c)) /\ WellPlaced(v.program, c, k) /\ FrameOK(v.program, Top(v))
      /\ Code(v, c) = Program[v.program].code[c] /\ v.program \in DOMAIN Program
  BY <1>1, ExecutingIs, QuietSelf DEF Executing
<1>3. i.to \in DOMAIN Program[v.program].code
  BY <1>2 DEF WellPlaced
<1>4. CASE Top(v).kind = "eval"
  <2>1. w = Throw(v, "divert in an expression")
    BY <1>1, <1>4 DEF ExecuteFlow
  <2>2. i.op \notin Taking \cup Joining
    BY DEF Taking, Joining
  <2> QED BY <1>1, <2>1, <2>2, ThrowOutcome DEF Good
<1>5. CASE Top(v).kind # "eval"
  <2>1. PICK x : x = [Top(v) EXCEPT !.at = i.to, !.ip = 1]
    OBVIOUS
  <2>2. w = WithTop(v, x)
    BY <1>1, <1>5, <2>1 DEF ExecuteFlow
  <2>3. x = [at |-> i.to, ip |-> 1, kind |-> Top(v).kind, temp |-> Top(v).temp]
    BY <1>2, <2>1 DEF FrameOK
  <2>4. Len(Program[v.program].code[i.to]) \in Nat
    BY <1>2, <1>3, CodeIs
  <2>5. FrameOK(v.program, x) /\ x.kind = Top(v).kind
    BY <1>2, <1>3, <1>5, <2>3, <2>4 DEF FrameOK
  <2>7. Level(v) => Len(v.stack) <= Height(Code(v, x.at), x.ip)
    <3>1. Height(Code(v, c), k) = 0
      BY <1>2 DEF Balanced, Moving
    <3>2. Height(Code(v, x.at), x.ip) = 0
      BY <2>3, HeightOne
    <3> QED BY <1>1, <3>1, <3>2 DEF Level
  <2> QED BY <1>1, <1>2, <2>2, <2>5, <2>7, MovedOutcome DEF Good
<1> QED BY <1>4, <1>5

LEMMA TunnelGood ==
    ASSUME NEW v, NEW i, Executing(v, i), i.op = "tunnel"
    PROVE  Good(v, ExecuteFlow(v, i))
<1>1. PICK c, k, w : c = Top(v).at /\ k = Top(v).ip - 1 /\ w = ExecuteFlow(v, i)
  OBVIOUS
<1>2. /\ Sound(v) /\ k \in DOMAIN Code(v, c) /\ i = Code(v, c)[k]
      /\ Balanced(Code(v, c)) /\ WellPlaced(v.program, c, k) /\ FramesOK(v.program, v.frames)
      /\ Code(v, c) = Program[v.program].code[c] /\ v.program \in DOMAIN Program
      /\ Len(v.frames) \in Nat \ {0} /\ DOMAIN v.frames = 1 .. Len(v.frames)
  BY <1>1, ExecutingIs DEF Executing
<1>3. i.to \in DOMAIN Program[v.program].code
  BY <1>2 DEF WellPlaced
<1>4. PICK x, t : x = Frame(i.to, "tunnel") /\ t = Append(v.frames, x)
  OBVIOUS
<1>5. w = [v EXCEPT !.frames = t] \/ w = Throw(v, "tunnel overflow")
  BY <1>1, <1>4 DEF ExecuteFlow
<1>6. CASE w = Throw(v, "tunnel overflow")
  <2>2. i.op \notin Taking \cup Joining
    BY DEF Taking, Joining
  <2> QED BY <1>1, <1>6, <2>2, ThrowOutcome DEF Good
<1>7. CASE w = [v EXCEPT !.frames = t]
  <2>1. x = [at |-> i.to, ip |-> 1, kind |-> "tunnel", temp |-> 0]
    BY <1>4 DEF Frame
  <2>2. Len(Program[v.program].code[i.to]) \in Nat
    BY <1>2, <1>3, CodeIs
  <2>3. FrameOK(v.program, x) /\ x.kind = "tunnel" /\ x.at = i.to
    BY <1>3, <2>1, <2>2 DEF FrameOK
  <2>6. /\ FramesOK(v.program, t) /\ Len(t) = Len(v.frames) + 1 /\ t[Len(v.frames) + 1] = x
        /\ \A j \in 1 .. Len(v.frames) : t[j] = v.frames[j]
    BY <1>2, <1>4, <2>3, FramePushed
  <2>7. /\ \A j \in 1 .. Len(v.frames) - 1 : t[j] = v.frames[j]
        /\ t[Len(v.frames)] = Top(v) /\ t[Len(t)] = x
    BY <1>2, <2>6 DEF Top
  <2>8. /\ Outcome(v, w) /\ w.status = "running" /\ w.frames = t
        /\ w.program = v.program /\ w.stack = v.stack /\ w.suspended = v.suspended /\ w.stale = v.stale
    BY <1>7, <2>6, <2>7, FramesOutcome
  <2>9. ASSUME Level(v) PROVE Healthy(w)
    <3>1. ~HasExpression(w)
      <4>1. \A j \in 1 .. Len(v.frames) : v.frames[j].kind # "eval"
        BY <1>2, <2>9 DEF Level, HasExpression
      <4>2. DOMAIN t = 1 .. Len(v.frames) + 1
        BY <2>6, FramesAre
      <4>3. \A j \in 1 .. Len(v.frames) + 1 : t[j].kind # "eval"
        BY <1>2, <2>3, <2>6, <4>1
      <4> QED BY <2>8, <4>2, <4>3 DEF HasExpression
    <3>2. Owed(w) <= 0
      <4>1. Height(Code(v, c), k) = 0
        BY <1>2 DEF Balanced, Moving
      <4> QED BY <1>1, <2>8, <2>9, <4>1 DEF Level, Owed, Due
    <3>3. Top(w) = x
      BY <2>6, <2>7, <2>8 DEF Top
    <3>4. Height(Code(w, Top(w).at), Top(w).ip) = 0
      BY <2>1, <3>3, HeightOne
    <3> QED BY <2>8, <3>1, <3>2, <3>4 DEF Healthy
  <2> QED BY <1>1, <2>8, <2>9 DEF Good
<1> QED BY <1>5, <1>6, <1>7

\* The return from a tunnel, or from an expression.
LEMMA ReturnGood ==
    ASSUME NEW v, NEW i, Executing(v, i), i.op \in {"tunnel_return", "ret"}
    PROVE  Good(v, ExecuteFlow(v, i))
<1>1. PICK c, k, w, t : c = Top(v).at /\ k = Top(v).ip - 1 /\ w = ExecuteFlow(v, i) /\ t = Front(v.frames)
  OBVIOUS
<1>2. /\ Sound(v) /\ k \in DOMAIN Code(v, c) /\ i = Code(v, c)[k]
      /\ Balanced(Code(v, c)) /\ FramesOK(v.program, v.frames) /\ v.program \in DOMAIN Program
      /\ Len(v.frames) \in Nat \ {0} /\ DOMAIN v.frames = 1 .. Len(v.frames)
  BY <1>1, ExecutingIs DEF Executing
<1>3. \/ /\ w = [v EXCEPT !.frames = t] /\ Top(v).kind # "flow"
         /\ (i.op = "tunnel_return" \/ Top(v).kind = "eval")
      \/ \E message : w = Throw(v, message)
  BY <1>1 DEF ExecuteFlow
<1>4. CASE \E message : w = Throw(v, message)
  <2>1. i.op \notin Taking \cup Joining
    BY DEF Taking, Joining
  <2> QED BY <1>1, <1>4, <2>1, ThrowOutcome DEF Good
<1>5. CASE w = [v EXCEPT !.frames = t] /\ Top(v).kind # "flow"
           /\ (i.op = "tunnel_return" \/ Top(v).kind = "eval")
  <2>1. /\ FramesOK(v.program, t) /\ Len(t) = Len(v.frames) - 1 /\ Len(v.frames) > 1
        /\ \A j \in 1 .. Len(v.frames) - 1 : t[j] = v.frames[j]
    BY <1>1, <1>2, <1>5, FramePopped DEF Top
  <2>2. /\ Outcome(v, w) /\ w.status = "running" /\ w.frames = t
        /\ w.program = v.program /\ w.stack = v.stack /\ w.suspended = v.suspended /\ w.stale = v.stale
    <3>1. Len(t) # Len(v.frames) + 1
      BY <1>2, <2>1
    <3> QED BY <1>5, <2>1, <3>1, FramesOutcome
  <2>3. ASSUME Level(v) PROVE Healthy(w)
    <3>1. DOMAIN t = 1 .. Len(v.frames) - 1 /\ FrameOK(v.program, t[Len(t)])
      BY <2>1, FramesAre
    <3>2. ~HasExpression(w)
      BY <1>2, <2>1, <2>2, <2>3, <3>1 DEF Level, HasExpression
    <3>3. Top(v).kind # "eval"
      BY <1>2, <2>3 DEF Level, HasExpression, Top
    <3>4. Height(Code(v, c), k) = 0
      BY <1>2, <1>5, <3>3 DEF Balanced, Moving
    <3>5. Owed(w) <= 0 /\ Owed(w) \in Int
      <4>1. Len(v.stack) \in Nat
        BY <1>2, ListedIs DEF Sound
      <4> QED BY <1>1, <2>2, <2>3, <3>4, <4>1 DEF Level, Owed, Due
    <3>6. Height(Code(w, Top(w).at), Top(w).ip) \in Nat
      <4>1. PICK f : f = t[Len(t)]
        OBVIOUS
      <4>2. f.at \in DOMAIN Program[v.program].code /\ f.ip \in 1 .. Len(Program[v.program].code[f.at]) + 1
        BY <3>1, <4>1 DEF FrameOK
      <4>3. Height(Program[v.program].code[f.at], f.ip) \in Nat
        BY <1>2, <4>2, HeightNat
      <4> QED BY <2>2, <4>1, <4>3 DEF Top, Code
    <3>7. Owed(w) <= Height(Code(w, Top(w).at), Top(w).ip)
      BY <3>5, <3>6
    <3> QED BY <2>2, <3>2, <3>7 DEF Healthy
  <2> QED BY <1>1, <2>2, <2>3 DEF Good
<1> QED BY <1>3, <1>4, <1>5

LEMMA FlowGood ==
    ASSUME NEW v, NEW i, Executing(v, i), i.op \in FlowOps, ~Due(v)
    PROVE  Good(v, ExecuteFlow(v, i))
<1>1. CASE i.op = "end"
  <2>1. CASE Top(v).kind = "eval"
    <3>1. ExecuteFlow(v, i) = Throw(v, "end in an expression")
      BY <1>1, <2>1 DEF ExecuteFlow
    <3>2. i.op \notin Taking \cup Joining
      BY <1>1 DEF Taking, Joining
    <3> QED BY <3>1, <3>2, ThrowOutcome DEF Good
  <2>2. CASE Top(v).kind # "eval"
    <3>1. ExecuteFlow(v, i) = [Flush(Unwound(v)) EXCEPT !.status = "done"]
      BY <1>1, <2>2 DEF ExecuteFlow
    <3> QED BY <1>1, <2>2, <3>1, EndOutcome DEF Good
  <2> QED BY <2>1, <2>2
<1> QED BY <1>1, JumpsGood, AltGood, DivertGood, TunnelGood, ReturnGood DEF FlowOps

-----------------------------------------------------------------------------
(* Any instruction but present.                                            *)

LEMMA ValueGood ==
    ASSUME NEW v, NEW i, Executing(v, i), i.op \in ValueOps
    PROVE  Good(v, ExecuteValue(v, i))
<1>1. PICK w : w = ExecuteValue(v, i)
  OBVIOUS
<1>2. Sound(v)
  BY DEF Executing
<1>3. ValueEffect(v, w, i.op)
  BY <1>1, <1>2, PushingEffect, TakingEffect, JoiningEffect DEF ValueOps
<1>4. Quiet(v, w) /\ w.suspended = v.suspended /\ w.stale = v.stale /\ w.pending = v.pending
      /\ Len(w.stack) = Depth(i.op, Len(v.stack))
  BY <1>3 DEF ValueEffect, Offstage
<1>5. Len(v.stack) \in Nat /\ Len(w.stack) \in Nat
  BY <1>2, <1>4, ListedIs DEF Sound, Quiet
<1>6. Level(v) => Owed(w) <= Depth(i.op, Len(v.stack))
  BY <1>4, <1>5 DEF Level, Owed, Due
<1>7. Outcome(v, w) /\ (Level(v) => Healthy(w))
  BY <1>4, <1>6, QuietOutcome
<1> QED BY <1>1, <1>7 DEF Good

\* A change of the output, a counter or the pending choices.
LEMMA QuietGood ==
    ASSUME NEW v, NEW i, Executing(v, i), NEW w, Quiet(v, w), w.stack = v.stack,
           w.suspended = v.suspended /\ w.stale = v.stale, HasExpression(v) => w.pending = v.pending,
           i.op \notin Taking \cup Joining
    PROVE  Good(v, w)
<1>1. Len(v.stack) \in Nat
  BY ListedIs DEF Executing, Sound
<1>2. Depth(i.op, Len(v.stack)) \in {Len(v.stack), Len(v.stack) + 1}
  BY DepthIs
<1>3. Level(v) => Owed(w) <= Depth(i.op, Len(v.stack))
  BY <1>1, <1>2 DEF Level, Owed, Due
<1>4. Outcome(v, w) /\ (Level(v) => Healthy(w))
  BY <1>3, QuietOutcome
<1> QED BY <1>4 DEF Good

LEMMA ExecuteGood ==
    ASSUME NEW v, NEW i, Executing(v, i), i.op # "present", ~Due(v)
    PROVE  /\ Good(v, Execute(v, i))
           /\ i.op = "visit" /\ i.of \in DOMAIN v.visits => Execute(v, i).visits[i.of] > 0
<1>1. PICK w : w = Execute(v, i)
  OBVIOUS
<1>2. Sound(v) /\ Quiet(v, v) /\ Shape(v)
  BY QuietSelf DEF Executing, Sound
<1>3. i.op \in Ops
  <2>1. PICK c, k : c = Top(v).at /\ k = Top(v).ip - 1
    OBVIOUS
  <2>2. WellPlaced(v.program, c, k) /\ i = Program[v.program].code[c][k]
    BY <2>1, ExecutingIs
  <2> QED BY <2>2 DEF WellPlaced
<1>4. CASE i.op = "text"
  <2>1. w = [v EXCEPT !.lineBuf = Append(@, i.text)]
    BY <1>1, <1>4 DEF Execute
  <2>2. PICK b : b = Append(v.lineBuf, i.text)
    OBVIOUS
  <2>3. Alike(v, w, {"lineBuf"}) /\ w.lineBuf = b
    BY <1>2, <2>1, <2>2 DEF Alike, Shape, Fields, SavedFields
  <2>4. Listed(b)
    BY <1>2, <2>2, AppendListed DEF Sound
  <2>5. /\ Quiet(v, w) /\ w.stack = v.stack /\ w.suspended = v.suspended /\ w.stale = v.stale /\ w.pending = v.pending
    BY <1>2, <2>3, <2>4 DEF Quiet, Kept, Alike, Fields, SavedFields
  <2> QED BY <1>1, <1>4, <2>5, QuietGood DEF Taking, Joining
<1>5. CASE i.op = "newline"
  <2>1. w = Flush(v)
    BY <1>1, <1>5 DEF Execute
  <2>2. Quiet(v, w) /\ Alike(v, w, {"lineBuf", "transcript"})
    BY <1>2, <2>1, FlushQuiet
  <2>3. w.stack = v.stack /\ w.suspended = v.suspended /\ w.stale = v.stale /\ w.pending = v.pending
    BY <2>2 DEF Alike, Fields, SavedFields
  <2> QED BY <1>1, <1>5, <2>2, <2>3, QuietGood DEF Taking, Joining
<1>6. CASE i.op = "visit"
  <2>1. w = [v EXCEPT !.visits[i.of] = @ + 1]
    BY <1>1, <1>6 DEF Execute
  <2>2. PICK n : n = [v.visits EXCEPT ![i.of] = @ + 1]
    OBVIOUS
  <2>3. w = [v EXCEPT !.visits = n]
    BY <2>1, <2>2
  <2>4. Alike(v, w, {"visits"}) /\ w.visits = n
    BY <1>2, <2>3 DEF Alike, Shape, Fields, SavedFields
  <2>5. v.visits \in [DOMAIN Program[v.program].code -> Nat]
    BY <1>2 DEF Sound
  <2>6. /\ n \in [DOMAIN Program[v.program].code -> Nat]
        /\ \A c \in DOMAIN v.visits : n[c] >= v.visits[c]
        /\ i.of \in DOMAIN v.visits => n[i.of] > 0
    <3>1. PICK f, S, d : f = v.visits /\ S = DOMAIN Program[v.program].code /\ d = i.of
      OBVIOUS
    <3>2. f \in [S -> Nat] /\ n = [f EXCEPT ![d] = f[d] + 1]
      BY <2>2, <2>5, <3>1
    <3>3. DOMAIN n = S /\ \A c \in S : n[c] = IF c = d THEN f[c] + 1 ELSE f[c]
      BY <3>2
    <3>4. \A c \in S : f[c] \in Nat /\ n[c] \in Nat /\ n[c] >= f[c] /\ (c = d => n[c] > 0)
      BY <3>2, <3>3
    <3>5. n \in [S -> Nat]
      BY <3>2, <3>3, <3>4
    <3>6. DOMAIN f = S
      BY <3>2
    <3> QED BY <3>1, <3>4, <3>5, <3>6
  <2>7. /\ Quiet(v, w) /\ w.stack = v.stack /\ w.suspended = v.suspended /\ w.stale = v.stale /\ w.pending = v.pending
    BY <1>2, <2>4, <2>6 DEF Quiet, Kept, Alike, Fields, SavedFields
  <2> QED BY <1>1, <1>6, <2>4, <2>6, <2>7, QuietGood DEF Taking, Joining
<1>7. CASE i.op = "choice"
  <2>1. w = [v EXCEPT !.pending = Append(@, i.choice)]
    BY <1>1, <1>7 DEF Execute
  <2>2. PICK b : b = Append(v.pending, i.choice)
    OBVIOUS
  <2>3. Alike(v, w, {"pending"}) /\ w.pending = b
    BY <1>2, <2>1, <2>2 DEF Alike, Shape, Fields, SavedFields
  <2>4. Listed(b) /\ ToSet(b) = ToSet(v.pending) \cup {i.choice}
    BY <1>2, <2>2, AppendListed DEF Sound
  <2>5. i.choice \in ChoicesOf(v.program)
    <3>1. PICK c, k : c = Top(v).at /\ k = Top(v).ip - 1
      OBVIOUS
    <3>2. /\ c \in DOMAIN Program[v.program].code /\ k \in DOMAIN Program[v.program].code[c]
          /\ i = Program[v.program].code[c][k]
      BY <3>1, ExecutingIs
    <3>3. i.choice \in {Program[v.program].code[c][j].choice :
               j \in {j \in DOMAIN Program[v.program].code[c] : Program[v.program].code[c][j].op = "choice"}}
      BY <1>7, <3>2
    <3> QED BY <3>2, <3>3 DEF ChoicesOf
  <2>6. ToSet(b) \subseteq ChoicesOf(v.program)
    BY <1>2, <2>4, <2>5 DEF Sound
  <2>7. /\ Quiet(v, w) /\ w.stack = v.stack /\ w.suspended = v.suspended /\ w.stale = v.stale
    BY <1>2, <2>3, <2>4, <2>6 DEF Quiet, Kept, Alike, Fields, SavedFields
  <2>8. ~HasExpression(v)
    BY <1>7, InExpression
  <2> QED BY <1>1, <1>7, <2>7, <2>8, QuietGood DEF Taking, Joining
<1>8. CASE i.op = "call"
  <2>1. CASE v.evals > 0
    <3>1. w = Throw(v, "async call in an expression")
      BY <1>1, <1>8, <2>1 DEF Execute
    <3> QED BY <1>1, <1>8, <3>1, ThrowOutcome DEF Good, Taking, Joining
  <2>2. CASE ~(v.evals > 0)
    <3>1. w = [v EXCEPT !.suspended = TRUE, !.stale = FALSE]
      BY <1>1, <1>8, <2>2 DEF Execute
    <3>2. Alike(v, w, {"suspended", "stale"}) /\ w.suspended = TRUE /\ w.stale = FALSE
      BY <1>2, <3>1 DEF Alike, Shape, Fields, SavedFields
    <3>3. Quiet(v, w) /\ w.stack = v.stack /\ w.pending = v.pending
      BY <1>2, <3>2 DEF Quiet, Kept, Alike, Fields, SavedFields
    <3>4. Depth(i.op, Len(v.stack)) = Len(v.stack) + 1
      BY <1>8, DepthIs DEF Pushing
    <3>5. Owed(w) <= Depth(i.op, Len(v.stack))
      <4>1. Len(v.stack) \in Nat
        BY <1>2, ListedIs DEF Sound
      <4> QED BY <3>2, <3>3, <3>4, <4>1 DEF Owed, Due
    <3>6. Outcome(v, w) /\ (Level(v) => Healthy(w))
      BY <2>2, <3>3, <3>5, QuietOutcome
    <3> QED BY <1>1, <1>8, <3>6 DEF Good
  <2> QED BY <2>1, <2>2
<1>9. CASE i.op \in ValueOps
  <2>1. w = ExecuteValue(v, i) /\ i.op # "visit"
    BY <1>1, <1>9 DEF Execute, ValueOps, Pushing, Taking, Joining
  <2> QED BY <1>1, <1>9, <2>1, ValueGood
<1>10. CASE i.op \in FlowOps
  <2>1. w = ExecuteFlow(v, i) /\ i.op # "visit"
    BY <1>1, <1>10 DEF Execute, FlowOps
  <2> QED BY <1>1, <1>10, <2>1, FlowGood
<1>11. \/ i.op \in {"text", "newline", "visit", "choice", "call"} \/ i.op \in ValueOps \/ i.op \in FlowOps
  BY <1>3 DEF Ops, ValueOps, FlowOps, Pushing, Taking, Joining, Moving
<1> QED BY <1>4, <1>5, <1>6, <1>7, <1>8, <1>9, <1>10, <1>11

\* Fetching an instruction.
LEMMA FetchedIs ==
    ASSUME NEW u, Sound(u), u.status = "running", ~RanOff(u)
    PROVE  LET v == Fetched(u)
           IN /\ ~Strays(u) => Executing(v, Instruction(u))
              /\ Sound(v) /\ Alike(u, v, {"frames", "steps"})
              /\ v.steps = u.steps + 1 /\ Len(v.frames) = Len(u.frames)
              /\ \A k \in 1 .. Len(u.frames) - 1 : v.frames[k] = u.frames[k]
              /\ Top(v).at = Top(u).at /\ Top(v).kind = Top(u).kind /\ Top(v).ip = Top(u).ip + 1
              /\ Healthy(u) /\ ~u.suspended => Level(v)
<1> DEFINE p == u.program
           n == Len(u.frames)
<1>1. /\ p \in DOMAIN Program /\ FramesOK(p, u.frames) /\ n \in Nat \ {0} /\ DOMAIN u.frames = 1 .. n
      /\ FrameOK(p, Top(u)) /\ Shape(u)
  BY FramesAre DEF Sound, Top
<1>2. PICK c, k : c = Top(u).at /\ k = Top(u).ip
  OBVIOUS
<1>3. Len(Code(u, c)) \in Nat /\ Code(u, c) = Program[p].code[c] /\ c \in DOMAIN Program[p].code
  BY <1>1, <1>2, CodeIs DEF FrameOK, Code
<1>4. k \in 1 .. Len(Code(u, c))
  BY <1>1, <1>2, <1>3 DEF FrameOK, RanOff
<1>5. PICK x : x = [Top(u) EXCEPT !.ip = k + 1]
  OBVIOUS
<1>6. x = [at |-> c, ip |-> k + 1, kind |-> Top(u).kind, temp |-> Top(u).temp]
  BY <1>1, <1>2, <1>5 DEF FrameOK
<1>7. FrameOK(p, x) /\ x.kind = Top(u).kind /\ x.at = c /\ x.ip = k + 1
  BY <1>1, <1>2, <1>3, <1>4, <1>6 DEF FrameOK
<1>8. PICK t : t = [u.frames EXCEPT ![n] = x]
  OBVIOUS
<1>9. /\ FramesOK(p, t) /\ Len(t) = n /\ DOMAIN t = DOMAIN u.frames
      /\ \A j \in 1 .. n : t[j] = IF j = n THEN x ELSE u.frames[j]
  BY <1>1, <1>2, <1>7, <1>8, TopChanged DEF Top
<1>10. PICK v : v = Fetched(u)
  OBVIOUS
<1>11. v = [u EXCEPT !.frames = t, !.steps = @ + 1]
  BY <1>2, <1>5, <1>8, <1>10 DEF Fetched, WithTop
<1>12. Alike(u, v, {"frames", "steps"}) /\ v.frames = t /\ v.steps = u.steps + 1
  BY <1>1, <1>11 DEF Alike, Shape, Fields, SavedFields
<1>13. Top(v) = x
  BY <1>1, <1>9, <1>12 DEF Top
<1>14. Sound(v) /\ v.status = "running" /\ v.program = p
  <2>1. /\ v.program = u.program /\ v.seed = u.seed /\ v.prng = u.prng /\ v.visits = u.visits
        /\ v.alts = u.alts /\ v.pending = u.pending /\ v.history = u.history /\ v.turn = u.turn
        /\ v.stack = u.stack /\ v.lineBuf = u.lineBuf /\ v.transcript = u.transcript
        /\ v.evals = u.evals /\ v.suspended = u.suspended
        /\ v.intact = u.intact /\ v.views = u.views /\ v.status = u.status /\ Shape(v)
        /\ v.stale = u.stale /\ v.astray = u.astray
    BY <1>12 DEF Alike, Fields, SavedFields
  <2>2. v.steps \in Nat
    BY <1>12 DEF Sound
  <2> QED BY <1>9, <1>12, <2>1, <2>2 DEF Sound, Due
<1>15. Code(v, c) = Code(u, c)
  BY <1>14 DEF Code
<1>16. ASSUME ~Strays(u) PROVE Executing(v, Instruction(u))
  <2>1. Instruction(u) = Code(u, c)[k]
    BY <1>2 DEF Instruction
  <2>2. k + 1 \in 2 .. Len(Code(v, c)) + 1 /\ k = (k + 1) - 1
    BY <1>3, <1>4, <1>15
  <2>3. HasExpression(v) => HasExpression(u)
    <3>1. \A j \in 1 .. n : v.frames[j].kind = u.frames[j].kind
      BY <1>1, <1>7, <1>9, <1>12 DEF Top
    <3> QED BY <1>1, <1>9, <1>12, <3>1 DEF HasExpression
  <2>4. HasExpression(v) /\ Top(v).kind = "tunnel" => Instruction(u).op \notin {"choice", "present", "end"}
    BY <1>7, <1>13, <1>16, <2>3 DEF Strays
  <2> QED BY <1>7, <1>13, <1>14, <1>15, <2>1, <2>2, <2>4 DEF Executing
<1>17. ASSUME Healthy(u), ~u.suspended PROVE Level(v)
  <2>1. v.stack = u.stack /\ v.suspended = u.suspended
    BY <1>12 DEF Alike, Fields, SavedFields
  <2>2. ~HasExpression(v)
    <3>1. \A j \in 1 .. n : u.frames[j].kind # "eval"
      BY <1>1, <1>17 DEF Healthy, HasExpression
    <3> QED BY <1>1, <1>7, <1>9, <1>12, <3>1 DEF HasExpression, Top
  <2>3. Len(u.stack) <= Height(Code(u, c), k)
    BY <1>2, <1>14, <1>17 DEF Healthy, Owed, Due, Alike
  <2>4. Top(v).ip - 1 = k
    BY <1>4, <1>7, <1>13
  <2> QED BY <1>7, <1>13, <1>15, <1>17, <2>1, <2>2, <2>3, <2>4 DEF Level
<1>18. \A j \in 1 .. n - 1 : v.frames[j] = u.frames[j]
  BY <1>1, <1>9, <1>12
<1> QED BY <1>2, <1>7, <1>9, <1>10, <1>12, <1>13, <1>14, <1>16, <1>17, <1>18

-----------------------------------------------------------------------------
(* Expressions.                                                            *)

SameFrame(f, g) == g.at = f.at /\ g.ip = f.ip /\ g.kind = f.kind

\* Expressions have run since v: the flow has not moved.
Beside(v, w) ==
    /\ Sound(w) /\ w.status = "running"
    /\ \A f \in {"program", "seed", "turn", "history", "views", "intact", "pending",
                 "suspended", "stale"} : w[f] = v[f]
    /\ \A c \in DOMAIN v.visits : w.visits[c] >= v.visits[c]
    /\ Len(w.frames) >= Len(v.frames)
    /\ \A k \in 1 .. Len(v.frames) : SameFrame(v.frames[k], w.frames[k])

\* An expression runs.
Evaluating(v, w) ==
    /\ Beside(v, w) /\ w.evals = v.evals + 1
    /\ Len(w.frames) > Len(v.frames) => w.frames[Len(v.frames) + 1].kind = "eval"

\* An expression has run: what an error has left above the flow begins with it.
Aside(v, w) ==
    /\ Beside(v, w) /\ w.evals = v.evals
    /\ Len(w.frames) > Len(v.frames) => w.frames[Len(v.frames) + 1].kind = "eval"
    /\ ~Thrown(w) => Len(w.frames) = Len(v.frames) /\ w.stack = v.stack

LEMMA FieldsAre ==
    ASSUME NEW v, NEW w, NEW A, Alike(v, w, A)
    PROVE  /\ "program" \notin A => w.program = v.program
           /\ "seed" \notin A => w.seed = v.seed
           /\ "prng" \notin A => w.prng = v.prng
           /\ "globals" \notin A => w.globals = v.globals
           /\ "visits" \notin A => w.visits = v.visits
           /\ "alts" \notin A => w.alts = v.alts
           /\ "turn" \notin A => w.turn = v.turn
           /\ "history" \notin A => w.history = v.history
           /\ "transcript" \notin A => w.transcript = v.transcript
           /\ "frames" \notin A => w.frames = v.frames
           /\ "stack" \notin A => w.stack = v.stack
           /\ "pending" \notin A => w.pending = v.pending
           /\ "views" \notin A => w.views = v.views
           /\ "status" \notin A => w.status = v.status
           /\ "lineBuf" \notin A => w.lineBuf = v.lineBuf
           /\ "replayable" \notin A => w.replayable = v.replayable
           /\ "intact" \notin A => w.intact = v.intact
           /\ "steps" \notin A => w.steps = v.steps
           /\ "evals" \notin A => w.evals = v.evals
           /\ "suspended" \notin A => w.suspended = v.suspended
           /\ "stale" \notin A => w.stale = v.stale
           /\ "astray" \notin A => w.astray = v.astray
           /\ "thrown" \notin A => w.thrown = v.thrown
  BY DEF Alike, Fields, SavedFields

\* Sound, for a running machine of which only these fields changed.
LEMMA RunningSound ==
    ASSUME NEW v, Sound(v), v.status = "running", NEW w,
           Alike(v, w, {"thrown", "replayable", "steps", "evals", "stack", "lineBuf", "globals",
                        "frames", "suspended", "stale", "astray", "intact"}),
           w.steps \in Nat, w.evals \in Nat, Listed(w.stack), Listed(w.lineBuf),
           FramesOK(v.program, w.frames), {w.suspended, w.stale, w.astray, w.intact} \subseteq BOOLEAN
    PROVE  Sound(w) /\ w.status = "running"
<1>1. /\ w.program = v.program /\ w.seed = v.seed /\ w.prng = v.prng /\ w.visits = v.visits
      /\ w.alts = v.alts /\ w.turn = v.turn /\ w.history = v.history /\ w.transcript = v.transcript
      /\ w.pending = v.pending /\ w.views = v.views /\ w.status = v.status
  BY FieldsAre
<1>2. Shape(w)
  BY DEF Alike
<1> QED BY <1>1, <1>2 DEF Sound

\* The beginning of an evaluation.
LEMMA EvalBegins ==
    ASSUME NEW v, Sound(v), v.status = "running", NEW c \in Expressions(v.program),
           NEW w, w = [v EXCEPT !.frames = Append(@, Frame(c, "eval")), !.evals = @ + 1]
    PROVE  Evaluating(v, w)
<1>1. PICK x, t : x = Frame(c, "eval") /\ t = Append(v.frames, x)
  OBVIOUS
<1>2. w = [v EXCEPT !.frames = t, !.evals = @ + 1]
  BY <1>1
<1>3. Alike(v, w, {"frames", "evals"}) /\ w.frames = t /\ w.evals = v.evals + 1
  BY <1>2 DEF Alike, Shape, Fields, SavedFields, Sound
<1>4. v.program \in DOMAIN Program /\ FramesOK(v.program, v.frames) /\ Len(v.frames) \in Nat
  BY FramesAre DEF Sound
<1>5. c \in DOMAIN Program[v.program].code
  BY <1>4, ProgramAssumption DEF WellFormed, OnlyEvaluates
<1>6. Len(Program[v.program].code[c]) \in Nat
  BY <1>4, <1>5, CodeIs
<1>7. x = [at |-> c, ip |-> 1, kind |-> "eval", temp |-> 0]
  BY <1>1 DEF Frame
<1>8. FrameOK(v.program, x) /\ x.kind = "eval"
  BY <1>5, <1>6, <1>7 DEF FrameOK
<1>9. /\ FramesOK(v.program, t) /\ Len(t) = Len(v.frames) + 1 /\ t[Len(v.frames) + 1] = x
      /\ \A k \in 1 .. Len(v.frames) : t[k] = v.frames[k]
  BY <1>1, <1>4, <1>8, FramePushed
<1>10. /\ w.program = v.program /\ w.seed = v.seed /\ w.prng = v.prng /\ w.visits = v.visits
       /\ w.turn = v.turn /\ w.history = v.history /\ w.stack = v.stack /\ w.lineBuf = v.lineBuf
       /\ w.pending = v.pending /\ w.views = v.views /\ w.status = v.status /\ w.steps = v.steps
       /\ w.suspended = v.suspended /\ w.intact = v.intact /\ w.stale = v.stale /\ w.astray = v.astray
  BY <1>3, FieldsAre
<1>11. Sound(w)
  <2>1. Alike(v, w, {"thrown", "replayable", "steps", "evals", "stack", "lineBuf", "globals",
                     "frames", "suspended", "stale", "astray", "intact"})
    BY <1>3, AlikeMore
  <2>2. /\ w.steps \in Nat /\ w.evals \in Nat /\ Listed(w.stack) /\ Listed(w.lineBuf)
        /\ {w.suspended, w.stale, w.astray, w.intact} \subseteq BOOLEAN
    BY <1>3, <1>10 DEF Sound
  <2> QED BY <1>3, <1>9, <2>1, <2>2, RunningSound
<1>12. \A d \in DOMAIN v.visits : w.visits[d] >= v.visits[d]
  BY <1>10 DEF Sound
<1>13. Beside(v, w)
  BY <1>3, <1>4, <1>9, <1>10, <1>11, <1>12 DEF Beside, SameFrame
<1> QED BY <1>3, <1>8, <1>9, <1>13 DEF Evaluating

\* A throw, or a step counted, in an evaluation.
LEMMA EvalThrows ==
    ASSUME NEW v, NEW w, Evaluating(v, w), NEW z, Alike(w, z, {"thrown", "replayable", "steps", "astray"}),
           z.steps \in Nat, z.astray \in BOOLEAN
    PROVE  Evaluating(v, z)
<1>1. /\ z.program = w.program /\ z.seed = w.seed /\ z.visits = w.visits /\ z.turn = w.turn
      /\ z.history = w.history /\ z.frames = w.frames /\ z.stack = w.stack /\ z.lineBuf = w.lineBuf
      /\ z.pending = w.pending /\ z.views = w.views /\ z.evals = w.evals
      /\ z.suspended = w.suspended /\ z.intact = w.intact /\ z.status = w.status
      /\ z.stale = w.stale
  BY FieldsAre
<1>2. Sound(w) /\ w.status = "running"
  BY DEF Evaluating, Beside
<1>3. Sound(z)
  <2>1. Alike(w, z, {"thrown", "replayable", "steps", "evals", "stack", "lineBuf", "globals",
                     "frames", "suspended", "stale", "astray", "intact"})
    BY AlikeMore
  <2>2. /\ z.evals \in Nat /\ Listed(z.stack) /\ Listed(z.lineBuf) /\ FramesOK(w.program, z.frames)
        /\ {z.suspended, z.stale, z.astray, z.intact} \subseteq BOOLEAN
    BY <1>1, <1>2 DEF Sound
  <2> QED BY <1>2, <2>1, <2>2, RunningSound
<1>4. Beside(v, z)
  BY <1>1, <1>3 DEF Evaluating, Beside
<1> QED BY <1>1, <1>4 DEF Evaluating

LEMMA ThrowEffect ==
    ASSUME NEW v, Shape(v), NEW x
    PROVE  Alike(v, Throw(v, x), {"thrown", "replayable"}) /\ Throw(v, x).thrown = x
  BY DEF Alike, Shape, Throw, Fields, SavedFields

Finished(w, base) == Thrown(w) \/ Len(w.frames) <= base

\* One turn of the evaluation.
LEMMA EvalTurnIs ==
    ASSUME NEW v, Sound(v), ~Due(v), NEW w, Evaluating(v, w)
    PROVE  LET z == EvalTurn(w, Len(v.frames))
           IN /\ Evaluating(v, z)
              /\ Finished(w, Len(v.frames)) => z = w
              /\ ~Finished(w, Len(v.frames)) /\ ~Finished(z, Len(v.frames)) =>
                    z.steps = w.steps + 1 /\ z.steps <= MaxSteps
<1> DEFINE n == Len(v.frames)
           m == Len(w.frames)
<1>1. PICK z : z = EvalTurn(w, n)
  OBVIOUS
<1>2. /\ Sound(w) /\ w.status = "running" /\ ~Due(w) /\ Shape(w) /\ w.program = v.program
      /\ w.steps \in Nat /\ n \in Nat /\ m \in Nat \ {0} /\ FramesOK(w.program, w.frames)
      /\ DOMAIN w.frames = 1 .. m
  <2>1. Sound(w) /\ w.status = "running" /\ ~Due(w) /\ w.program = v.program
    BY DEF Evaluating, Beside, Due
  <2> QED BY <2>1, FramesAre DEF Sound
<1>3. CASE Finished(w, n)
  <2>1. (Thrown(w) \/ m <= n) /\ ~(~Thrown(w) /\ m > n)
    BY <1>2, <1>3 DEF Finished
  <2>2. z = w
    BY <1>1, <2>1 DEF EvalTurn
  <2> QED BY <1>1, <1>3, <2>2
<1>4. CASE ~Finished(w, n) /\ Spent(w)
  <2>0. ~Thrown(w) /\ ~(m <= n) /\ m > n
    BY <1>2, <1>4 DEF Finished
  <2>1. z = Throw(w, "step budget")
    BY <1>1, <1>4, <2>0 DEF EvalTurn
  <2>2. Alike(w, z, {"thrown", "replayable"}) /\ z.thrown = "step budget"
    BY <1>2, <2>1, ThrowEffect
  <2>3. /\ Alike(w, z, {"thrown", "replayable", "steps", "astray"}) /\ z.steps = w.steps
        /\ z.astray = w.astray
    BY <2>2 DEF Alike, Fields, SavedFields
  <2>6. z.steps \in Nat /\ z.astray \in BOOLEAN
    BY <1>2, <2>3 DEF Sound
  <2>4. Evaluating(v, z)
    BY <2>3, <2>6, EvalThrows
  <2>5. Finished(z, n)
    BY <2>2 DEF Finished, Thrown
  <2> QED BY <1>1, <1>4, <2>4, <2>5
<1>5. CASE ~Finished(w, n) /\ ~Spent(w) /\ RanOff(w)
  <2>0. ~Thrown(w) /\ ~(m <= n) /\ m > n
    BY <1>2, <1>5 DEF Finished
  <2>1. z = Throw([w EXCEPT !.steps = @ + 1], "ran off the end")
    BY <1>1, <1>5, <2>0 DEF EvalTurn
  <2>2. PICK u : u = [w EXCEPT !.steps = @ + 1]
    OBVIOUS
  <2>3. Alike(w, u, {"steps"}) /\ u.steps = w.steps + 1 /\ Shape(u)
    BY <1>2, <2>2 DEF Alike, Shape, Fields, SavedFields
  <2>4. Alike(u, z, {"thrown", "replayable"}) /\ z.thrown = "ran off the end"
    BY <2>1, <2>2, <2>3, ThrowEffect
  <2>5. /\ Alike(w, z, {"thrown", "replayable", "steps", "astray"}) /\ z.steps = w.steps + 1
        /\ z.astray = w.astray
    BY <2>3, <2>4 DEF Alike, Fields, SavedFields
  <2>8. z.steps \in Nat /\ z.astray \in BOOLEAN
    BY <1>2, <2>5 DEF Sound
  <2>6. Evaluating(v, z)
    BY <2>5, <2>8, EvalThrows
  <2>7. Finished(z, n)
    BY <2>4 DEF Finished, Thrown
  <2> QED BY <1>1, <1>5, <2>6, <2>7
<1>7. CASE ~Finished(w, n) /\ ~Spent(w) /\ ~RanOff(w) /\ Strays(w)
  <2>1. PICK u : u = Fetched(w)
    OBVIOUS
  <2>2. z = Astray(u)
    BY <1>1, <1>2, <1>7, <2>1 DEF EvalTurn, Finished
  <2>3. /\ Sound(u) /\ Alike(w, u, {"frames", "steps"}) /\ u.steps = w.steps + 1 /\ Len(u.frames) = m
        /\ \A k \in 1 .. m - 1 : u.frames[k] = w.frames[k]
        /\ Top(u).kind = Top(w).kind
    BY <1>2, <1>7, <2>1, FetchedIs
  <2>4. m > n
    BY <1>2, <1>7 DEF Finished
  <2>5. /\ u.program = w.program /\ u.seed = w.seed /\ u.visits = w.visits /\ u.turn = w.turn
        /\ u.history = w.history /\ u.pending = w.pending /\ u.views = w.views /\ u.evals = w.evals
        /\ u.suspended = w.suspended /\ u.stale = w.stale /\ u.intact = w.intact
        /\ u.status = w.status
    BY <2>3, FieldsAre
  <2>6. Beside(v, u)
    <3>1. \A k \in 1 .. n : u.frames[k] = w.frames[k]
      BY <1>2, <2>3, <2>4
    <3> QED BY <1>2, <2>3, <2>4, <2>5, <3>1 DEF Evaluating, Beside
  <2>7. u.frames[n + 1].kind = "eval"
    <3>1. w.frames[n + 1].kind = "eval"
      BY <2>4 DEF Evaluating
    <3>2. CASE n + 1 = m
      BY <2>3, <3>1, <3>2 DEF Top
    <3>3. CASE n + 1 # m
      BY <1>2, <2>3, <2>4, <3>1, <3>3
    <3> QED BY <3>2, <3>3
  <2>8. Evaluating(v, u)
    BY <2>5, <2>6, <2>7 DEF Evaluating
  <2>9. PICK y : y = [u EXCEPT !.astray = TRUE]
    OBVIOUS
  <2>10. Alike(u, y, {"astray"}) /\ y.astray = TRUE /\ Shape(y)
    BY <2>3, <2>9 DEF Alike, Shape, Fields, SavedFields, Sound
  <2>11. Alike(y, z, {"thrown", "replayable"}) /\ z.thrown = "astray"
    BY <2>2, <2>9, <2>10, ThrowEffect DEF Astray
  <2>12. /\ Alike(u, z, {"thrown", "replayable", "steps", "astray"}) /\ z.steps = u.steps
         /\ z.astray = TRUE
    BY <2>10, <2>11 DEF Alike, Fields, SavedFields
  <2>13. z.steps \in Nat /\ z.astray \in BOOLEAN
    BY <2>3, <2>12 DEF Sound
  <2>14. Evaluating(v, z)
    BY <2>8, <2>12, <2>13, EvalThrows
  <2>15. Finished(z, n)
    BY <2>11 DEF Finished, Thrown
  <2> QED BY <1>1, <1>7, <2>14, <2>15
<1>6. CASE ~Finished(w, n) /\ ~Spent(w) /\ ~RanOff(w) /\ ~Strays(w)
  <2>1. PICK u, i : u = Fetched(w) /\ i = Instruction(w)
    OBVIOUS
  <2>2. z = Execute(u, i)
    BY <1>1, <1>2, <1>6, <2>1 DEF EvalTurn, Finished
  <2>3. /\ Executing(u, i) /\ Alike(w, u, {"frames", "steps"})
        /\ u.steps = w.steps + 1 /\ Len(u.frames) = m
        /\ \A k \in 1 .. m - 1 : u.frames[k] = w.frames[k]
        /\ Top(u).at = Top(w).at /\ Top(u).kind = Top(w).kind
    BY <1>2, <1>6, <2>1, FetchedIs
  <2>4. /\ u.program = w.program /\ u.seed = w.seed /\ u.visits = w.visits /\ u.turn = w.turn
        /\ u.history = w.history /\ u.pending = w.pending /\ u.views = w.views /\ u.evals = w.evals
        /\ u.suspended = w.suspended /\ u.stale = w.stale /\ u.intact = w.intact
        /\ u.status = w.status /\ ~Due(u)
    BY <1>2, <2>3, FieldsAre DEF Due
  <2>5. m > n /\ w.frames[n + 1].kind = "eval" /\ w.evals > 0
    <3>1. m > n
      BY <1>2, <1>6 DEF Finished
    <3>2. v.evals \in Nat
      BY DEF Sound
    <3> QED BY <3>1, <3>2 DEF Evaluating
  <2>6. HasExpression(u)
    <3>1. n \in Nat /\ n # 0
      BY FramesAre DEF Sound
    <3>2. m \in Nat /\ DOMAIN u.frames = 1 .. m
      <4>1. FramesOK(u.program, u.frames)
        BY <2>3 DEF Executing, Sound
      <4> QED BY <2>3, <4>1, FramesAre
    <3>3. u.frames[n + 1].kind = "eval"
      <4>1. CASE n + 1 = m
        <5>1. Top(w) = w.frames[n + 1] /\ Top(u) = u.frames[n + 1]
          BY <2>3, <4>1 DEF Top
        <5> QED BY <2>3, <2>5, <5>1
      <4>2. CASE n + 1 # m
        <5>1. n + 1 \in 1 .. m - 1
          BY <2>5, <3>1, <3>2, <4>2
        <5> QED BY <2>3, <2>5, <5>1
      <4> QED BY <4>1, <4>2
    <3>4. n + 1 \in DOMAIN u.frames
      BY <2>5, <3>1, <3>2
    <3> QED BY <3>3, <3>4 DEF HasExpression
  <2>7. i.op # "present"
    BY <2>3, <2>6, InExpression
  <2>8. Outcome(u, z)
    BY <1>2, <2>2, <2>3, <2>4, <2>7, ExecuteGood DEF Good
  <2>9. /\ Sound(z) /\ z.status = "running" /\ z.pending = w.pending
        /\ z.suspended = w.suspended /\ z.stale = w.stale
        /\ \A k \in 1 .. m - 1 : SameFrame(w.frames[k], z.frames[k])
        /\ Len(z.frames) >= m - 1
        /\ m <= Len(z.frames) => z.frames[m].kind = Top(u).kind
    BY <1>2, <2>3, <2>4, <2>5, <2>6, <2>8 DEF Outcome, SameFrame
  <2>10. /\ z.program = w.program /\ z.seed = w.seed /\ z.turn = w.turn /\ z.history = w.history
         /\ z.views = w.views /\ z.evals = w.evals /\ z.intact = w.intact /\ z.steps = w.steps + 1
    BY <2>3, <2>4, <2>8 DEF Outcome, Kept
  <2>11. \A c \in DOMAIN v.visits : z.visits[c] >= v.visits[c]
    <3>1. DOMAIN v.visits = DOMAIN w.visits /\ \A c \in DOMAIN w.visits : z.visits[c] >= w.visits[c]
      BY <1>2, <2>4, <2>8 DEF Outcome, Sound
    <3>2. \A c \in DOMAIN w.visits : z.visits[c] \in Int /\ w.visits[c] \in Int /\ v.visits[c] \in Int
      BY <1>2, <2>9, <2>10 DEF Sound
    <3>3. \A c \in DOMAIN v.visits : w.visits[c] >= v.visits[c]
      BY DEF Evaluating, Beside
    <3> QED BY <3>1, <3>2, <3>3
  <2>12. Len(z.frames) \in Nat
    BY <2>9, FramesAre DEF Sound
  <2>13. Beside(v, z)
    <3>1. \A k \in 1 .. n : k \in 1 .. m - 1
      BY <1>2, <2>5
    <3>2. \A k \in 1 .. n : SameFrame(v.frames[k], z.frames[k])
      BY <2>9, <3>1 DEF Evaluating, Beside, SameFrame
    <3>3. Len(z.frames) >= n
      BY <1>2, <2>5, <2>9, <2>12
    <3> QED BY <2>9, <2>10, <2>11, <3>2, <3>3 DEF Evaluating, Beside
  <2>14. Len(z.frames) > n => z.frames[n + 1].kind = "eval"
    <3>1. CASE n + 1 \in 1 .. m - 1
      BY <2>5, <2>9, <3>1 DEF SameFrame
    <3>2. CASE n + 1 = m
      <4>1. Top(u).kind = "eval"
        BY <2>3, <2>5, <3>2 DEF Top
      <4> QED BY <1>2, <2>9, <2>12, <3>2, <4>1
    <3> QED BY <1>2, <2>5, <3>1, <3>2
  <2>15. Evaluating(v, z)
    BY <2>10, <2>13, <2>14 DEF Evaluating
  <2>16. z.steps <= MaxSteps
    BY <1>2, <1>6, <2>10, ForgeAssumption DEF Spent
  <2> QED BY <1>1, <1>6, <2>10, <2>15, <2>16
<1> QED BY <1>3, <1>4, <1>5, <1>6, <1>7

\* The four turns, one by one.
LEMMA EvalTurnsUnfold ==
    ASSUME NEW v, NEW n
    PROVE  EvalTurns(v, n) = IF Thrown(v) \/ Len(v.frames) <= n THEN v ELSE EvalTurn(EvalTurn(EvalTurn(EvalTurn(v, n), n), n), n)
<1>1. PICK a, b, c, d : /\ a = EvalTurn(v, n) /\ b = EvalTurn(EvalTurn(v, n), n)
                        /\ c = EvalTurn(EvalTurn(EvalTurn(v, n), n), n)
                        /\ d = EvalTurn(EvalTurn(EvalTurn(EvalTurn(v, n), n), n), n)
  OBVIOUS
<1>2. b = EvalTurn(a, n) /\ c = EvalTurn(b, n) /\ d = EvalTurn(c, n)
  BY <1>1
<1> DEFINE Run(f) == f = [k \in 0 .. 4 |-> IF k = 0 THEN v ELSE EvalTurn(f[k - 1], n)]
           F == CHOOSE f : Run(f)
<1>3. \E f : Run(f)
  <2>1. PICK g : g = [k \in 0 .. 4 |-> IF k = 0 THEN v ELSE IF k = 1 THEN a ELSE IF k = 2 THEN b
                                       ELSE IF k = 3 THEN c ELSE d]
    OBVIOUS
  <2>2. ASSUME NEW k \in 0 .. 4 PROVE g[k] = IF k = 0 THEN v ELSE EvalTurn(g[k - 1], n)
    <3>1. k = 0 \/ k = 1 \/ k = 2 \/ k = 3 \/ k = 4
      OBVIOUS
    <3>2. g[0] = v /\ g[1] = a /\ g[2] = b /\ g[3] = c /\ g[4] = d
      BY <2>1
    <3>3. CASE k = 0
      BY <3>2, <3>3
    <3>4. CASE k = 1
      BY <1>1, <3>2, <3>4
    <3>5. CASE k = 2
      BY <1>2, <3>2, <3>5
    <3>6. CASE k = 3
      BY <1>2, <3>2, <3>6
    <3>7. CASE k = 4
      BY <1>2, <3>2, <3>7
    <3> QED BY <3>1, <3>3, <3>4, <3>5, <3>6, <3>7
  <2>3. Run(g)
    BY <2>1, <2>2
  <2> QED BY <2>3
<1>4. Run(F)
  BY <1>3
<1>5. EvalTurns(v, n) = IF Thrown(v) \/ Len(v.frames) <= n THEN v ELSE F[4]
  BY DEF EvalTurns
<1> HIDE DEF F
<1>6. F[0] = v /\ F[1] = EvalTurn(F[0], n) /\ F[2] = EvalTurn(F[1], n)
      /\ F[3] = EvalTurn(F[2], n) /\ F[4] = EvalTurn(F[3], n)
  BY <1>4
<1>7. F[4] = d
  BY <1>1, <1>2, <1>6
<1> QED BY <1>1, <1>5, <1>7

\* Four turns.
LEMMA EvalTurnsIs ==
    ASSUME NEW v, Sound(v), ~Due(v), NEW w, Evaluating(v, w)
    PROVE  LET z == EvalTurns(w, Len(v.frames))
           IN /\ Evaluating(v, z)
              /\ Finished(w, Len(v.frames)) => z = w
              /\ ~Finished(z, Len(v.frames)) => z.steps = w.steps + 4 /\ z.steps <= MaxSteps
<1> DEFINE n == Len(v.frames)
<1>1. PICK a : a = EvalTurn(w, n)
  OBVIOUS
<1>2. PICK b : b = EvalTurn(a, n)
  OBVIOUS
<1>3. PICK c : c = EvalTurn(b, n)
  OBVIOUS
<1>4. PICK d : d = EvalTurn(c, n)
  OBVIOUS
<1>5. Evaluating(v, a) /\ (Finished(w, n) => a = w)
      /\ (~Finished(w, n) /\ ~Finished(a, n) => a.steps = w.steps + 1)
  BY <1>1, EvalTurnIs
<1>6. Evaluating(v, b) /\ (Finished(a, n) => b = a)
      /\ (~Finished(a, n) /\ ~Finished(b, n) => b.steps = a.steps + 1)
  BY <1>2, <1>5, EvalTurnIs
<1>7. Evaluating(v, c) /\ (Finished(b, n) => c = b)
      /\ (~Finished(b, n) /\ ~Finished(c, n) => c.steps = b.steps + 1)
  BY <1>3, <1>6, EvalTurnIs
<1>8. Evaluating(v, d) /\ (Finished(c, n) => d = c)
      /\ (~Finished(c, n) /\ ~Finished(d, n) => d.steps = c.steps + 1 /\ d.steps <= MaxSteps)
  BY <1>4, <1>7, EvalTurnIs
<1>9. EvalTurns(w, n) = IF Finished(w, n) THEN w ELSE d
  BY <1>1, <1>2, <1>3, <1>4, EvalTurnsUnfold DEF Finished
<1>10. w.steps \in Nat /\ a.steps \in Nat /\ b.steps \in Nat /\ c.steps \in Nat
  BY <1>5, <1>6, <1>7 DEF Evaluating, Beside, Sound
<1>11. CASE Finished(w, n)
  BY <1>9, <1>11
<1>12. CASE ~Finished(w, n)
  <2>1. ~Finished(d, n) => d.steps = w.steps + 4 /\ d.steps <= MaxSteps
    BY <1>5, <1>6, <1>7, <1>8, <1>10, <1>12
  <2> QED BY <1>8, <1>9, <1>12, <2>1
<1> QED BY <1>11, <1>12

\* EvalLoop, round by round.
EvalLoopRun(vm, base, N, f) ==
    /\ f[0] = vm /\ EvalLoop(vm, base) = f[N]
    /\ \A k \in 1 .. N : f[k] = EvalTurns(f[k - 1], base)

LEMMA EvalLoopUnfolds ==
    ASSUME NEW vm, NEW base, NEW N \in Nat, N = Rounds
    PROVE  \E f : EvalLoopRun(vm, base, N, f)
<1> DEFINE Run(f, m) == f = [k \in 0 .. m |-> IF k = 0 THEN vm ELSE EvalTurns(f[k - 1], base)]
           K == {m \in Nat : \E f : Run(f, m)}
           F == CHOOSE f : Run(f, N)
<1>1. ASSUME NEW M \in Nat PROVE \E f : Run(f, M)
  <2>1. 0 \in K
    <3>1. Run([k \in 0 .. 0 |-> vm], 0)
      OBVIOUS
    <3> QED BY <3>1
  <2>2. ASSUME NEW m \in 1 .. M, m - 1 \in K PROVE m \in K
    <3>1. PICK f : Run(f, m - 1)
      BY <2>2
    <3>2. PICK g : g = [k \in 0 .. m |-> IF k = m THEN EvalTurns(f[m - 1], base) ELSE f[k]]
      OBVIOUS
    <3>3. ASSUME NEW k \in 0 .. m PROVE g[k] = IF k = 0 THEN vm ELSE EvalTurns(g[k - 1], base)
      <4>1. k # 0 => g[k - 1] = f[k - 1]
        BY <3>2
      <4>2. CASE k = m
        BY <3>2, <4>1, <4>2
      <4>3. CASE k \in 0 .. m - 1
        BY <3>1, <3>2, <4>1, <4>3
      <4> QED BY <4>2, <4>3
    <3>4. Run(g, m)
      BY <3>2, <3>3
    <3> QED BY <3>4
  <2> HIDE DEF K
  <2>3. M \in K
    BY <2>1, <2>2, Upto
  <2> QED BY <2>3 DEF K
<1>2. Run(F, N)
  BY <1>1
<1>3. EvalLoop(vm, base) = F[N]
  BY DEF EvalLoop
<1> HIDE DEF F
<1>4. F[0] = vm
  BY <1>2
<1>5. \A k \in 1 .. N : F[k] = EvalTurns(F[k - 1], base)
  BY <1>2
<1>6. EvalLoopRun(vm, base, N, F)
  BY <1>3, <1>4, <1>5 DEF EvalLoopRun
<1> QED BY <1>6

LEMMA RoundsIs == Rounds \in Nat \ {0} /\ 4 * Rounds > MaxSteps
<1>1. MaxSteps \in Nat \ {0}
  BY ForgeAssumption
<1>2. PICK q : q = MaxSteps \div 4
  OBVIOUS
<1>3. q \in Nat /\ MaxSteps < 4 * (q + 1)
  BY <1>1, <1>2
<1> QED BY <1>2, <1>3 DEF Rounds

\* The loop comes to an end: each turn counts a step.
LEMMA EvalLoopIs ==
    ASSUME NEW v, Sound(v), ~Due(v), NEW w, Evaluating(v, w)
    PROVE  LET z == EvalLoop(w, Len(v.frames)) IN Evaluating(v, z) /\ Finished(z, Len(v.frames))
<1> DEFINE n == Len(v.frames)
<1>1. PICK N : N = Rounds /\ N \in Nat \ {0} /\ 4 * N > MaxSteps
  BY RoundsIs
<1>2. PICK f : EvalLoopRun(w, n, N, f)
  BY <1>1, EvalLoopUnfolds
<1>3. f[0] = w /\ EvalLoop(w, n) = f[N] /\ \A k \in 1 .. N : f[k] = EvalTurns(f[k - 1], n)
  BY <1>2 DEF EvalLoopRun
<1> DEFINE K == {k \in 0 .. N : /\ Evaluating(v, f[k])
                                /\ Finished(f[k], n) \/ k = 0 \/ (4 * k <= f[k].steps /\ f[k].steps <= MaxSteps)}
<1>4. 0 \in K
  BY <1>1, <1>3
<1>5. ASSUME NEW k \in 1 .. N, k - 1 \in K PROVE k \in K
  <2>1. PICK j, x, y : j = k - 1 /\ x = f[j] /\ y = f[k]
    OBVIOUS
  <2>2. /\ Evaluating(v, x) /\ y = EvalTurns(x, n) /\ k = j + 1 /\ j \in Nat
        /\ (Finished(x, n) \/ j = 0 \/ 4 * j <= x.steps)
    BY <1>3, <1>5, <2>1
  <2>3. /\ Evaluating(v, y) /\ (Finished(x, n) => y = x)
        /\ (~Finished(y, n) => y.steps = x.steps + 4 /\ y.steps <= MaxSteps)
    BY <2>2, EvalTurnsIs
  <2>4. x.steps \in Nat
    BY <2>2 DEF Evaluating, Beside, Sound
  <2>5. Finished(y, n) \/ (4 * k <= y.steps /\ y.steps <= MaxSteps)
    <3>1. CASE Finished(x, n)
      BY <2>3, <3>1
    <3>2. CASE ~Finished(x, n) /\ ~Finished(y, n)
      <4>1. 4 * j <= x.steps
        BY <2>2, <2>4, <3>2
      <4> QED BY <2>2, <2>3, <2>4, <3>2, <4>1
    <3> QED BY <3>1, <3>2
  <2> QED BY <2>1, <2>3, <2>5
<1>6. N \in K
  <2> HIDE DEF K
  <2> QED BY <1>1, <1>4, <1>5, Upto
<1>7. f[N].steps \in Nat /\ MaxSteps \in Nat
  BY <1>6, ForgeAssumption DEF Evaluating, Beside, Sound
<1>8. Finished(f[N], n)
  BY <1>1, <1>6, <1>7
<1> QED BY <1>3, <1>6, <1>8

\* A machine that runs, of which only the output or a counter changed.
LEMMA BesideMore ==
    ASSUME NEW v, NEW w, Beside(v, w), NEW z, Alike(w, z, {"lineBuf", "stack", "evals", "globals"}),
           Listed(z.lineBuf), Listed(z.stack), z.evals \in Nat
    PROVE  Beside(v, z)
<1>1. /\ z.program = w.program /\ z.seed = w.seed /\ z.visits = w.visits /\ z.turn = w.turn
      /\ z.history = w.history /\ z.frames = w.frames /\ z.pending = w.pending
      /\ z.views = w.views /\ z.suspended = w.suspended /\ z.intact = w.intact
      /\ z.status = w.status /\ z.steps = w.steps /\ z.stale = w.stale /\ z.astray = w.astray
  BY FieldsAre
<1>2. Sound(w) /\ w.status = "running"
  BY DEF Beside
<1>3. Alike(w, z, {"thrown", "replayable", "steps", "evals", "stack", "lineBuf", "globals",
                   "frames", "suspended", "stale", "astray", "intact"})
  BY AlikeMore
<1>4. /\ z.steps \in Nat /\ FramesOK(w.program, z.frames)
      /\ {z.suspended, z.stale, z.astray, z.intact} \subseteq BOOLEAN
  BY <1>1, <1>2 DEF Sound
<1>5. Sound(z)
  BY <1>2, <1>3, <1>4, RunningSound
<1> QED BY <1>1, <1>5 DEF Beside

\* evalContainer leaves the flow where it is.
LEMMA EvalAside ==
    ASSUME NEW v, Sound(v), v.status = "running", ~Due(v), NEW c \in Expressions(v.program)
    PROVE  Aside(v, Eval(v, c).vm)
<1> DEFINE n == Len(v.frames)
<1>1. PICK w : w = [v EXCEPT !.frames = Append(@, Frame(c, "eval")), !.evals = @ + 1]
  OBVIOUS
<1>2. PICK r : r = EvalLoop(w, n)
  OBVIOUS
<1>3. Evaluating(v, w)
  BY <1>1, EvalBegins
<1>4. Evaluating(v, r) /\ Finished(r, n)
  BY <1>2, <1>3, EvalLoopIs
<1>5. PICK z : z = Eval(v, c).vm
  OBVIOUS
<1>6. Eval(v, c) = Yielded(v, r)
  BY <1>1, <1>2 DEF Eval
<1>7. /\ Beside(v, r) /\ Sound(r) /\ Shape(r) /\ r.program = v.program /\ r.evals = v.evals + 1
      /\ v.evals \in Nat /\ Listed(v.stack) /\ Listed(r.stack) /\ Listed(r.lineBuf)
  BY <1>4 DEF Evaluating, Beside, Sound
<1>8. /\ n \in Nat /\ Len(r.frames) \in Nat /\ FramesOK(r.program, r.frames)
      /\ DOMAIN r.frames = 1 .. Len(r.frames)
  <2>1. FramesOK(v.program, v.frames) /\ FramesOK(r.program, r.frames)
    BY <1>7 DEF Sound
  <2> QED BY <2>1, FramesAre
<1>9. CASE Thrown(r)
  <2>1. z = [r EXCEPT !.evals = @ - 1]
    BY <1>5, <1>6, <1>9 DEF Yielded
  <2>2. Alike(r, z, {"evals"}) /\ z.evals = r.evals - 1
    BY <1>7, <2>1 DEF Alike, Shape, Fields, SavedFields
  <2>3. /\ z.frames = r.frames /\ z.thrown = r.thrown /\ z.evals = v.evals /\ z.stack = r.stack
        /\ z.lineBuf = r.lineBuf
    <3>1. z.frames = r.frames /\ z.thrown = r.thrown /\ z.stack = r.stack /\ z.lineBuf = r.lineBuf
      BY <2>2, FieldsAre
    <3> QED BY <1>7, <2>2, <3>1
  <2>4. Beside(v, z)
    <3>1. Alike(r, z, {"lineBuf", "stack", "evals", "globals"})
      BY <2>2, AlikeMore
    <3> QED BY <1>7, <2>3, <3>1, BesideMore
  <2>5. Len(z.frames) > n => z.frames[n + 1].kind = "eval"
    BY <1>4, <2>3 DEF Evaluating
  <2> QED BY <1>5, <1>9, <2>3, <2>4, <2>5 DEF Aside, Thrown
<1>10. CASE ~Thrown(r)
  <2>1. z = [r EXCEPT !.evals = @ - 1, !.stack = v.stack]
    BY <1>5, <1>6, <1>10 DEF Yielded
  <2>2. Alike(r, z, {"evals", "stack"}) /\ z.evals = r.evals - 1 /\ z.stack = v.stack
    BY <1>7, <2>1 DEF Alike, Shape, Fields, SavedFields
  <2>3. /\ z.frames = r.frames /\ z.thrown = r.thrown /\ z.evals = v.evals
        /\ z.lineBuf = r.lineBuf
    <3>1. z.frames = r.frames /\ z.thrown = r.thrown /\ z.lineBuf = r.lineBuf
      BY <2>2, FieldsAre
    <3> QED BY <1>7, <2>2, <3>1
  <2>4. Beside(v, z)
    <3>1. Alike(r, z, {"lineBuf", "stack", "evals", "globals"})
      BY <2>2, AlikeMore
    <3> QED BY <1>7, <2>2, <2>3, <3>1, BesideMore
  <2>5. Len(r.frames) = n
    <3>1. Len(r.frames) <= n
      BY <1>4, <1>10 DEF Finished
    <3>2. Len(r.frames) >= n
      BY <1>7 DEF Beside
    <3> QED BY <1>8, <3>1, <3>2
  <2>6. ~(Len(z.frames) > n)
    BY <1>8, <2>3, <2>5
  <2> QED BY <1>5, <2>2, <2>3, <2>4, <2>5, <2>6 DEF Aside
<1> QED BY <1>9, <1>10

LEMMA AsideSelf ==
    ASSUME NEW v, Sound(v), v.status = "running"
    PROVE  Aside(v, v)
<1>1. Len(v.frames) \in Nat
  BY FramesAre DEF Sound
<1>2. \A c \in DOMAIN v.visits : v.visits[c] >= v.visits[c]
  BY DEF Sound
<1>3. ~(Len(v.frames) > Len(v.frames))
  BY <1>1
<1> QED BY <1>1, <1>2, <1>3 DEF Aside, Beside, SameFrame

\* One expression after the other.
LEMMA AsideTrans ==
    ASSUME NEW v, Sound(v), NEW w, Aside(v, w), ~Thrown(w), NEW z, Aside(w, z)
    PROVE  Aside(v, z)
<1>1. Sound(w) /\ Sound(z) /\ Len(w.frames) = Len(v.frames) /\ w.program = v.program
      /\ w.stack = v.stack /\ w.evals = v.evals
  BY DEF Aside, Beside
<1>2. ASSUME NEW c \in DOMAIN v.visits PROVE z.visits[c] >= v.visits[c]
  <2>1. DOMAIN w.visits = DOMAIN v.visits
    BY <1>1 DEF Sound
  <2>2. z.visits[c] >= w.visits[c] /\ w.visits[c] >= v.visits[c]
    BY <1>2, <2>1 DEF Aside, Beside
  <2>3. z.visits[c] \in Int /\ w.visits[c] \in Int /\ v.visits[c] \in Int
    <3>1. z.program = v.program
      BY <1>1 DEF Aside, Beside
    <3> QED BY <1>1, <1>2, <3>1 DEF Sound
  <2> QED BY <2>2, <2>3
<1>3. Beside(v, z)
  BY <1>1, <1>2 DEF Aside, Beside, SameFrame
<1> QED BY <1>1, <1>3 DEF Aside

\* The output of an expression goes elsewhere.
LEMMA AsideLine ==
    ASSUME NEW v, NEW w, Aside(v, w), NEW x, Listed(x)
    PROVE  LET z == [w EXCEPT !.lineBuf = x] IN Aside(v, z) /\ z.thrown = w.thrown
<1>1. PICK z : z = [w EXCEPT !.lineBuf = x]
  OBVIOUS
<1>2. Sound(w) /\ Shape(w) /\ Beside(v, w)
  BY DEF Aside, Beside, Sound
<1>3. Alike(w, z, {"lineBuf"}) /\ z.lineBuf = x
  BY <1>1, <1>2 DEF Alike, Shape, Fields, SavedFields
<1>4. z.frames = w.frames /\ z.stack = w.stack /\ z.evals = w.evals /\ z.thrown = w.thrown
  BY <1>3, FieldsAre
<1>5. Beside(v, z)
  <2>1. Alike(w, z, {"lineBuf", "stack", "evals", "globals"})
    BY <1>3, AlikeMore
  <2>2. Listed(z.stack) /\ z.evals \in Nat
    BY <1>2, <1>4 DEF Sound
  <2> QED BY <1>2, <1>3, <2>1, <2>2, BesideMore
<1>6. Aside(v, z)
  BY <1>4, <1>5 DEF Aside, Thrown
<1> QED BY <1>1, <1>4, <1>6

-----------------------------------------------------------------------------
(* Offering the choices.                                                   *)

\* A body begins with the count of its visits.
Entrance(p, c) ==
    /\ c \in DOMAIN Program[p].code /\ Len(Program[p].code[c]) > 0
    /\ Program[p].code[c][1] = [op |-> "visit", of |-> c]

LEMMA ChoiceIs ==
    ASSUME NEW p \in DOMAIN Program, NEW i \in ChoicesOf(p)
    PROVE  /\ i.text \in Expressions(p) /\ (i.cond # "" => i.cond \in Expressions(p))
           /\ Entrance(p, i.body)
<1>1. PICK c, k : /\ c \in DOMAIN Program[p].code /\ k \in DOMAIN Program[p].code[c]
                  /\ Program[p].code[c][k].op = "choice" /\ i = Program[p].code[c][k].choice
  BY DEF ChoicesOf
<1>2. WellPlaced(p, c, k)
  BY <1>1, ProgramAssumption DEF WellFormed
<1>3. i.body \in DOMAIN Program[p].code /\ Entrance(p, i.body)
  BY <1>1, <1>2 DEF WellPlaced, Entrance
<1> QED BY <1>3 DEF Expressions

\* A choice on view is one of the pending ones, and not spent.
OfferedFrom(v, x) ==
    \E j \in DOMAIN v.pending :
        /\ v.pending[j].body = x.body /\ v.pending[j].sticky = x.sticky /\ ~v.pending[j].fallback
        /\ x.sticky \/ v.visits[x.body] = 0

\* Some of the pending choices of v have been looked at.
Offering(v, r) ==
    /\ r = [vm |-> r.vm, visible |-> r.visible, fallbacks |-> r.fallbacks]
    /\ Aside(v, r.vm)
    /\ Listed(r.visible) /\ \A k \in DOMAIN r.visible : OfferedFrom(v, r.visible[k])
    /\ Listed(r.fallbacks)
    /\ \A k \in DOMAIN r.fallbacks : Entrance(v.program, r.fallbacks[k])

\* Another entry of a sequence whose entries are alike.
LEMMA AppendAll ==
    ASSUME NEW s, Listed(s), NEW x, NEW S, \A k \in DOMAIN s : s[k] \in S, x \in S
    PROVE  Listed(Append(s, x)) /\ \A k \in DOMAIN Append(s, x) : Append(s, x)[k] \in S
<1>1. PICK t, n : t = Append(s, x) /\ n = Len(s)
  OBVIOUS
<1>2. /\ Listed(t) /\ DOMAIN t = 1 .. n + 1 /\ t[n + 1] = x /\ n \in Nat /\ DOMAIN s = 1 .. n
      /\ \A k \in 1 .. n : t[k] = s[k]
  BY <1>1, AppendListed, ListedIs
<1>3. ASSUME NEW k \in 1 .. n + 1 PROVE t[k] \in S
  <2>1. CASE k \in 1 .. n
    BY <1>2, <2>1
  <2>2. CASE k = n + 1
    BY <1>2, <2>2
  <2> QED BY <1>2, <2>1, <2>2
<1> QED BY <1>1, <1>2, <1>3

LEMMA OfferedIs ==
    ASSUME NEW v, Sound(v), ~Due(v), NEW r, Offering(v, r), NEW j \in DOMAIN v.pending
    PROVE  Offering(v, Offered(r, v.pending[j]))
<1>1. PICK p, u, z : p = v.pending[j] /\ u = r.vm /\ z = Offered(r, p)
  OBVIOUS
<1>2. /\ v.program \in DOMAIN Program /\ p \in ChoicesOf(v.program)
      /\ v.visits \in [DOMAIN Program[v.program].code -> Nat]
  BY <1>1 DEF Sound, ToSet
<1>3. /\ p.text \in Expressions(v.program) /\ (p.cond # "" => p.cond \in Expressions(v.program))
      /\ Entrance(v.program, p.body)
  BY <1>2, ChoiceIs
<1>4. Aside(v, u)
  BY <1>1 DEF Offering
<1>5. CASE Thrown(u) \/ ~Once(u, p)
  BY <1>1, <1>5 DEF Offered
<1>6. CASE ~Thrown(u) /\ Once(u, p)
  <2>1. PICK cond : cond = IF p.cond = "" THEN [vm |-> u, value |-> 1] ELSE Eval(u, p.cond)
    OBVIOUS
  <2>2. z = OfferedIf(r, p, cond)
    BY <1>1, <1>6, <2>1 DEF Offered
  <2>3. PICK c : c = cond.vm
    OBVIOUS
  <2>4. Aside(v, c)
    <3>1. CASE p.cond = ""
      BY <1>4, <2>1, <2>3, <3>1
    <3>2. CASE p.cond # ""
      <4>1. p.cond \in Expressions(u.program) /\ Sound(u) /\ u.status = "running" /\ ~Due(u)
        BY <1>3, <1>4, <3>2 DEF Aside, Beside, Due
      <4>2. Aside(u, c)
        BY <2>1, <2>3, <3>2, <4>1, EvalAside
      <4> QED BY <1>4, <1>6, <4>2, AsideTrans
    <3> QED BY <3>1, <3>2
  <2>5. p.sticky \/ v.visits[p.body] = 0
    <3>1. p.sticky \/ u.visits[p.body] = 0
      BY <1>6 DEF Once
    <3>2. p.body \in DOMAIN v.visits
      BY <1>2, <1>3 DEF Entrance
    <3>3. u.visits[p.body] >= v.visits[p.body] /\ v.visits[p.body] \in Nat
      BY <1>2, <1>4, <3>2 DEF Aside, Beside
    <3> QED BY <3>1, <3>3
  <2>6. CASE Thrown(c) \/ cond.value = 0
    <3>1. z = [r EXCEPT !.vm = c]
      BY <2>2, <2>3, <2>6 DEF OfferedIf
    <3>2. z = [vm |-> c, visible |-> r.visible, fallbacks |-> r.fallbacks]
      BY <3>1 DEF Offering
    <3> QED BY <1>1, <2>4, <3>2 DEF Offering
  <2>7. CASE ~Thrown(c) /\ cond.value # 0 /\ p.fallback
    <3>1. PICK s : s = Append(r.fallbacks, p.body)
      OBVIOUS
    <3>2. z = [r EXCEPT !.vm = c, !.fallbacks = s]
      BY <2>2, <2>3, <2>7, <3>1 DEF OfferedIf
    <3>3. z = [vm |-> c, visible |-> r.visible, fallbacks |-> s]
      BY <3>2 DEF Offering
    <3>4. Listed(s) /\ \A k \in DOMAIN s : Entrance(v.program, s[k])
      <4>1. PICK S : S = {x \in ToSet(r.fallbacks) \cup {p.body} : Entrance(v.program, x)}
        OBVIOUS
      <4>2. Listed(r.fallbacks) /\ \A k \in DOMAIN r.fallbacks : r.fallbacks[k] \in S
        BY <4>1 DEF Offering, ToSet
      <4>3. p.body \in S
        BY <1>3, <4>1
      <4>4. Listed(s) /\ \A k \in DOMAIN s : s[k] \in S
        BY <3>1, <4>2, <4>3, AppendAll
      <4> QED BY <4>1, <4>4
    <3> QED BY <1>1, <2>4, <3>3, <3>4 DEF Offering
  <2>8. CASE ~Thrown(c) /\ cond.value # 0 /\ ~p.fallback
    <3>1. PICK t : t = [c EXCEPT !.lineBuf = <<>>]
      OBVIOUS
    <3>2. PICK e : e = Eval(t, p.text).vm
      OBVIOUS
    <3>3. PICK y : y = [e EXCEPT !.lineBuf = c.lineBuf]
      OBVIOUS
    <3>4. PICK x : x = [text |-> LinesSince(c, e) \o e.lineBuf, sticky |-> p.sticky, body |-> p.body]
      OBVIOUS
    <3>5. PICK s : s = Append(r.visible, x)
      OBVIOUS
    <3>6. z = [r EXCEPT !.vm = y, !.visible = s]
      BY <2>2, <2>3, <2>8, <3>1, <3>2, <3>3, <3>4, <3>5 DEF OfferedIf, Shown
    <3>7. z = [vm |-> y, visible |-> s, fallbacks |-> r.fallbacks]
      BY <3>6 DEF Offering
    <3>8. Aside(v, t) /\ ~Thrown(t)
      <4>1. Listed(<<>>)
        BY DEF Listed
      <4>2. Aside(v, t) /\ t.thrown = c.thrown
        BY <2>4, <3>1, <4>1, AsideLine
      <4> QED BY <2>8, <4>2 DEF Thrown
    <3>9. Aside(t, e)
      <4>1. p.text \in Expressions(t.program) /\ Sound(t) /\ t.status = "running" /\ ~Due(t)
        BY <1>3, <3>8 DEF Aside, Beside, Due
      <4> QED BY <3>2, <4>1, EvalAside
    <3>10. Aside(v, e)
      BY <3>8, <3>9, AsideTrans
    <3>11. Aside(v, y)
      <4>1. Listed(c.lineBuf)
        BY <2>4 DEF Aside, Beside, Sound
      <4> QED BY <3>3, <3>10, <4>1, AsideLine
    <3>12. Listed(s) /\ \A k \in DOMAIN s : OfferedFrom(v, s[k])
      <4>1. PICK S : S = {q \in ToSet(r.visible) \cup {x} : OfferedFrom(v, q)}
        OBVIOUS
      <4>2. Listed(r.visible) /\ \A k \in DOMAIN r.visible : r.visible[k] \in S
        BY <4>1 DEF Offering, ToSet
      <4>3. OfferedFrom(v, x)
        BY <1>1, <2>5, <2>8, <3>4 DEF OfferedFrom
      <4>4. x \in S
        BY <4>1, <4>3
      <4>5. Listed(s) /\ \A k \in DOMAIN s : s[k] \in S
        BY <3>5, <4>2, <4>4, AppendAll
      <4> QED BY <4>1, <4>5
    <3> QED BY <1>1, <3>7, <3>11, <3>12 DEF Offering
  <2> QED BY <2>3, <2>6, <2>7, <2>8
<1> QED BY <1>1, <1>5, <1>6

NothingOffered(vm) == [vm |-> vm, visible |-> <<>>, fallbacks |-> <<>>]

\* Offers, choice by choice.
OffersRun(vm, N, f) ==
    /\ f[0] = NothingOffered(vm) /\ Offers(vm) = f[N]
    /\ \A k \in 1 .. N : f[k] = Offered(f[k - 1], vm.pending[k])

LEMMA OffersUnfolds ==
    ASSUME NEW vm, NEW N \in Nat, N = Len(vm.pending)
    PROVE  \E f : OffersRun(vm, N, f)
<1> DEFINE Run(f, m) == f = [k \in 0 .. m |-> IF k = 0 THEN NothingOffered(vm) ELSE Offered(f[k - 1], vm.pending[k])]
           K == {m \in Nat : \E f : Run(f, m)}
           F == CHOOSE f : Run(f, N)
<1>1. ASSUME NEW M \in Nat PROVE \E f : Run(f, M)
  <2>1. 0 \in K
    <3>1. Run([k \in 0 .. 0 |-> NothingOffered(vm)], 0)
      OBVIOUS
    <3> QED BY <3>1
  <2>2. ASSUME NEW m \in 1 .. M, m - 1 \in K PROVE m \in K
    <3>1. PICK f : Run(f, m - 1)
      BY <2>2
    <3>2. PICK g : g = [k \in 0 .. m |-> IF k = m THEN Offered(f[m - 1], vm.pending[m]) ELSE f[k]]
      OBVIOUS
    <3>3. ASSUME NEW k \in 0 .. m PROVE g[k] = IF k = 0 THEN NothingOffered(vm) ELSE Offered(g[k - 1], vm.pending[k])
      <4>1. k # 0 => g[k - 1] = f[k - 1]
        BY <3>2
      <4>2. CASE k = m
        BY <3>2, <4>1, <4>2
      <4>3. CASE k \in 0 .. m - 1
        <5>1. f[k] = IF k = 0 THEN NothingOffered(vm) ELSE Offered(f[k - 1], vm.pending[k])
          BY <3>1, <4>3
        <5>2. g[k] = f[k]
          BY <3>2, <4>3
        <5> QED BY <4>1, <5>1, <5>2
      <4> QED BY <4>2, <4>3
    <3>4. Run(g, m)
      BY <3>2, <3>3
    <3> QED BY <3>4
  <2> HIDE DEF K
  <2>3. M \in K
    BY <2>1, <2>2, Upto
  <2> QED BY <2>3 DEF K
<1>2. Run(F, N)
  BY <1>1
<1>3. Offers(vm) = F[N]
  BY DEF Offers, NothingOffered
<1> HIDE DEF F
<1>4. F[0] = NothingOffered(vm)
  BY <1>2
<1>5. \A k \in 1 .. N : F[k] = Offered(F[k - 1], vm.pending[k])
  BY <1>2
<1>6. OffersRun(vm, N, F)
  BY <1>3, <1>4, <1>5 DEF OffersRun
<1> QED BY <1>6

LEMMA OffersIs ==
    ASSUME NEW v, Sound(v), v.status = "running", ~Due(v)
    PROVE  Offering(v, Offers(v))
<1>1. PICK N : N = Len(v.pending) /\ N \in Nat /\ DOMAIN v.pending = 1 .. N
  BY ListedIs DEF Sound
<1>2. PICK f : OffersRun(v, N, f)
  BY <1>1, OffersUnfolds
<1>3. /\ f[0] = NothingOffered(v) /\ Offers(v) = f[N]
      /\ \A k \in 1 .. N : f[k] = Offered(f[k - 1], v.pending[k])
  BY <1>2 DEF OffersRun
<1> DEFINE K == {k \in 0 .. N : Offering(v, f[k])}
<1>4. 0 \in K
  <2>1. Aside(v, v)
    BY AsideSelf
  <2>2. Listed(<<>>)
    BY DEF Listed
  <2>3. Offering(v, f[0])
    BY <1>3, <2>1, <2>2 DEF Offering, NothingOffered
  <2> QED BY <1>1, <2>3
<1>5. ASSUME NEW k \in 1 .. N, k - 1 \in K PROVE k \in K
  <2>1. f[k] = Offered(f[k - 1], v.pending[k]) /\ k \in DOMAIN v.pending
    BY <1>1, <1>3
  <2>2. PICK r, y : r = f[k - 1] /\ y = f[k]
    OBVIOUS
  <2>3. Offering(v, r) /\ y = Offered(r, v.pending[k])
    BY <1>5, <2>1, <2>2
  <2>4. Offering(v, y)
    BY <2>1, <2>3, OfferedIs
  <2> QED BY <2>2, <2>4
<1>6. N \in K
  <2>1. \A k \in 1 .. N : k - 1 \in K => k \in K
    BY <1>5
  <2> HIDE DEF K
  <2>2. \A k \in 0 .. N : k \in K
    BY <1>1, <1>4, <2>1, Upto
  <2> QED BY <1>1, <2>2
<1> QED BY <1>3, <1>6

-----------------------------------------------------------------------------
(* Presenting the choices.                                                 *)

\* The machine went on within a turn.
Onward(v, w) ==
    /\ Sound(w)
    /\ \A f \in {"program", "seed", "turn", "history", "evals", "intact"} : w[f] = v[f]
    /\ \A c \in DOMAIN v.visits : w.visits[c] >= v.visits[c]

\* What is on view after a turn was pending, and not spent, before it.
Fresh(v, w) == \A k \in DOMAIN w.views : OfferedFrom(v, w.views[k])

LEMMA RunningFresh ==
    ASSUME NEW v, NEW w, Sound(w), w.status = "running"
    PROVE  Fresh(v, w) /\ w.views = <<>>
<1>1. w.views = <<>>
  BY DEF Sound
<1> QED BY <1>1 DEF Fresh

\* What is known of the machine at a present.
LEMMA PresentAt ==
    ASSUME NEW v, NEW i, Executing(v, i), i.op = "present"
    PROVE  /\ ~HasExpression(v)
           /\ Top(v).ip > Len(Code(v, Top(v).at))
           /\ Level(v) => v.stack = <<>>
<1>1. PICK c, k : c = Top(v).at /\ k = Top(v).ip - 1
  OBVIOUS
<1>2. /\ k \in 1 .. Len(Code(v, c)) /\ Top(v).ip = k + 1 /\ Len(Code(v, c)) \in Nat
      /\ DOMAIN Code(v, c) = 1 .. Len(Code(v, c)) /\ i = Code(v, c)[k]
      /\ Code(v, c) = Program[v.program].code[c] /\ Balanced(Code(v, c)) /\ WellPlaced(v.program, c, k)
  BY <1>1, ExecutingIs
<1>3. ~HasExpression(v)
  BY InExpression
<1>4. k = Len(Code(v, c))
  BY <1>2 DEF WellPlaced
<1>5. ASSUME Level(v) PROVE v.stack = <<>>
  <2>1. Height(Code(v, c), k) = 0
    BY <1>2 DEF Balanced, Moving
  <2>2. Len(v.stack) <= 0
    BY <1>1, <1>5, <2>1 DEF Level
  <2> QED BY <2>2, ListedIs DEF Executing, Sound
<1> QED BY <1>1, <1>2, <1>3, <1>4, <1>5

\* An error at the end of a container.
LEMMA AsideWounded ==
    ASSUME NEW v, Sound(v), Top(v).ip > Len(Code(v, Top(v).at)), NEW w, Aside(v, w)
    PROVE  Wounded(w)
<1> DEFINE n == Len(v.frames)
<1>1. n \in Nat \ {0} /\ Len(w.frames) \in Nat /\ DOMAIN w.frames = 1 .. Len(w.frames)
      /\ Len(w.frames) >= n /\ w.program = v.program /\ w.status = "running"
  BY FramesAre DEF Aside, Beside, Sound
<1>2. n \in DOMAIN w.frames /\ SameFrame(v.frames[n], w.frames[n])
  <2>1. n \in 1 .. n /\ n \in 1 .. Len(w.frames)
    BY <1>1
  <2>2. SameFrame(v.frames[n], w.frames[n])
    BY <2>1 DEF Aside, Beside
  <2> QED BY <1>1, <2>1, <2>2
<1>3. w.frames[n].ip > Len(Code(w, w.frames[n].at))
  BY <1>1, <1>2 DEF SameFrame, Top, Code
<1>4. n + 1 \in DOMAIN w.frames => w.frames[n + 1].kind = "eval"
  BY <1>1 DEF Aside
<1> QED BY <1>1, <1>2, <1>3, <1>4 DEF Wounded

LEMMA AsideOnward ==
    ASSUME NEW v, NEW w, Aside(v, w)
    PROVE  Onward(v, w)
  BY DEF Aside, Beside, Onward

\* The choices are shown.
LEMMA ShownIs ==
    ASSUME NEW v, NEW i, Executing(v, i), i.op = "present", ~v.suspended,
           NEW r, Offering(v, r), ~Thrown(r.vm), r.visible # <<>>
    PROVE  LET w == [Flush(r.vm) EXCEPT !.views = r.visible, !.status = "choices"]
           IN Onward(v, w) /\ Fresh(v, w) /\ (Level(v) => Healthy(w))
<1>1. PICK u, z, w : u = r.vm /\ z = Flush(u) /\ w = [z EXCEPT !.views = r.visible, !.status = "choices"]
  OBVIOUS
<1>2. Aside(v, u) /\ ~Thrown(u) /\ Listed(r.visible)
  BY <1>1 DEF Offering
<1>3. Sound(u) /\ u.status = "running" /\ ~u.suspended /\ u.stack = v.stack /\ u.pending = v.pending
      /\ Len(u.frames) = Len(v.frames) /\ FramesOK(u.program, u.frames) /\ Sound(v)
  BY <1>2 DEF Aside, Beside, Sound, Executing
<1>4. Quiet(u, z) /\ Alike(u, z, {"lineBuf", "transcript"}) /\ z.lineBuf = <<>>
  BY <1>1, <1>3, FlushQuiet, QuietSelf
<1>5. Alike(z, w, {"views", "status"}) /\ w.views = r.visible /\ w.status = "choices"
  BY <1>1, <1>4 DEF Alike, Shape, Fields, SavedFields
<1>6. /\ z.program = u.program /\ z.seed = u.seed /\ z.prng = u.prng /\ z.visits = u.visits
      /\ z.alts = u.alts /\ z.turn = u.turn /\ z.history = u.history /\ z.frames = u.frames
      /\ z.stack = u.stack /\ z.pending = u.pending /\ z.steps = u.steps /\ z.evals = u.evals
      /\ z.suspended = u.suspended /\ z.stale = u.stale /\ z.astray = u.astray /\ z.intact = u.intact
  BY <1>4, FieldsAre
<1>7. /\ w.program = z.program /\ w.seed = z.seed /\ w.prng = z.prng /\ w.visits = z.visits
      /\ w.alts = z.alts /\ w.turn = z.turn /\ w.history = z.history /\ w.frames = z.frames
      /\ w.stack = z.stack /\ w.pending = z.pending /\ w.steps = z.steps /\ w.evals = z.evals
      /\ w.suspended = z.suspended /\ w.stale = z.stale /\ w.astray = z.astray
      /\ w.intact = z.intact /\ w.lineBuf = z.lineBuf /\ w.transcript = z.transcript
  BY <1>5, FieldsAre
<1>8. ~HasExpression(w)
  <2>1. DOMAIN u.frames = 1 .. Len(v.frames) /\ DOMAIN v.frames = 1 .. Len(v.frames)
    BY <1>3, FramesAre DEF Sound
  <2>2. \A k \in 1 .. Len(v.frames) : u.frames[k].kind = v.frames[k].kind
    BY <1>2 DEF Aside, Beside, SameFrame
  <2>3. ~HasExpression(v)
    BY PresentAt
  <2> QED BY <1>6, <1>7, <2>1, <2>2, <2>3 DEF HasExpression
<1>9. ViewsOK(w.views, w.pending)
  <2>1. w.pending = v.pending
    BY <1>3, <1>6, <1>7
  <2> QED BY <1>2, <1>5, <2>1 DEF ViewsOK, Offering, OfferedFrom
<1>10. Sound(w)
  <2>1. Shape(w) /\ Listed(w.lineBuf) /\ Listed(w.transcript)
    BY <1>4, <1>5, <1>7 DEF Alike, Quiet
  <2>2. w.views # <<>>
    BY <1>5
  <2> QED BY <1>3, <1>5, <1>6, <1>7, <1>8, <1>9, <2>1, <2>2 DEF Sound, Due
<1>11. Onward(v, w)
  <2>1. Onward(v, u)
    BY <1>2, AsideOnward
  <2> QED BY <1>6, <1>7, <1>10, <2>1 DEF Onward
<1>12. Fresh(v, w)
  BY <1>5 DEF Fresh, Offering
<1>13. Level(v) => Healthy(w)
  <2>1. Level(v) => v.stack = <<>>
    BY PresentAt
  <2> QED BY <1>3, <1>4, <1>5, <1>6, <1>7, <1>8, <2>1 DEF Healthy
<1> QED BY <1>1, <1>11, <1>12, <1>13

\* The first fallback is taken.
LEMMA FallbackIs ==
    ASSUME NEW v, NEW i, Executing(v, i), i.op = "present", ~v.suspended,
           NEW r, Offering(v, r), ~Thrown(r.vm), r.fallbacks # <<>>
    PROVE  LET w == WithTop([r.vm EXCEPT !.pending = <<>>],
                            [Top(r.vm) EXCEPT !.at = Head(r.fallbacks), !.ip = 1])
           IN Onward(v, w) /\ Fresh(v, w) /\ (Level(v) => Healthy(w))
<1> DEFINE n == Len(v.frames)
<1>1. PICK u, c, x, t, w : /\ u = r.vm /\ c = Head(r.fallbacks)
                           /\ x = [Top(u) EXCEPT !.at = c, !.ip = 1]
                           /\ t = [u.frames EXCEPT ![Len(u.frames)] = x]
                           /\ w = WithTop([u EXCEPT !.pending = <<>>], x)
  OBVIOUS
<1>2. Aside(v, u) /\ ~Thrown(u) /\ Listed(r.fallbacks)
  BY <1>1 DEF Offering
<1>3. /\ Sound(u) /\ Sound(v) /\ u.status = "running" /\ ~u.suspended /\ u.stack = v.stack
      /\ Len(u.frames) = n /\ FramesOK(u.program, u.frames) /\ u.program = v.program /\ Shape(u)
      /\ v.program \in DOMAIN Program
  BY <1>2 DEF Aside, Beside, Sound, Executing
<1>4. /\ n \in Nat \ {0} /\ DOMAIN u.frames = 1 .. n /\ DOMAIN v.frames = 1 .. n
      /\ FrameOK(v.program, Top(u))
  BY <1>3, FramesAre DEF Sound, Top
<1>5. Entrance(v.program, c)
  <2>1. r.fallbacks \in Seq(ToSet(r.fallbacks)) /\ c = r.fallbacks[1]
    BY <1>1, <1>2 DEF Listed
  <2>2. 1 \in DOMAIN r.fallbacks
    BY <1>2, ListedIs
  <2> QED BY <2>1, <2>2 DEF Offering
<1>6. \A k \in 1 .. n : u.frames[k].kind = v.frames[k].kind /\ u.frames[k].at = v.frames[k].at
  BY <1>2 DEF Aside, Beside, SameFrame
<1>7. ~HasExpression(v) /\ Top(u).kind # "eval"
  <2>1. ~HasExpression(v)
    BY PresentAt
  <2>2. Top(u).kind = v.frames[n].kind /\ n \in DOMAIN v.frames
    BY <1>3, <1>4, <1>6 DEF Top
  <2> QED BY <2>1, <2>2 DEF HasExpression
<1>8. Len(Program[v.program].code[c]) \in Nat
  BY <1>3, <1>5, CodeIs DEF Entrance
<1>9. x = [at |-> c, ip |-> 1, kind |-> Top(u).kind, temp |-> Top(u).temp]
  BY <1>1, <1>4 DEF FrameOK
<1>10. FrameOK(v.program, x) /\ x.kind = Top(u).kind /\ x.kind # "eval" /\ x.at = c /\ x.ip = 1
  BY <1>4, <1>5, <1>7, <1>8, <1>9 DEF FrameOK, Entrance
<1>11. /\ FramesOK(v.program, t) /\ Len(t) = n /\ DOMAIN t = 1 .. n
       /\ \A k \in 1 .. n : t[k] = IF k = n THEN x ELSE u.frames[k]
  <2>1. PICK s : s = u.frames
    OBVIOUS
  <2>2. FramesOK(v.program, s) /\ x.kind = s[Len(s)].kind
    BY <1>3, <1>7, <1>10, <2>1 DEF Top
  <2>3. t = [s EXCEPT ![Len(s)] = x] /\ FrameOK(v.program, x)
    BY <1>1, <1>10, <2>1
  <2>4. PICK p : p = v.program
    OBVIOUS
  <2>5. FramesOK(p, s) /\ FrameOK(p, x) /\ x.kind = s[Len(s)].kind
    BY <2>2, <2>3, <2>4
  <2>6. LET y == [s EXCEPT ![Len(s)] = x]
        IN /\ FramesOK(p, y) /\ Len(y) = Len(s) /\ DOMAIN y = DOMAIN s
           /\ \A k \in 1 .. Len(s) : y[k] = IF k = Len(s) THEN x ELSE s[k]
    BY <2>5, TopChanged
  <2>7. FramesOK(p, t) /\ Len(t) = Len(s) /\ DOMAIN t = DOMAIN s
        /\ \A k \in 1 .. Len(s) : t[k] = IF k = Len(s) THEN x ELSE s[k]
    BY <2>3, <2>6
  <2> QED BY <1>3, <1>4, <2>1, <2>4, <2>7
<1>12. w = [u EXCEPT !.pending = <<>>, !.frames = t]
  <2>1. PICK y : y = [u EXCEPT !.pending = <<>>]
    OBVIOUS
  <2>2. Alike(u, y, {"pending"})
    BY <1>3, <2>1 DEF Alike, Shape, Fields, SavedFields
  <2>3. y.frames = u.frames
    BY <2>2, FieldsAre
  <2>4. w = [y EXCEPT !.frames = t]
    BY <1>1, <2>1, <2>3 DEF WithTop
  <2> QED BY <2>1, <2>4
<1>13. Alike(u, w, {"pending", "frames"}) /\ w.pending = <<>> /\ w.frames = t
  BY <1>3, <1>12 DEF Alike, Shape, Fields, SavedFields
<1>14. /\ w.program = u.program /\ w.seed = u.seed /\ w.prng = u.prng /\ w.visits = u.visits
       /\ w.alts = u.alts /\ w.turn = u.turn /\ w.history = u.history /\ w.stack = u.stack
       /\ w.lineBuf = u.lineBuf /\ w.transcript = u.transcript /\ w.steps = u.steps
       /\ w.evals = u.evals /\ w.suspended = u.suspended /\ w.stale = u.stale
       /\ w.astray = u.astray /\ w.intact = u.intact /\ w.views = u.views /\ w.status = u.status
  BY <1>13, FieldsAre
<1>15. Sound(w)
  <2>1. u.views = <<>>
    BY <1>3 DEF Sound
  <2>2. ViewsOK(w.views, w.pending) /\ Listed(w.pending) /\ ToSet(w.pending) = {}
    BY <1>13, <1>14, <2>1 DEF ViewsOK, Listed, ToSet
  <2>3. Shape(w)
    BY <1>13 DEF Alike
  <2> QED BY <1>3, <1>11, <1>13, <1>14, <2>1, <2>2, <2>3 DEF Sound, Due
<1>16. Onward(v, w)
  <2>1. Onward(v, u)
    BY <1>2, AsideOnward
  <2> QED BY <1>14, <1>15, <2>1 DEF Onward
<1>17. ASSUME Level(v) PROVE Healthy(w)
  <2>1. v.stack = <<>>
    BY <1>17, PresentAt
  <2>2. ~HasExpression(w)
    <3>1. \A k \in 1 .. n : v.frames[k].kind # "eval"
      BY <1>4, <1>7 DEF HasExpression
    <3>2. \A k \in 1 .. n : t[k].kind # "eval"
      BY <1>6, <1>10, <1>11, <3>1
    <3> QED BY <1>11, <1>13, <3>2 DEF HasExpression
  <2>3. Top(w) = x
    BY <1>4, <1>11, <1>13 DEF Top
  <2>4. Owed(w) = 0
    BY <1>3, <1>14, <2>1 DEF Owed, Due
  <2>5. Height(Code(w, Top(w).at), Top(w).ip) = 0
    BY <1>10, <2>3, HeightOne
  <2> QED BY <1>3, <1>14, <2>2, <2>4, <2>5 DEF Healthy
<1> QED BY <1>1, <1>3, <1>14, <1>15, <1>16, <1>17, RunningFresh

\* present, as a whole.
LEMMA PresentIs ==
    ASSUME NEW v, NEW i, Executing(v, i), i.op = "present", ~v.suspended
    PROVE  LET w == Present(v)
           IN Onward(v, w) /\ Fresh(v, w) /\ (Level(v) => Healthy(w) \/ Wounded(w))
<1>1. PICK r, u, w : r = Offers(v) /\ u = r.vm /\ w = Presented(r)
  OBVIOUS
<1>2. Present(v) = w
  BY <1>1 DEF Present
<1>3. Sound(v) /\ v.status = "running" /\ Top(v).ip > Len(Code(v, Top(v).at))
  BY PresentAt DEF Executing
<1>4. Offering(v, r) /\ Aside(v, u)
  <2>1. ~Due(v)
    BY DEF Due
  <2>2. Offering(v, r)
    BY <1>1, <1>3, <2>1, OffersIs
  <2> QED BY <1>1, <2>2 DEF Offering
<1>5. CASE Thrown(u)
  <2>1. w = u
    BY <1>1, <1>5 DEF Presented
  <2>2. Onward(v, u) /\ Wounded(u)
    BY <1>3, <1>4, AsideOnward, AsideWounded
  <2>3. Fresh(v, u)
    BY <1>4, RunningFresh DEF Aside, Beside
  <2> QED BY <1>2, <2>1, <2>2, <2>3
<1>6. CASE ~Thrown(u) /\ r.visible # <<>>
  <2>1. w = [Flush(u) EXCEPT !.views = r.visible, !.status = "choices"]
    BY <1>1, <1>6 DEF Presented
  <2>2. ~Thrown(r.vm) /\ w = [Flush(r.vm) EXCEPT !.views = r.visible, !.status = "choices"]
    BY <1>1, <1>6, <2>1
  <2>3. Onward(v, w) /\ Fresh(v, w) /\ (Level(v) => Healthy(w))
    BY <1>4, <1>6, <2>2, ShownIs
  <2> QED BY <1>2, <2>3
<1>7. CASE ~Thrown(u) /\ r.visible = <<>> /\ r.fallbacks # <<>>
  <2>1. w = WithTop([u EXCEPT !.pending = <<>>], [Top(u) EXCEPT !.at = Head(r.fallbacks), !.ip = 1])
    BY <1>1, <1>7 DEF Presented
  <2>2. ~Thrown(r.vm) /\ w = WithTop([r.vm EXCEPT !.pending = <<>>],
                                     [Top(r.vm) EXCEPT !.at = Head(r.fallbacks), !.ip = 1])
    BY <1>1, <1>7, <2>1
  <2>3. Onward(v, w) /\ Fresh(v, w) /\ (Level(v) => Healthy(w))
    BY <1>4, <1>7, <2>2, FallbackIs
  <2> QED BY <1>2, <2>3
<1>8. CASE ~Thrown(u) /\ r.visible = <<>> /\ r.fallbacks = <<>>
  <2>1. w = Throw(u, "ran out of content")
    BY <1>1, <1>8 DEF Presented
  <2>2. Shape(u) /\ Sound(u) /\ u.status = "running"
    BY <1>4 DEF Aside, Beside, Sound
  <2>3. Alike(u, w, {"thrown", "replayable"}) /\ w.thrown = "ran out of content"
    BY <2>1, <2>2, ThrowEffect
  <2>4. /\ w.program = u.program /\ w.seed = u.seed /\ w.visits = u.visits /\ w.turn = u.turn
        /\ w.history = u.history /\ w.frames = u.frames /\ w.stack = u.stack /\ w.lineBuf = u.lineBuf
        /\ w.pending = u.pending /\ w.views = u.views /\ w.evals = u.evals /\ w.steps = u.steps
        /\ w.suspended = u.suspended /\ w.stale = u.stale /\ w.astray = u.astray
        /\ w.intact = u.intact /\ w.status = u.status
    <3>1. Alike(u, w, {"thrown", "replayable"})
      BY <2>3
    <3> QED BY <3>1, FieldsAre
  <2>5. Sound(w)
    <3>1. Alike(u, w, {"thrown", "replayable", "steps", "evals", "stack", "lineBuf", "globals",
                       "frames", "suspended", "stale", "astray", "intact"})
      BY <2>3, AlikeMore
    <3>2. /\ w.steps \in Nat /\ w.evals \in Nat /\ Listed(w.stack) /\ Listed(w.lineBuf)
          /\ FramesOK(u.program, w.frames) /\ {w.suspended, w.stale, w.astray, w.intact} \subseteq BOOLEAN
      BY <2>2, <2>4 DEF Sound
    <3> QED BY <2>2, <3>1, <3>2, RunningSound
  <2>6. Wounded(u) /\ Onward(v, u)
    BY <1>3, <1>4, AsideOnward, AsideWounded
  <2>7. Wounded(w)
    BY <2>4, <2>6 DEF Wounded, Code
  <2>8. Onward(v, w)
    BY <2>4, <2>5, <2>6 DEF Onward
  <2>9. Fresh(v, w)
    BY <2>2, <2>4, <2>5, RunningFresh
  <2> QED BY <1>2, <2>7, <2>8, <2>9
<1> QED BY <1>5, <1>6, <1>7, <1>8

-----------------------------------------------------------------------------
(* A step of the machine.                                                  *)

LEMMA MemoryKept ==
    ASSUME NEW v, Sound(v), NEW w, Onward(v, w), TakenOnce(v), Fresh(v, w),
           \/ Logged(v)
           \/ Entering(v) /\ w.views = <<>> /\ w.visits[Last(v.history).body] > 0
    PROVE  Memory(w)
<1> DEFINE p == v.program
           h == v.history
           T == Title(v)
<1>1. /\ w.program = p /\ w.history = h /\ Title(w) = T /\ p \in DOMAIN Program
      /\ DOMAIN h = 1 .. Len(h) /\ Len(h) \in Nat /\ Program[p].title = T
  BY ListedIs DEF Onward, Sound, Title
<1>2. TakenOnce(w)
  BY <1>1 DEF TakenOnce
<1>3. ASSUME NEW c, OnceOnly(T, c)
      PROVE  /\ c \in DOMAIN Program[p].code /\ v.visits[c] \in Nat /\ w.visits[c] \in Nat
             /\ w.visits[c] >= v.visits[c] /\ \A i \in ChoicesOf(p) : i.body = c => ~i.sticky
  <2>1. c \in DOMAIN Program[p].code /\ \A i \in ChoicesOf(p) : i.body = c => ~i.sticky
    BY <1>1, <1>3 DEF OnceOnly
  <2>2. v.visits[c] \in Nat /\ w.visits[c] \in Nat /\ c \in DOMAIN v.visits
    BY <1>1, <2>1 DEF Sound, Onward
  <2> QED BY <2>1, <2>2 DEF Onward
<1>4. ASSUME NEW k \in DOMAIN h, OnceOnly(T, h[k].body) PROVE w.visits[h[k].body] > 0
  <2>1. CASE Logged(v)
    <3>1. v.visits[h[k].body] > 0
      BY <1>4, <2>1 DEF Logged
    <3>2. /\ v.visits[h[k].body] \in Nat /\ w.visits[h[k].body] \in Nat
          /\ w.visits[h[k].body] >= v.visits[h[k].body]
      BY <1>3, <1>4
    <3> QED BY <3>1, <3>2
  <2>2. CASE Entering(v) /\ w.visits[Last(h).body] > 0
    <3>1. CASE k = Len(h)
      BY <2>2, <3>1 DEF Last
    <3>2. CASE k \in 1 .. Len(h) - 1
      <4>1. v.visits[h[k].body] > 0
        BY <1>4, <2>2, <3>2 DEF Entering
      <4>2. /\ v.visits[h[k].body] \in Nat /\ w.visits[h[k].body] \in Nat
            /\ w.visits[h[k].body] >= v.visits[h[k].body]
        BY <1>3, <1>4
      <4> QED BY <4>1, <4>2
    <3> QED BY <1>1, <1>4, <3>1, <3>2
  <2> QED BY <2>1, <2>2
<1>5. Logged(w)
  BY <1>1, <1>4 DEF Logged
<1>6. Untaken(w)
  <2>1. SUFFICES ASSUME NEW i \in DOMAIN w.views, NEW k \in DOMAIN h, h[k].body = w.views[i].body,
                        OnceOnly(T, w.views[i].body)
                 PROVE  FALSE
    BY <1>1 DEF Untaken
  <2>2. PICK x : x = w.views[i]
    OBVIOUS
  <2>3. Logged(v)
    BY <2>1
  <2>4. v.visits[x.body] > 0
    BY <2>1, <2>2, <2>3 DEF Logged
  <2>5. PICK j \in DOMAIN v.pending :
          /\ v.pending[j].body = x.body /\ v.pending[j].sticky = x.sticky
          /\ x.sticky \/ v.visits[x.body] = 0
    BY <2>1, <2>2 DEF Fresh, OfferedFrom
  <2>6. v.pending[j] \in ChoicesOf(p)
    BY DEF Sound, ToSet
  <2>7. ~x.sticky
    BY <1>3, <2>1, <2>2, <2>5, <2>6
  <2> QED BY <2>4, <2>5, <2>7
<1> QED BY <1>2, <1>5, <1>6 DEF Memory

\* Another call of a function may be pending, if none is due.
LEMMA VmSame ==
    ASSUME NEW v, VmOK(v), NEW w, Due(w) <=> Due(v), w.steps \in Nat,
           Alike(v, w, {"thrown", "replayable", "steps", "suspended", "stale", "astray"}),
           {w.suspended, w.stale, w.astray} \subseteq BOOLEAN
    PROVE  VmOK(w)
<1>1. /\ w.program = v.program /\ w.seed = v.seed /\ w.prng = v.prng /\ w.visits = v.visits
      /\ w.alts = v.alts /\ w.turn = v.turn /\ w.history = v.history /\ w.transcript = v.transcript
      /\ w.frames = v.frames /\ w.stack = v.stack /\ w.pending = v.pending /\ w.views = v.views
      /\ w.status = v.status /\ w.lineBuf = v.lineBuf /\ w.evals = v.evals /\ w.intact = v.intact
  BY FieldsAre
<1>2. Sound(w)
  <2>1. Sound(v) /\ Shape(w)
    BY DEF VmOK, Alike
  <2>2. HasExpression(w) <=> HasExpression(v)
    BY <1>1 DEF HasExpression
  <2> QED BY <1>1, <2>1, <2>2 DEF Sound
<1>3. Healthy(v) => Healthy(w)
  BY <1>1 DEF Healthy, HasExpression, Owed, Code, Top
<1>4. Wounded(v) => Wounded(w)
  BY <1>1 DEF Wounded, Code
<1>5. Memory(w)
  <2>1. Logged(v) => Logged(w)
    BY <1>1 DEF Logged, Title
  <2>2. Entering(v) => Entering(w)
    BY <1>1 DEF Entering, Title, Top, Code
  <2>3. TakenOnce(w) /\ Untaken(w)
    BY <1>1 DEF VmOK, Memory, TakenOnce, Untaken, Title
  <2> QED BY <2>1, <2>2, <2>3 DEF VmOK, Memory
<1> QED BY <1>1, <1>2, <1>3, <1>4, <1>5 DEF VmOK

\* A throw: nothing but the fields of the call changes.
LEMMA VmAlike ==
    ASSUME NEW v, VmOK(v), NEW w, Alike(v, w, {"thrown", "replayable", "steps"}), w.steps \in Nat
    PROVE  VmOK(w)
<1>1. w.suspended = v.suspended /\ w.stale = v.stale /\ w.astray = v.astray
  BY FieldsAre
<1>2. {w.suspended, w.stale, w.astray} \subseteq BOOLEAN /\ (Due(w) <=> Due(v))
  BY <1>1 DEF VmOK, Sound, Due
<1>3. Alike(v, w, {"thrown", "replayable", "steps", "suspended", "stale", "astray"})
  BY AlikeMore
<1> QED BY <1>2, <1>3, VmSame

LEMMA VmThrow ==
    ASSUME NEW v, VmOK(v), NEW x
    PROVE  VmOK(Throw(v, x)) /\ Throw(v, x).thrown = x
<1>1. PICK w : w = Throw(v, x)
  OBVIOUS
<1>2. Shape(v) /\ v.steps \in Nat
  BY DEF VmOK, Sound
<1>3. Alike(v, w, {"thrown", "replayable"}) /\ w.thrown = x
  BY <1>1, <1>2, ThrowEffect
<1>4. Alike(v, w, {"thrown", "replayable", "steps"}) /\ w.steps = v.steps
  BY <1>3 DEF Alike, Fields, SavedFields
<1> QED BY <1>1, <1>2, <1>3, <1>4, VmAlike

\* The frame that has run off its end stays where it is below the others.
LEMMA WoundedOutcome ==
    ASSUME NEW v, Sound(v), v.status = "running", Wounded(v), ~RanOff(v), NEW u, u = Fetched(v)
    PROVE  /\ HasExpression(v) /\ HasExpression(u)
           /\ \A w : Outcome(u, w) => Wounded(w)
           /\ \A w : Alike(u, w, {"thrown", "replayable", "astray"}) => Wounded(w)
<1> DEFINE n == Len(v.frames)
           p == v.program
<1>1. n \in Nat \ {0} /\ DOMAIN v.frames = 1 .. n
  BY FramesAre DEF Sound
<1>2. /\ Alike(v, u, {"frames", "steps"}) /\ Len(u.frames) = n
      /\ \A k \in 1 .. n - 1 : u.frames[k] = v.frames[k]
      /\ Top(u).at = Top(v).at /\ Top(u).kind = Top(v).kind
      /\ Sound(u) /\ u.program = p /\ u.status = "running"
  <2>1. /\ Alike(v, u, {"frames", "steps"}) /\ Len(u.frames) = n
        /\ \A k \in 1 .. n - 1 : u.frames[k] = v.frames[k]
        /\ Top(u).at = Top(v).at /\ Top(u).kind = Top(v).kind /\ Sound(u)
    BY FetchedIs
  <2> QED BY <2>1 DEF Alike, Fields, SavedFields
<1>3. DOMAIN u.frames = 1 .. n
  BY <1>2, FramesAre DEF Sound
<1>4. PICK k \in DOMAIN v.frames :
          /\ v.frames[k].ip > Len(Code(v, v.frames[k].at))
          /\ k + 1 \in DOMAIN v.frames => v.frames[k + 1].kind = "eval"
  BY DEF Wounded
<1>5. k \in 1 .. n - 1
  <2>1. k # n
    BY <1>4 DEF RanOff, Top
  <2> QED BY <1>1, <2>1
<1>6. v.frames[k + 1].kind = "eval" /\ k + 1 \in 1 .. n
  BY <1>1, <1>4, <1>5
<1>7. u.frames[k + 1].kind = "eval"
  <2>1. CASE k + 1 = n
    BY <1>2, <1>6, <2>1 DEF Top
  <2>2. CASE k + 1 \in 1 .. n - 1
    BY <1>2, <1>6, <2>2
  <2> QED BY <1>1, <1>6, <2>1, <2>2
<1>8. HasExpression(v) /\ HasExpression(u)
  BY <1>1, <1>3, <1>6, <1>7 DEF HasExpression
<1>9. ASSUME NEW w, Sound(w), w.status = "running", w.program = p, Len(w.frames) >= n - 1,
             \A j \in 1 .. n - 1 : SameFrame(u.frames[j], w.frames[j]),
             n <= Len(w.frames) => w.frames[n].kind = Top(u).kind
      PROVE  Wounded(w)
  <2>1. DOMAIN w.frames = 1 .. Len(w.frames) /\ Len(w.frames) \in Nat
    BY <1>9, FramesAre DEF Sound
  <2>2. k \in DOMAIN w.frames
    BY <1>1, <1>5, <1>9, <2>1
  <2>3. w.frames[k].ip > Len(Code(w, w.frames[k].at))
    <3>1. SameFrame(u.frames[k], w.frames[k]) /\ u.frames[k] = v.frames[k]
      BY <1>2, <1>5, <1>9
    <3> QED BY <1>4, <1>9, <3>1 DEF SameFrame, Code
  <2>4. ASSUME k + 1 \in DOMAIN w.frames PROVE w.frames[k + 1].kind = "eval"
    <3>1. CASE k + 1 = n
      <4>1. n <= Len(w.frames)
        BY <2>1, <2>4, <3>1
      <4>2. w.frames[n].kind = Top(u).kind
        BY <1>9, <4>1
      <4>3. Top(u).kind = "eval"
        BY <1>2, <1>7, <3>1 DEF Top
      <4> QED BY <3>1, <4>2, <4>3
    <3>2. CASE k + 1 \in 1 .. n - 1
      <4>1. SameFrame(u.frames[k + 1], w.frames[k + 1])
        BY <1>9, <3>2
      <4> QED BY <1>7, <4>1 DEF SameFrame
    <3> QED BY <1>1, <1>6, <3>1, <3>2
  <2> QED BY <1>9, <2>2, <2>3, <2>4 DEF Wounded
<1>10. ASSUME NEW w, Outcome(u, w) PROVE Wounded(w)
  <2>1. /\ w.status = "running" /\ w.program = p /\ Sound(w) /\ Len(w.frames) >= n - 1
        /\ \A j \in 1 .. n - 1 : SameFrame(u.frames[j], w.frames[j])
        /\ n <= Len(w.frames) => w.frames[n].kind = Top(u).kind
    BY <1>2, <1>8, <1>10 DEF Outcome, Kept, SameFrame
  <2> QED BY <1>9, <2>1
<1>11. ASSUME NEW w, Alike(u, w, {"thrown", "replayable", "astray"}) PROVE Wounded(w)
  <2>1. w.status = u.status /\ w.program = u.program /\ w.frames = u.frames
    BY <1>11, FieldsAre
  <2>2. Wounded(u)
    <3>1. \A j \in 1 .. n - 1 : SameFrame(u.frames[j], u.frames[j])
      BY DEF SameFrame
    <3>2. u.frames[n].kind = Top(u).kind /\ Len(u.frames) >= n - 1
      BY <1>1, <1>2 DEF Top
    <3> QED BY <1>2, <1>9, <3>1, <3>2
  <2> QED BY <2>1, <2>2 DEF Wounded, Code
<1> QED BY <1>8, <1>10, <1>11

\* The machine enters the body of the choice that was taken, and counts the visit.
LEMMA EnteringIs ==
    ASSUME NEW v, Sound(v), Entering(v)
    PROVE  /\ ~RanOff(v) /\ Instruction(v) = [op |-> "visit", of |-> Last(v.history).body]
           /\ Last(v.history).body \in DOMAIN v.visits
<1>1. /\ Top(v).at = Last(v.history).body /\ Top(v).ip = 1 /\ Len(Code(v, Top(v).at)) > 0
      /\ Code(v, Top(v).at)[1] = [op |-> "visit", of |-> Top(v).at]
  BY DEF Entering
<1>2. v.program \in DOMAIN Program /\ FrameOK(v.program, Top(v))
  BY FramesAre DEF Sound, Top
<1>3. Top(v).at \in DOMAIN Program[v.program].code
  BY <1>2 DEF FrameOK
<1>4. PICK code : code = Code(v, Top(v).at)
  OBVIOUS
<1>5. Len(code) \in Nat /\ Len(code) > 0
  BY <1>1, <1>2, <1>3, <1>4, CodeIs DEF Code
<1>6. ~RanOff(v)
  BY <1>1, <1>4, <1>5 DEF RanOff
<1> QED BY <1>1, <1>3, <1>6 DEF Instruction, Sound

\* What an instruction keeps, seen from before it was fetched.
LEMMA FetchedOnward ==
    ASSUME NEW v, Sound(v), NEW u, Alike(v, u, {"frames", "steps"}), NEW w, Onward(u, w)
    PROVE  Onward(v, w) /\ (Fresh(u, w) => Fresh(v, w))
<1>1. /\ u.program = v.program /\ u.seed = v.seed /\ u.turn = v.turn /\ u.history = v.history
      /\ u.evals = v.evals /\ u.intact = v.intact /\ u.visits = v.visits /\ u.pending = v.pending
  BY FieldsAre
<1> QED BY <1>1 DEF Onward, Fresh, OfferedFrom

\* A story that goes astray is as it was.
LEMMA AstrayIs ==
    ASSUME NEW v, VmOK(v), v.status = "running", ~RanOff(v), Strays(v), NEW w, w = Astray(Fetched(v))
    PROVE  VmOK(w)
<1>1. /\ Sound(v) /\ v.evals = 0 /\ v.views = <<>>
      /\ Memory(v) /\ (v.intact => Healthy(v) \/ Wounded(v))
  BY DEF VmOK, Sound
<1>2. PICK u, t : u = Fetched(v) /\ t = [u EXCEPT !.astray = TRUE]
  OBVIOUS
<1>3. Alike(v, u, {"frames", "steps"}) /\ Sound(u)
  BY <1>1, <1>2, FetchedIs
<1>4. /\ u.program = v.program /\ u.evals = v.evals /\ u.intact = v.intact
      /\ u.views = v.views /\ u.history = v.history /\ u.seed = v.seed /\ u.turn = v.turn
      /\ u.visits = v.visits /\ u.status = v.status
  BY <1>3, FieldsAre
<1>5. Alike(u, w, {"thrown", "replayable", "astray"}) /\ w.astray = TRUE
  <2>1. Alike(u, t, {"astray"}) /\ t.astray = TRUE /\ Shape(t)
    BY <1>2, <1>3 DEF Sound, Alike, Shape, Fields, SavedFields
  <2>2. w = Throw(t, "astray")
    BY <1>2 DEF Astray
  <2>3. Alike(t, w, {"thrown", "replayable"})
    BY <2>1, <2>2, ThrowEffect
  <2> QED BY <2>1, <2>3 DEF Alike, Fields, SavedFields
<1>6. /\ w.program = u.program /\ w.evals = u.evals /\ w.intact = u.intact /\ w.steps = u.steps
      /\ w.stack = u.stack /\ w.lineBuf = u.lineBuf /\ w.frames = u.frames
      /\ w.suspended = u.suspended /\ w.stale = u.stale /\ w.views = u.views
      /\ w.history = u.history /\ w.seed = u.seed /\ w.turn = u.turn /\ w.visits = u.visits
  <2>1. Alike(u, w, {"thrown", "replayable", "astray"})
    BY <1>5
  <2> QED BY <2>1, FieldsAre
<1>7. Sound(w)
  <2>1. Alike(u, w, {"thrown", "replayable", "steps", "evals", "stack", "lineBuf", "globals",
                     "frames", "suspended", "stale", "astray", "intact"})
    BY <1>5, AlikeMore
  <2>2. /\ w.steps \in Nat /\ w.evals \in Nat /\ Listed(w.stack) /\ Listed(w.lineBuf)
        /\ FramesOK(u.program, w.frames) /\ {w.suspended, w.stale, w.astray, w.intact} \subseteq BOOLEAN
    BY <1>3, <1>5, <1>6 DEF Sound
  <2> QED BY <1>3, <1>4, <2>1, <2>2, RunningSound
<1>8. w.intact => Wounded(w)
  <2>1. ~Healthy(v)
    BY DEF Healthy, Strays
  <2>2. Wounded(v) => Wounded(w)
    BY <1>1, <1>2, <1>5, WoundedOutcome
  <2> QED BY <1>1, <1>4, <1>6, <2>1, <2>2
<1>9. Memory(w)
  <2>1. Onward(v, w)
    <3>1. \A c \in DOMAIN v.visits : v.visits[c] \in Nat
      BY <1>1 DEF Sound
    <3>2. \A c \in DOMAIN v.visits : w.visits[c] >= v.visits[c]
      BY <1>4, <1>6, <3>1
    <3> QED BY <1>4, <1>6, <1>7, <3>2 DEF Onward
  <2>2. Fresh(v, w)
    BY <1>1, <1>4, <1>6 DEF Fresh
  <2>3. ~Entering(v)
    <3>1. Entering(v) => Instruction(v).op = "visit"
      BY <1>1, EnteringIs
    <3> QED BY <3>1 DEF Strays
  <2> QED BY <1>1, <2>1, <2>2, <2>3, MemoryKept DEF Memory
<1> QED BY <1>1, <1>4, <1>6, <1>7, <1>8, <1>9 DEF VmOK

\* One step keeps the machine well.
LEMMA StepIs ==
    ASSUME NEW v, VmOK(v), v.status = "running", ~v.suspended
    PROVE  VmOK(Step(v))
<1>1. PICK w : w = Step(v)
  OBVIOUS
<1>2. /\ Sound(v) /\ Shape(v) /\ v.frames # <<>> /\ v.steps \in Nat /\ v.evals = 0 /\ v.views = <<>>
      /\ Memory(v) /\ (v.intact => Healthy(v) \/ Wounded(v))
  BY DEF VmOK, Sound, FramesOK
<1>3. CASE RanOff(v)
  <2>1. PICK u : u = [v EXCEPT !.steps = @ + 1]
    OBVIOUS
  <2>2. w = Throw(u, "ran off the end")
    BY <1>1, <1>2, <1>3, <2>1 DEF Step
  <2>3. Alike(v, u, {"steps"}) /\ u.steps = v.steps + 1
    BY <1>2, <2>1 DEF Alike, Shape, Fields, SavedFields
  <2>4. VmOK(u)
    <3>1. Alike(v, u, {"thrown", "replayable", "steps"})
      BY <2>3, AlikeMore
    <3> QED BY <1>2, <2>3, <3>1, VmAlike
  <2>5. VmOK(Throw(u, "ran off the end"))
    BY <2>4, VmThrow
  <2> QED BY <1>1, <2>2, <2>5
<1>4. CASE ~RanOff(v) /\ ~Strays(v)
  <2>1. PICK u, i : u = Fetched(v) /\ i = Instruction(v)
    OBVIOUS
  <2>2. w = IF i.op = "present" THEN Present(u) ELSE Execute(u, i)
    BY <1>1, <1>2, <1>4, <2>1 DEF Step
  <2>3. Executing(u, i) /\ Alike(v, u, {"frames", "steps"}) /\ (Healthy(v) => Level(u))
    BY <1>2, <1>4, <2>1, FetchedIs
  <2>4. /\ u.program = v.program /\ u.evals = 0 /\ u.intact = v.intact /\ u.visits = v.visits
        /\ u.views = v.views /\ ~u.suspended /\ Sound(u) /\ u.history = v.history
    <3>1. Alike(v, u, {"frames", "steps"})
      BY <2>3
    <3>2. /\ u.program = v.program /\ u.evals = v.evals /\ u.intact = v.intact
          /\ u.visits = v.visits /\ u.views = v.views /\ u.suspended = v.suspended
          /\ u.history = v.history
      BY <3>1, FieldsAre
    <3> QED BY <1>2, <2>3, <3>2 DEF Executing
  <2>5. Wounded(v) => HasExpression(u) /\ \A z : Outcome(u, z) => Wounded(z)
    BY <1>2, <1>4, <2>1, WoundedOutcome
  <2>6. TakenOnce(v) /\ (Logged(v) \/ Entering(v))
    BY <1>2 DEF Memory
  <2>7. Entering(v) => /\ i = [op |-> "visit", of |-> Last(v.history).body]
                       /\ Last(v.history).body \in DOMAIN v.visits
    BY <1>2, <2>1, EnteringIs
  <2>8. CASE i.op = "present"
    <3>1. w = Present(u)
      BY <2>2, <2>8
    <3>2. Onward(u, w) /\ Fresh(u, w) /\ (Level(u) => Healthy(w) \/ Wounded(w))
      BY <2>3, <2>4, <2>8, <3>1, PresentIs
    <3>3. Onward(v, w) /\ Fresh(v, w)
      BY <1>2, <2>3, <3>2, FetchedOnward
    <3>4. Logged(v)
      <4>1. ~Entering(v)
        BY <2>7, <2>8
      <4> QED BY <2>6, <4>1
    <3>5. Memory(w)
      BY <1>2, <2>6, <3>3, <3>4, MemoryKept
    <3>6. ~Wounded(v)
      <4>1. ~HasExpression(u)
        BY <2>3, <2>8, PresentAt
      <4> QED BY <2>5, <4>1
    <3> QED BY <1>1, <1>2, <2>3, <3>2, <3>3, <3>5, <3>6 DEF VmOK, Onward
  <2>9. CASE i.op # "present"
    <3>1. w = Execute(u, i)
      BY <2>2, <2>9
    <3>2. Good(u, w) /\ (i.op = "visit" /\ i.of \in DOMAIN u.visits => w.visits[i.of] > 0)
      <4>1. ~Due(u)
        BY <2>4 DEF Due
      <4> QED BY <2>3, <2>9, <3>1, <4>1, ExecuteGood
    <3>3. Outcome(u, w) /\ (Level(u) => Healthy(w))
      BY <3>2 DEF Good
    <3>4. Onward(u, w) /\ w.views = <<>>
      BY <1>2, <2>4, <3>3 DEF Outcome, Kept, Onward
    <3>5. Onward(v, w) /\ Fresh(v, w)
      <4>1. Fresh(u, w)
        BY <3>4 DEF Fresh
      <4> QED BY <1>2, <2>3, <3>4, <4>1, FetchedOnward
    <3>6. Entering(v) => w.visits[Last(v.history).body] > 0
      BY <2>4, <2>7, <3>2
    <3>7. Memory(w)
      BY <1>2, <2>6, <3>4, <3>5, <3>6, MemoryKept
    <3>8. v.intact => Healthy(w) \/ Wounded(w)
      BY <1>2, <2>3, <2>5, <3>3
    <3> QED BY <1>1, <1>2, <3>5, <3>7, <3>8 DEF VmOK, Onward
  <2> QED BY <2>8, <2>9
<1>5. CASE ~RanOff(v) /\ Strays(v)
  <2>1. PICK u : u = Fetched(v)
    OBVIOUS
  <2>2. w = Astray(u)
    BY <1>1, <1>2, <1>5, <2>1 DEF Step
  <2>3. VmOK(w)
    BY <1>5, <2>1, <2>2, AstrayIs
  <2> QED BY <1>1, <2>3
<1> QED BY <1>3, <1>4, <1>5

-----------------------------------------------------------------------------
(* A run to the next stop.                                                 *)

LEMMA TurnIs ==
    ASSUME NEW v, VmOK(v)
    PROVE  VmOK(Turn(v))
<1>1. CASE AtRest(v)
  <2>1. Turn(v) = v
    BY <1>1 DEF Turn
  <2> QED BY <2>1
<1>2. CASE ~AtRest(v) /\ Spent(v)
  <2>1. Turn(v) = Throw(v, "step budget")
    BY <1>2 DEF Turn
  <2> QED BY <2>1, VmThrow
<1>3. CASE ~AtRest(v) /\ ~Spent(v)
  <2>1. Turn(v) = Step(v)
    BY <1>3 DEF Turn
  <2>2. v.status = "running" /\ ~v.suspended
    BY <1>3 DEF AtRest
  <2> QED BY <2>1, <2>2, StepIs
<1> QED BY <1>1, <1>2, <1>3

\* The four turns, one by one.
LEMMA TurnsUnfold ==
    ASSUME NEW v
    PROVE  Turns(v) = IF AtRest(v) THEN v ELSE Turn(Turn(Turn(Turn(v))))
<1>1. PICK a, b, c, d : /\ a = Turn(v) /\ b = Turn(Turn(v))
                        /\ c = Turn(Turn(Turn(v)))
                        /\ d = Turn(Turn(Turn(Turn(v))))
  OBVIOUS
<1>2. b = Turn(a) /\ c = Turn(b) /\ d = Turn(c)
  BY <1>1
<1> DEFINE Run(f) == f = [k \in 0 .. 4 |-> IF k = 0 THEN v ELSE Turn(f[k - 1])]
           F == CHOOSE f : Run(f)
<1>3. \E f : Run(f)
  <2>1. PICK g : g = [k \in 0 .. 4 |-> IF k = 0 THEN v ELSE IF k = 1 THEN a ELSE IF k = 2 THEN b
                                       ELSE IF k = 3 THEN c ELSE d]
    OBVIOUS
  <2>2. ASSUME NEW k \in 0 .. 4 PROVE g[k] = IF k = 0 THEN v ELSE Turn(g[k - 1])
    <3>1. k = 0 \/ k = 1 \/ k = 2 \/ k = 3 \/ k = 4
      OBVIOUS
    <3>2. g[0] = v /\ g[1] = a /\ g[2] = b /\ g[3] = c /\ g[4] = d
      BY <2>1
    <3>3. CASE k = 0
      BY <3>2, <3>3
    <3>4. CASE k = 1
      BY <1>1, <3>2, <3>4
    <3>5. CASE k = 2
      BY <1>2, <3>2, <3>5
    <3>6. CASE k = 3
      BY <1>2, <3>2, <3>6
    <3>7. CASE k = 4
      BY <1>2, <3>2, <3>7
    <3> QED BY <3>1, <3>3, <3>4, <3>5, <3>6, <3>7
  <2>3. Run(g)
    BY <2>1, <2>2
  <2> QED BY <2>3
<1>4. Run(F)
  BY <1>3
<1>5. Turns(v) = IF AtRest(v) THEN v ELSE F[4]
  BY DEF Turns
<1> HIDE DEF F
<1>6. F[0] = v /\ F[1] = Turn(F[0]) /\ F[2] = Turn(F[1])
      /\ F[3] = Turn(F[2]) /\ F[4] = Turn(F[3])
  BY <1>4
<1>7. F[4] = d
  BY <1>1, <1>2, <1>6
<1> QED BY <1>1, <1>5, <1>7

LEMMA TurnsIs ==
    ASSUME NEW v, VmOK(v)
    PROVE  VmOK(Turns(v))
<1>1. PICK a : a = Turn(v)
  OBVIOUS
<1>2. PICK b : b = Turn(a)
  OBVIOUS
<1>3. PICK c : c = Turn(b)
  OBVIOUS
<1>4. VmOK(a) /\ VmOK(b) /\ VmOK(c)
  BY <1>1, <1>2, <1>3, TurnIs
<1>5. VmOK(Turn(c))
  BY <1>4, TurnIs
<1>6. Turns(v) = v \/ Turns(v) = Turn(c)
  BY <1>1, <1>2, <1>3, TurnsUnfold
<1> QED BY <1>5, <1>6

\* RunUntilStop, round by round.
UntilStopRun(vm, N, f) ==
    /\ f[0] = vm /\ RunUntilStop(vm) = f[N]
    /\ \A k \in 1 .. N : f[k] = Turns(f[k - 1])

LEMMA RunUnfolds ==
    ASSUME NEW vm, NEW N \in Nat, N = Rounds
    PROVE  \E f : UntilStopRun(vm, N, f)
<1> DEFINE Run(f, m) == f = [k \in 0 .. m |-> IF k = 0 THEN vm ELSE Turns(f[k - 1])]
           K == {m \in Nat : \E f : Run(f, m)}
           F == CHOOSE f : Run(f, N)
<1>1. ASSUME NEW M \in Nat PROVE \E f : Run(f, M)
  <2>1. 0 \in K
    <3>1. Run([k \in 0 .. 0 |-> vm], 0)
      OBVIOUS
    <3> QED BY <3>1
  <2>2. ASSUME NEW m \in 1 .. M, m - 1 \in K PROVE m \in K
    <3>1. PICK f : Run(f, m - 1)
      BY <2>2
    <3>2. PICK g : g = [k \in 0 .. m |-> IF k = m THEN Turns(f[m - 1]) ELSE f[k]]
      OBVIOUS
    <3>3. ASSUME NEW k \in 0 .. m PROVE g[k] = IF k = 0 THEN vm ELSE Turns(g[k - 1])
      <4>1. k # 0 => g[k - 1] = f[k - 1]
        BY <3>2
      <4>2. CASE k = m
        BY <3>2, <4>1, <4>2
      <4>3. CASE k \in 0 .. m - 1
        <5>1. f[k] = IF k = 0 THEN vm ELSE Turns(f[k - 1])
          BY <3>1, <4>3
        <5>2. g[k] = f[k]
          BY <3>2, <4>3
        <5> QED BY <4>1, <5>1, <5>2
      <4> QED BY <4>2, <4>3
    <3>4. Run(g, m)
      BY <3>2, <3>3
    <3> QED BY <3>4
  <2> HIDE DEF K
  <2>3. M \in K
    BY <2>1, <2>2, Upto
  <2> QED BY <2>3 DEF K
<1>2. Run(F, N)
  BY <1>1
<1>3. RunUntilStop(vm) = F[N]
  BY DEF RunUntilStop
<1> HIDE DEF F
<1>4. F[0] = vm
  BY <1>2
<1>5. \A k \in 1 .. N : F[k] = Turns(F[k - 1])
  BY <1>2
<1>6. UntilStopRun(vm, N, F)
  BY <1>3, <1>4, <1>5 DEF UntilStopRun
<1> QED BY <1>6

LEMMA RunIs ==
    ASSUME NEW v, VmOK(v)
    PROVE  VmOK(RunUntilStop(v))
<1>1. PICK N : N = Rounds /\ N \in Nat
  BY RoundsIs
<1>2. PICK f : UntilStopRun(v, N, f)
  BY <1>1, RunUnfolds
<1>3. f[0] = v /\ RunUntilStop(v) = f[N] /\ \A k \in 1 .. N : f[k] = Turns(f[k - 1])
  BY <1>2 DEF UntilStopRun
<1> DEFINE K == {k \in 0 .. N : VmOK(f[k])}
<1>4. 0 \in K
  BY <1>1, <1>3
<1>5. ASSUME NEW k \in 1 .. N, k - 1 \in K PROVE k \in K
  <2>1. PICK x : x = f[k - 1]
    OBVIOUS
  <2>2. VmOK(x) /\ f[k] = Turns(x)
    BY <1>3, <1>5, <2>1
  <2>3. VmOK(f[k])
    BY <2>2, TurnsIs
  <2> QED BY <2>3
<1>6. N \in K
  <2>1. \A k \in 1 .. N : k - 1 \in K => k \in K
    BY <1>5
  <2> HIDE DEF K
  <2>2. \A k \in 0 .. N : k \in K
    BY <1>1, <1>4, <2>1, Upto
  <2> QED BY <1>1, <2>2
<1> QED BY <1>3, <1>6

\* A function that is not awaited: the value that it owes is missing from then on.
LEMMA RefusedIs ==
    ASSUME NEW v, VmOK(v)
    PROVE  VmOK(Refused(v)) /\ (v.suspended = FALSE => Refused(v) = v)
<1>1. CASE ~(v.suspended /\ ~Thrown(v))
  BY <1>1 DEF Refused
<1>2. CASE v.suspended /\ ~Thrown(v)
  <2>1. PICK u : u = [v EXCEPT !.suspended = FALSE, !.stale = FALSE]
    OBVIOUS
  <2>2. Sound(v) /\ Shape(v)
    BY DEF VmOK, Sound
  <2>3. Alike(v, u, {"suspended", "stale"}) /\ u.suspended = FALSE /\ u.stale = FALSE
    BY <2>1, <2>2 DEF Alike, Shape, Fields, SavedFields
  <2>4. /\ u.program = v.program /\ u.seed = v.seed /\ u.prng = v.prng /\ u.visits = v.visits
        /\ u.alts = v.alts /\ u.turn = v.turn /\ u.history = v.history /\ u.transcript = v.transcript
        /\ u.frames = v.frames /\ u.stack = v.stack /\ u.pending = v.pending /\ u.views = v.views
        /\ u.status = v.status /\ u.lineBuf = v.lineBuf /\ u.evals = v.evals /\ u.steps = v.steps
        /\ u.intact = v.intact /\ u.astray = v.astray
    <3>1. Alike(v, u, {"suspended", "stale"})
      BY <2>3
    <3> QED BY <3>1, FieldsAre
  <2>5. Sound(u)
    <3>1. Shape(u) /\ (HasExpression(u) <=> HasExpression(v))
      BY <2>3, <2>4 DEF Alike, HasExpression
    <3> QED BY <2>2, <2>3, <2>4, <3>1 DEF Sound, Due
  <2>6. Healthy(v) => Healthy(u)
    <3>1. Len(v.stack) \in Nat
      BY <2>2, ListedIs DEF Sound
    <3>2. Owed(v) \in {Len(v.stack), Len(v.stack) + 1} /\ Owed(u) = Len(v.stack)
      BY <1>2, <2>3, <2>4 DEF Owed, Due
    <3>3. Top(u) = Top(v) /\ Code(u, Top(u).at) = Code(v, Top(v).at)
      BY <2>4 DEF Top, Code
    <3>4. Height(Code(v, Top(v).at), Top(v).ip) \in Nat
      <4>1. v.program \in DOMAIN Program /\ FrameOK(v.program, Top(v))
        BY <2>2, FramesAre DEF Sound, Top
      <4> QED BY <4>1, HeightNat DEF FrameOK, Code
    <3>5. Owed(v) <= Height(Code(v, Top(v).at), Top(v).ip)
             => Owed(u) <= Height(Code(u, Top(u).at), Top(u).ip)
      BY <3>1, <3>2, <3>3, <3>4
    <3> QED BY <2>2, <2>4, <3>5 DEF Healthy, HasExpression
  <2>7. Wounded(v) => Wounded(u)
    BY <2>4 DEF Wounded, Code
  <2>8. Memory(u)
    <3>1. Logged(v) => Logged(u)
      BY <2>4 DEF Logged, Title
    <3>2. Entering(v) => Entering(u)
      BY <2>4 DEF Entering, Title, Top, Code
    <3>3. TakenOnce(u) /\ Untaken(u)
      BY <2>4 DEF VmOK, Memory, TakenOnce, Untaken, Title
    <3> QED BY <3>1, <3>2, <3>3 DEF VmOK, Memory
  <2>9. VmOK(u)
    BY <2>4, <2>5, <2>6, <2>7, <2>8 DEF VmOK
  <2>10. Refused(v) = Throw(u, "async function in continue")
    BY <1>2, <2>1 DEF Refused
  <2> QED BY <1>2, <2>9, <2>10, VmThrow
<1> QED BY <1>1, <1>2

\* The beginning of a continue.
LEMMA RestartIs ==
    ASSUME NEW v, VmOK(v)
    PROVE  VmOK([v EXCEPT !.steps = 0, !.thrown = ""])
<1>1. PICK w : w = [v EXCEPT !.steps = 0, !.thrown = ""]
  OBVIOUS
<1>2. Shape(v)
  BY DEF VmOK, Sound
<1>3. Alike(v, w, {"thrown", "replayable", "steps"}) /\ w.steps = 0
  BY <1>1, <1>2 DEF Alike, Shape, Fields, SavedFields
<1>4. Alike(v, w, {"thrown", "replayable", "steps"}) /\ w.steps \in Nat
  BY <1>3
<1>5. VmOK(w)
  BY <1>4, VmAlike
<1> QED BY <1>1, <1>5

LEMMA ContinueIs ==
    ASSUME NEW v, VmOK(v)
    PROVE  VmOK(Continue(v))
<1>1. PICK u : u = [v EXCEPT !.steps = 0, !.thrown = ""]
  OBVIOUS
<1>2. VmOK(RunUntilStop(u))
  BY <1>1, RestartIs, RunIs
<1>3. VmOK(Refused(RunUntilStop(u)))
  BY <1>2, RefusedIs
<1>4. VmOK(Throw(v, "cannot continue"))
  BY VmThrow
<1> QED BY <1>1, <1>3, <1>4 DEF Continue

-----------------------------------------------------------------------------
(* Taking a choice.                                                        *)

\* Outside of expressions the top frame may go anywhere.
LEMMA TopMoved ==
    ASSUME NEW p, NEW s, FramesOK(p, s), NEW x, FrameOK(p, x), x.kind = s[Len(s)].kind,
           \A k \in DOMAIN s : s[k].kind # "eval"
    PROVE  LET t == [s EXCEPT ![Len(s)] = x]
           IN /\ FramesOK(p, t) /\ Len(t) = Len(s) /\ DOMAIN t = DOMAIN s /\ t[Len(s)] = x
              /\ \A k \in DOMAIN t : t[k].kind # "eval"
<1>1. Len(s) \in Nat \ {0} /\ DOMAIN s = 1 .. Len(s) /\ Listed(s)
  BY FramesAre
<1>2. PICK t : t = [s EXCEPT ![Len(s)] = x]
  OBVIOUS
<1>3. /\ Listed(t) /\ Len(t) = Len(s) /\ DOMAIN t = 1 .. Len(s)
      /\ \A k \in 1 .. Len(s) : t[k] = IF k = Len(s) THEN x ELSE s[k]
  BY <1>1, <1>2, ReplaceListed
<1>4. t # <<>>
  BY <1>1, <1>3
<1>5. \A k \in DOMAIN t : FrameOK(p, t[k]) /\ (t[k].kind = "flow" <=> k = 1)
  BY <1>1, <1>3 DEF FramesOK
<1>6. \A k \in DOMAIN t : t[k].kind # "eval"
  <2>1. s[Len(s)].kind # "eval"
    BY <1>1
  <2> QED BY <1>1, <1>3, <2>1
<1>7. FramesOK(p, t)
  BY <1>3, <1>4, <1>5, <1>6 DEF FramesOK
<1>8. t[Len(s)] = x
  <2>1. Len(s) \in 1 .. Len(s)
    BY <1>1
  <2> QED BY <1>3, <2>1
<1> QED BY <1>1, <1>2, <1>3, <1>6, <1>7, <1>8

\* The fields that a choice changes.
LEMMA ChosenFields ==
    ASSUME NEW v, Shape(v), NEW i \in DOMAIN v.views
    PROVE  LET w == Chosen(v, i)
               x == [Top(v) EXCEPT !.at = v.views[i].body, !.ip = 1]
           IN /\ Alike(v, w, {"history", "turn", "transcript", "pending", "views", "status",
                              "thrown", "frames"})
              /\ w.history = Append(v.history, [turn |-> v.turn, index |-> i, body |-> v.views[i].body])
              /\ w.transcript = Append(v.transcript, [kind |-> "choice", text |-> v.views[i].text])
              /\ w.turn = v.turn + 1 /\ w.pending = <<>> /\ w.views = <<>> /\ w.status = "running"
              /\ w.thrown = "" /\ w.frames = [v.frames EXCEPT ![Len(v.frames)] = x]
<1>1. PICK h, r, x, t : /\ h = Append(v.history, [turn |-> v.turn, index |-> i, body |-> v.views[i].body])
                        /\ r = Append(v.transcript, [kind |-> "choice", text |-> v.views[i].text])
                        /\ x = [Top(v) EXCEPT !.at = v.views[i].body, !.ip = 1]
                        /\ t = [v.frames EXCEPT ![Len(v.frames)] = x]
  OBVIOUS
<1>2. PICK u : u = [v EXCEPT !.history = h, !.turn = @ + 1, !.transcript = r, !.pending = <<>>,
                             !.views = <<>>, !.status = "running", !.thrown = ""]
  OBVIOUS
<1>3. PICK w : w = Chosen(v, i)
  OBVIOUS
<1>4. w = WithTop(u, x)
  BY <1>1, <1>2, <1>3 DEF Chosen
<1>5. /\ Alike(v, u, {"history", "turn", "transcript", "pending", "views", "status", "thrown"})
      /\ u.history = h /\ u.transcript = r /\ u.turn = v.turn + 1 /\ u.pending = <<>>
      /\ u.views = <<>> /\ u.status = "running" /\ u.thrown = ""
  BY <1>2 DEF Alike, Shape, Fields, SavedFields
<1>6. u.frames = v.frames
  BY <1>5 DEF Alike, Fields, SavedFields
<1>7. w = [u EXCEPT !.frames = t]
  BY <1>1, <1>4, <1>6 DEF WithTop
<1>8. Alike(u, w, {"frames"}) /\ w.frames = t
  BY <1>5, <1>7 DEF Alike, Shape, Fields, SavedFields
<1>9. /\ w.history = u.history /\ w.transcript = u.transcript /\ w.turn = u.turn
      /\ w.pending = u.pending /\ w.views = u.views /\ w.status = u.status /\ w.thrown = u.thrown
  BY <1>8 DEF Alike, Fields, SavedFields
<1>10. Alike(v, w, {"history", "turn", "transcript", "pending", "views", "status", "thrown", "frames"})
  BY <1>5, <1>8 DEF Alike
<1> QED BY <1>1, <1>3, <1>5, <1>8, <1>9, <1>10

LEMMA ChosenIs ==
    ASSUME NEW v, VmOK(v), v.status = "choices", NEW i
    PROVE  VmOK(Chosen(v, i))
<1>1. CASE i \notin DOMAIN v.views
  <2>1. Chosen(v, i) = Throw(v, "no such choice")
    BY <1>1 DEF Chosen
  <2>2. VmOK(Throw(v, "no such choice"))
    BY VmThrow
  <2> QED BY <2>1, <2>2
<1>2. CASE i \in DOMAIN v.views
  <2> DEFINE p == v.program
             n == Len(v.history)
  <2>1. /\ Sound(v) /\ Shape(v) /\ v.evals = 0 /\ p \in DOMAIN Program /\ FramesOK(p, v.frames)
        /\ ~HasExpression(v) /\ ~Due(v) /\ Memory(v)
    BY DEF VmOK, Sound
  <2>2. PICK w, x, b, e : /\ w = Chosen(v, i) /\ x = [Top(v) EXCEPT !.at = b, !.ip = 1]
                          /\ b = v.views[i].body /\ e = [turn |-> v.turn, index |-> i, body |-> b]
    OBVIOUS
  <2>3. /\ Alike(v, w, {"history", "turn", "transcript", "pending", "views", "status", "thrown",
                        "frames"})
        /\ w.history = Append(v.history, e)
        /\ w.transcript = Append(v.transcript, [kind |-> "choice", text |-> v.views[i].text])
        /\ w.turn = v.turn + 1 /\ w.pending = <<>> /\ w.views = <<>> /\ w.status = "running"
        /\ w.frames = [v.frames EXCEPT ![Len(v.frames)] = x]
    <3>1. LET z == Chosen(v, i)
              y == [Top(v) EXCEPT !.at = v.views[i].body, !.ip = 1]
          IN /\ Alike(v, z, {"history", "turn", "transcript", "pending", "views", "status",
                             "thrown", "frames"})
             /\ z.history = Append(v.history, [turn |-> v.turn, index |-> i, body |-> v.views[i].body])
             /\ z.transcript = Append(v.transcript, [kind |-> "choice", text |-> v.views[i].text])
             /\ z.turn = v.turn + 1 /\ z.pending = <<>> /\ z.views = <<>> /\ z.status = "running"
             /\ z.thrown = "" /\ z.frames = [v.frames EXCEPT ![Len(v.frames)] = y]
      BY <1>2, <2>1, ChosenFields
    <3> QED BY <2>2, <3>1
  <2>4. /\ w.program = p /\ w.seed = v.seed /\ w.prng = v.prng /\ w.visits = v.visits
        /\ w.alts = v.alts /\ w.stack = v.stack /\ w.lineBuf = v.lineBuf /\ w.steps = v.steps
        /\ w.evals = v.evals /\ w.suspended = v.suspended /\ w.stale = v.stale
        /\ w.astray = v.astray /\ w.intact = v.intact
    <3>1. Alike(v, w, {"history", "turn", "transcript", "pending", "views", "status", "thrown",
                       "frames"})
      BY <2>3
    <3> QED BY <3>1, FieldsAre
  <2>5. Entrance(p, b)
    <3>1. PICK k \in DOMAIN v.pending : v.pending[k].body = b
      BY <1>2, <2>1, <2>2 DEF Sound, ViewsOK
    <3>2. v.pending[k] \in ChoicesOf(p)
      BY <2>1 DEF Sound, ToSet
    <3> QED BY <2>1, <3>1, <3>2, ChoiceIs
  <2>6. /\ Len(v.frames) \in Nat \ {0} /\ DOMAIN v.frames = 1 .. Len(v.frames)
        /\ FrameOK(p, Top(v)) /\ \A k \in DOMAIN v.frames : v.frames[k].kind # "eval"
    BY <2>1, FramesAre DEF Top, HasExpression
  <2>7. x = [at |-> b, ip |-> 1, kind |-> Top(v).kind, temp |-> Top(v).temp]
    BY <2>2, <2>6 DEF FrameOK
  <2>8. Len(Program[p].code[b]) \in Nat
    BY <2>1, <2>5, CodeIs DEF Entrance
  <2>9. Top(v).kind # "eval"
    BY <2>6 DEF Top
  <2>10. FrameOK(p, x) /\ x.kind = Top(v).kind /\ x.at = b /\ x.ip = 1
    BY <2>5, <2>6, <2>7, <2>8, <2>9 DEF FrameOK, Entrance
  <2>11. /\ FramesOK(p, w.frames) /\ Len(w.frames) = Len(v.frames) /\ Top(w) = x
         /\ \A k \in DOMAIN w.frames : w.frames[k].kind # "eval"
    <3>1. PICK s, t : s = v.frames /\ t = w.frames
      OBVIOUS
    <3>2. FramesOK(p, s) /\ x.kind = s[Len(s)].kind /\ \A k \in DOMAIN s : s[k].kind # "eval"
      BY <2>1, <2>6, <2>10, <3>1 DEF Top
    <3>3. LET y == [s EXCEPT ![Len(s)] = x]
          IN /\ FramesOK(p, y) /\ Len(y) = Len(s) /\ DOMAIN y = DOMAIN s /\ y[Len(s)] = x
             /\ \A k \in DOMAIN y : y[k].kind # "eval"
      BY <2>10, <3>2, TopMoved
    <3>4. t = [s EXCEPT ![Len(s)] = x]
      BY <2>3, <3>1
    <3> QED BY <3>1, <3>3, <3>4 DEF Top
  <2>12. ~HasExpression(w)
    BY <2>11 DEF HasExpression
  <2>13. /\ n \in Nat /\ DOMAIN v.history = 1 .. n /\ Listed(w.history) /\ Len(w.history) = n + 1
         /\ DOMAIN w.history = 1 .. n + 1 /\ w.history # <<>>
         /\ \A k \in 1 .. n : w.history[k] = v.history[k]
         /\ w.history[n + 1] = e /\ e.body = b
    <3>1. PICK h, g : h = v.history /\ g = w.history
      OBVIOUS
    <3>2. Listed(h) /\ g = Append(h, e)
      BY <2>1, <2>3, <3>1 DEF Sound
    <3>3. /\ Listed(g) /\ Len(g) = Len(h) + 1 /\ DOMAIN g = 1 .. Len(h) + 1
          /\ \A k \in 1 .. Len(h) : g[k] = h[k]
          /\ g[Len(h) + 1] = e /\ g # <<>>
      BY <3>2, AppendListed
    <3> QED BY <2>2, <3>1, <3>2, <3>3, ListedIs
  <2>14. Sound(w)
    <3>1. Shape(w)
      BY <2>3 DEF Alike
    <3>2. Listed(w.transcript)
      BY <2>1, <2>3, AppendListed DEF Sound
    <3>3. ViewsOK(w.views, w.pending) /\ Listed(w.pending) /\ ToSet(w.pending) = {}
      BY <2>3 DEF ViewsOK, Listed, ToSet
    <3>4. w.turn = Len(w.history)
      BY <2>1, <2>3, <2>13 DEF Sound
    <3> QED BY <2>1, <2>3, <2>4, <2>11, <2>12, <2>13, <3>1, <3>2, <3>3, <3>4 DEF Sound
  <2>15. v.intact => Healthy(w)
    <3>1. v.intact => v.stack = <<>>
      BY DEF VmOK, Healthy, Wounded
    <3>2. Height(Code(w, Top(w).at), Top(w).ip) = 0
      BY <2>10, <2>11, HeightOne
    <3>3. v.stack = <<>> => Owed(w) = 0
      BY <2>1, <2>4 DEF Owed, Due
    <3> QED BY <2>3, <2>12, <3>1, <3>2, <3>3 DEF Healthy
  <2>16. Title(w) = Title(v)
    BY <2>4 DEF Title
  <2>17. Logged(v) /\ TakenOnce(v) /\ Untaken(v)
    BY <2>1 DEF Memory, Entering
  <2>18. Entering(w)
    <3>1. Last(w.history).body = b
      BY <2>13 DEF Last
    <3>2. Top(w).kind # "eval" /\ Top(w).at = b /\ Top(w).ip = 1
      BY <2>9, <2>10, <2>11
    <3>3. /\ Len(Code(w, Top(w).at)) > 0
          /\ Code(w, Top(w).at)[1] = [op |-> "visit", of |-> Top(w).at]
      BY <2>4, <2>5, <3>2 DEF Entrance, Code
    <3>4. \A k \in 1 .. n : OnceOnly(Title(w), w.history[k].body) => w.visits[w.history[k].body] > 0
      BY <2>4, <2>13, <2>16, <2>17 DEF Logged
    <3>5. Len(w.history) - 1 = n
      BY <2>13
    <3>6. \A k \in 1 .. Len(w.history) - 1 :
              OnceOnly(Title(w), w.history[k].body) => w.visits[w.history[k].body] > 0
      BY <3>4, <3>5
    <3>7. Top(w).at = Last(w.history).body
      BY <3>1, <3>2
    <3> QED BY <2>3, <2>13, <3>2, <3>3, <3>6, <3>7 DEF Entering
  <2>19. TakenOnce(w)
    <3>1. ASSUME NEW j \in DOMAIN w.history, NEW k \in DOMAIN w.history,
                 w.history[j].body = w.history[k].body, OnceOnly(Title(w), w.history[j].body)
          PROVE  j = k
      <4>1. CASE j \in 1 .. n /\ k \in 1 .. n
        BY <2>13, <2>16, <2>17, <3>1, <4>1 DEF TakenOnce
      <4>2. ASSUME NEW l \in 1 .. n, w.history[l].body = b PROVE ~OnceOnly(Title(w), b)
        BY <1>2, <2>2, <2>13, <2>16, <2>17, <4>2 DEF Untaken
      <4>3. CASE j = n + 1 /\ k \in 1 .. n
        BY <2>13, <3>1, <4>2, <4>3
      <4>4. CASE j \in 1 .. n /\ k = n + 1
        BY <2>13, <3>1, <4>2, <4>4
      <4>5. j \in 1 .. n \/ j = n + 1
        BY <2>13
      <4>6. k \in 1 .. n \/ k = n + 1
        BY <2>13
      <4> QED BY <4>1, <4>3, <4>4, <4>5, <4>6
    <3> QED BY <3>1 DEF TakenOnce
  <2>20. Untaken(w)
    BY <2>3 DEF Untaken
  <2>21. VmOK(w)
    BY <2>1, <2>4, <2>14, <2>15, <2>18, <2>19, <2>20 DEF VmOK, Memory
  <2> QED BY <2>2, <2>21
<1> QED BY <1>1, <1>2

-----------------------------------------------------------------------------
(* The beginning of a run.                                                 *)

\* The machine before its globals are initialized.
Blanked(v) ==
    LET p == Program[v.program]
    IN [Blank(v.program, v.seed) EXCEPT
           !.globals = [g \in {p.globals[k].name : k \in DOMAIN p.globals} |-> 0],
           !.visits = [c \in DOMAIN p.code |-> 0],
           !.frames = <<Frame(p.entry, "flow")>>,
           !.steps = v.steps, !.evals = v.evals,
           !.suspended = v.suspended, !.stale = v.suspended]

\* A machine that can be started again.
Startable(v) ==
    /\ v.program \in DOMAIN Program /\ v.seed \in 0 .. PrngStates - 1
    /\ v.steps \in Nat /\ v.evals = 0 /\ v.suspended \in BOOLEAN

\* At the entry of the story, with nothing done.
AtEntry(v, b) ==
    /\ Sound(b) /\ b.program = v.program /\ b.seed = v.seed /\ b.history = <<>>
    /\ b.evals = 0 /\ b.suspended = v.suspended /\ b.stale = v.suspended
    /\ b.status = "running" /\ b.views = <<>>

LEMMA BlankedIs ==
    ASSUME NEW v, Startable(v)
    PROVE  LET b == Blanked(v)
           IN AtEntry(v, b) /\ b.stack = <<>> /\ ~HasExpression(b) /\ Len(b.frames) = 1
<1> DEFINE p == v.program
           code == Program[p].code
<1>1. PICK g, n, c, f : /\ g = [h \in {Program[p].globals[k].name : k \in DOMAIN Program[p].globals} |-> 0]
                        /\ n = [d \in DOMAIN code |-> 0] /\ c = Program[p].entry
                        /\ f = Frame(c, "flow")
  OBVIOUS
<1>2. PICK b : b = Blanked(v)
  OBVIOUS
<1>3. b = [Blank(p, v.seed) EXCEPT !.globals = g, !.visits = n, !.frames = <<f>>,
                                   !.steps = v.steps, !.evals = v.evals,
                                   !.suspended = v.suspended, !.stale = v.suspended]
  BY <1>1, <1>2 DEF Blanked
<1>4. b = [program |-> p, seed |-> v.seed, prng |-> v.seed, globals |-> g, visits |-> n,
           alts |-> <<>>, turn |-> 0, history |-> <<>>, transcript |-> <<>>, frames |-> <<f>>,
           stack |-> <<>>, pending |-> <<>>, views |-> <<>>, status |-> "running",
           lineBuf |-> <<>>, steps |-> v.steps, evals |-> v.evals, suspended |-> v.suspended,
           thrown |-> "", replayable |-> TRUE, intact |-> TRUE, stale |-> v.suspended,
           astray |-> FALSE]
  BY <1>3 DEF Blank
<1>5. /\ b.program = p /\ b.seed = v.seed /\ b.prng = v.seed /\ b.visits = n /\ b.alts = <<>>
      /\ b.turn = 0 /\ b.history = <<>> /\ b.transcript = <<>> /\ b.frames = <<f>> /\ b.stack = <<>>
      /\ b.pending = <<>> /\ b.views = <<>> /\ b.status = "running" /\ b.lineBuf = <<>>
      /\ b.steps = v.steps /\ b.evals = v.evals /\ b.suspended = v.suspended /\ b.intact = TRUE
      /\ b.stale = v.suspended /\ b.astray = FALSE
  BY <1>4
<1>6. Shape(b)
  BY <1>4 DEF Shape, Fields, SavedFields
<1>7. p \in DOMAIN Program /\ c \in DOMAIN code
  BY <1>1, ProgramAssumption DEF WellFormed, Startable
<1>8. Len(code[c]) \in Nat
  BY <1>7, CodeIs
<1>9. f = [at |-> c, ip |-> 1, kind |-> "flow", temp |-> 0]
  BY <1>1 DEF Frame
<1>10. FrameOK(p, f) /\ f.kind = "flow"
  BY <1>7, <1>8, <1>9 DEF FrameOK
<1>11. Listed(<<f>>) /\ <<f>> # <<>> /\ DOMAIN <<f>> = {1} /\ <<f>>[1] = f
  BY DEF Listed, ToSet
<1>12. FramesOK(p, <<f>>)
  <2>1. \A j, k \in DOMAIN <<f>> : ~(j < k)
    BY <1>11
  <2> QED BY <1>10, <1>11, <2>1 DEF FramesOK
<1>13. Listed(<<>>) /\ Len(<<>>) = 0 /\ ToSet(<<>>) = {}
  BY DEF Listed, ToSet
<1>14. ViewsOK(<<>>, <<>>) /\ AltsOK(p, <<>>)
  BY <1>13 DEF ViewsOK, AltsOK
<1>15. n \in [DOMAIN code -> Nat]
  BY <1>1
<1>16. ~HasExpression(b)
  BY <1>5, <1>10, <1>11 DEF HasExpression
<1>17. Sound(b)
  <2>1. /\ b.program \in DOMAIN Program /\ b.seed \in 0 .. PrngStates - 1
        /\ b.prng \in 0 .. PrngStates - 1 /\ b.steps \in Nat /\ b.evals \in Nat
        /\ {b.suspended, b.stale, b.astray, b.intact} \subseteq BOOLEAN /\ ~Due(b)
    <3>1. /\ b.program \in DOMAIN Program /\ b.seed \in 0 .. PrngStates - 1
          /\ b.prng \in 0 .. PrngStates - 1
      BY <1>5 DEF Startable
    <3>2. b.steps \in Nat /\ b.evals \in Nat
      BY <1>5 DEF Startable
    <3>3. v.suspended \in BOOLEAN
      BY DEF Startable
    <3>4. b.suspended \in BOOLEAN /\ b.stale \in BOOLEAN
      BY <1>5, <3>3
    <3>5. b.astray \in BOOLEAN /\ b.intact \in BOOLEAN
      BY <1>5
    <3>6. ~Due(b)
      BY <1>5, <3>3 DEF Due
    <3> QED BY <3>1, <3>2, <3>4, <3>5, <3>6
  <2>2. FramesOK(b.program, b.frames) /\ b.visits \in [DOMAIN Program[b.program].code -> Nat]
    BY <1>5, <1>12, <1>15
  <2>3. AltsOK(b.program, b.alts) /\ ViewsOK(b.views, b.pending)
    BY <1>5, <1>14
  <2>4. /\ Listed(b.pending) /\ ToSet(b.pending) \subseteq ChoicesOf(b.program)
        /\ Listed(b.history) /\ b.turn = Len(b.history)
        /\ Listed(b.stack) /\ Listed(b.lineBuf) /\ Listed(b.transcript)
    BY <1>5, <1>13
  <2> QED BY <1>5, <1>6, <2>1, <2>2, <2>3, <2>4 DEF Sound
<1>18. Len(b.frames) = 1
  BY <1>5
<1> QED BY <1>2, <1>5, <1>16, <1>17, <1>18 DEF AtEntry, Startable

\* One initializer, unless one before has thrown.
InitStep(r, global) == IF Thrown(r) THEN r ELSE InitializedOne(global.name, Eval(r, global.init))

\* Initialized, global by global.
InitializedRun(vm, globals, N, f) ==
    /\ f[0] = vm /\ Initialized(vm, globals) = f[N]
    /\ \A k \in 1 .. N : f[k] = InitStep(f[k - 1], globals[k])

LEMMA InitializedUnfolds ==
    ASSUME NEW vm, NEW globals, NEW N \in Nat, N = Len(globals)
    PROVE  \E f : InitializedRun(vm, globals, N, f)
<1> DEFINE Run(f, m) == f = [k \in 0 .. m |-> IF k = 0 THEN vm ELSE InitStep(f[k - 1], globals[k])]
           K == {m \in Nat : \E f : Run(f, m)}
           F == CHOOSE f : Run(f, N)
<1>1. ASSUME NEW M \in Nat PROVE \E f : Run(f, M)
  <2>1. 0 \in K
    <3>1. Run([k \in 0 .. 0 |-> vm], 0)
      OBVIOUS
    <3> QED BY <3>1
  <2>2. ASSUME NEW m \in 1 .. M, m - 1 \in K PROVE m \in K
    <3>1. PICK f : Run(f, m - 1)
      BY <2>2
    <3>2. PICK g : g = [k \in 0 .. m |-> IF k = m THEN InitStep(f[m - 1], globals[m]) ELSE f[k]]
      OBVIOUS
    <3>3. ASSUME NEW k \in 0 .. m PROVE g[k] = IF k = 0 THEN vm ELSE InitStep(g[k - 1], globals[k])
      <4>1. k # 0 => g[k - 1] = f[k - 1]
        BY <3>2
      <4>2. CASE k = m
        BY <3>2, <4>1, <4>2
      <4>3. CASE k \in 0 .. m - 1
        <5>1. f[k] = IF k = 0 THEN vm ELSE InitStep(f[k - 1], globals[k])
          BY <3>1, <4>3
        <5>2. g[k] = f[k]
          BY <3>2, <4>3
        <5> QED BY <4>1, <5>1, <5>2
      <4> QED BY <4>2, <4>3
    <3>4. Run(g, m)
      BY <3>2, <3>3
    <3> QED BY <3>4
  <2> HIDE DEF K
  <2>3. M \in K
    BY <2>1, <2>2, Upto
  <2> QED BY <2>3 DEF K
<1>2. Run(F, N)
  BY <1>1
<1>3. Initialized(vm, globals) = F[N]
  BY DEF Initialized, InitStep
<1> HIDE DEF F
<1>4. F[0] = vm
  BY <1>2
<1>5. \A k \in 1 .. N : F[k] = InitStep(F[k - 1], globals[k])
  BY <1>2
<1>6. InitializedRun(vm, globals, N, F)
  BY <1>3, <1>4, <1>5 DEF InitializedRun
<1> QED BY <1>6

LEMMA InitStepIs ==
    ASSUME NEW b, Sound(b), ~Due(b), NEW r, Aside(b, r), NEW k \in DOMAIN Program[b.program].globals
    PROVE  Aside(b, InitStep(r, Program[b.program].globals[k]))
<1>1. PICK g : g = Program[b.program].globals[k]
  OBVIOUS
<1>2. CASE Thrown(r)
  BY <1>1, <1>2 DEF InitStep
<1>3. CASE ~Thrown(r)
  <2>1. PICK y, z : y = Eval(r, g.init) /\ z = y.vm
    OBVIOUS
  <2>2. Sound(r) /\ r.status = "running" /\ ~Due(r) /\ g.init \in Expressions(r.program)
    BY <1>1 DEF Aside, Beside, Expressions, Due
  <2>3. Aside(r, z)
    BY <2>1, <2>2, EvalAside
  <2>4. Aside(b, z)
    BY <1>3, <2>3, AsideTrans
  <2>5. InitStep(r, g) = IF Thrown(z) THEN z ELSE [z EXCEPT !.globals[g.name] = y.value]
    BY <1>3, <2>1 DEF InitStep, InitializedOne
  <2>6. CASE Thrown(z)
    BY <1>1, <2>4, <2>5, <2>6
  <2>7. CASE ~Thrown(z)
    <3>1. PICK h : h = [z.globals EXCEPT ![g.name] = y.value]
      OBVIOUS
    <3>2. PICK u : u = [z EXCEPT !.globals = h]
      OBVIOUS
    <3>3. InitStep(r, g) = u
      BY <2>5, <2>7, <3>1, <3>2
    <3>4. Sound(z) /\ Shape(z) /\ Beside(b, z)
      BY <2>4 DEF Aside, Beside, Sound
    <3>5. Alike(z, u, {"globals"})
      BY <3>2, <3>4 DEF Alike, Shape, Fields, SavedFields
    <3>6. u.frames = z.frames /\ u.stack = z.stack /\ u.evals = z.evals /\ u.thrown = z.thrown
          /\ u.lineBuf = z.lineBuf
      BY <3>5, FieldsAre
    <3>7. Beside(b, u)
      <4>1. Alike(z, u, {"lineBuf", "stack", "evals", "globals"})
        BY <3>5, AlikeMore
      <4>2. Listed(u.lineBuf) /\ Listed(u.stack) /\ u.evals \in Nat
        BY <3>4, <3>6 DEF Sound
      <4> QED BY <3>4, <4>1, <4>2, BesideMore
    <3>8. Aside(b, u)
      BY <2>4, <3>6, <3>7 DEF Aside, Thrown
    <3> QED BY <1>1, <3>3, <3>8
  <2> QED BY <2>6, <2>7
<1> QED BY <1>2, <1>3

LEMMA InitializedIs ==
    ASSUME NEW b, Sound(b), b.status = "running", ~Due(b)
    PROVE  Aside(b, Initialized(b, Program[b.program].globals))
<1>1. PICK g, N : g = Program[b.program].globals /\ N = Len(g) /\ N \in Nat /\ DOMAIN g = 1 .. N
  BY ProgramAssumption DEF WellFormed, Sound, IsSequence
<1>2. PICK f : InitializedRun(b, g, N, f)
  BY <1>1, InitializedUnfolds
<1>3. f[0] = b /\ Initialized(b, g) = f[N] /\ \A k \in 1 .. N : f[k] = InitStep(f[k - 1], g[k])
  BY <1>2 DEF InitializedRun
<1> DEFINE K == {k \in 0 .. N : Aside(b, f[k])}
<1>4. 0 \in K
  BY <1>1, <1>3, AsideSelf
<1>5. ASSUME NEW k \in 1 .. N, k - 1 \in K PROVE k \in K
  <2>1. PICK x : x = f[k - 1]
    OBVIOUS
  <2>2. Aside(b, x) /\ f[k] = InitStep(x, g[k]) /\ k \in DOMAIN g
    BY <1>1, <1>3, <1>5, <2>1
  <2>3. Aside(b, f[k])
    BY <1>1, <2>2, InitStepIs
  <2> QED BY <2>3
<1>6. N \in K
  <2>1. \A k \in 1 .. N : k - 1 \in K => k \in K
    BY <1>5
  <2> HIDE DEF K
  <2>2. \A k \in 0 .. N : k \in K
    BY <1>1, <1>4, <2>1, Upto
  <2> QED BY <1>1, <2>2
<1> QED BY <1>1, <1>3, <1>6

\* bootstrap, as a whole.
LEMMA BootstrapIs ==
    ASSUME NEW v, Startable(v)
    PROVE  LET w == Bootstrap(v) IN VmOK(w) /\ AtEntry(v, w)
<1>1. PICK b : b = Blanked(v)
  OBVIOUS
<1>2. AtEntry(v, b) /\ b.stack = <<>> /\ ~HasExpression(b) /\ Len(b.frames) = 1
  BY <1>1, BlankedIs
<1>3. PICK r, w : r = Initialized(b, Program[v.program].globals) /\ w = Sealed(r)
  OBVIOUS
<1>4. Bootstrap(v) = w
  BY <1>1, <1>3 DEF Bootstrap, Blanked
<1>5. Aside(b, r)
  <2>1. Sound(b) /\ b.status = "running" /\ ~Due(b) /\ b.program = v.program
    BY <1>2 DEF AtEntry, Due
  <2> QED BY <1>3, <2>1, InitializedIs
<1>6. Sound(r) /\ Shape(r) /\ r.status = "running"
  BY <1>5 DEF Aside, Beside, Sound
<1>7. PICK x : x = ~Thrown(r) /\ x \in BOOLEAN
  OBVIOUS
<1>8. w = [r EXCEPT !.intact = x]
  BY <1>3, <1>7 DEF Sealed
<1>9. Alike(r, w, {"intact"}) /\ w.intact = x
  BY <1>6, <1>8 DEF Alike, Shape, Fields, SavedFields
<1>10. /\ w.program = r.program /\ w.seed = r.seed /\ w.history = r.history /\ w.frames = r.frames
       /\ w.stack = r.stack /\ w.views = r.views /\ w.status = r.status /\ w.lineBuf = r.lineBuf
       /\ w.steps = r.steps /\ w.evals = r.evals /\ w.suspended = r.suspended
       /\ w.stale = r.stale /\ w.astray = r.astray /\ w.thrown = r.thrown
  <2>1. Alike(r, w, {"intact"})
    BY <1>9
  <2> QED BY <2>1, FieldsAre
<1>11. Sound(w)
  <2>1. Alike(r, w, {"thrown", "replayable", "steps", "evals", "stack", "lineBuf", "globals",
                     "frames", "suspended", "stale", "astray", "intact"})
    BY <1>9, AlikeMore
  <2>2. /\ w.steps \in Nat /\ w.evals \in Nat /\ Listed(w.stack) /\ Listed(w.lineBuf)
        /\ FramesOK(r.program, w.frames) /\ {w.suspended, w.stale, w.astray} \subseteq BOOLEAN
    BY <1>6, <1>10 DEF Sound
  <2>3. {w.suspended, w.stale, w.astray, w.intact} \subseteq BOOLEAN
    BY <1>7, <1>9, <2>2
  <2> QED BY <1>6, <2>1, <2>2, <2>3, RunningSound
<1>12. AtEntry(v, w)
  <2>1. r.evals = 0 /\ r.history = <<>> /\ r.views = <<>> /\ r.suspended = v.suspended
        /\ r.stale = v.suspended /\ r.program = v.program /\ r.seed = v.seed
    BY <1>2, <1>5 DEF AtEntry, Aside, Beside
  <2> QED BY <1>6, <1>10, <1>11, <2>1 DEF AtEntry
<1>13. ASSUME w.intact PROVE Healthy(w)
  <2>1. ~Thrown(r)
    BY <1>7, <1>9, <1>13
  <2>2. w.stack = <<>> /\ Len(w.frames) = 1 /\ SameFrame(b.frames[1], w.frames[1])
    BY <1>2, <1>5, <1>10, <2>1 DEF Aside, Beside
  <2>3. DOMAIN w.frames = 1 .. 1 /\ DOMAIN b.frames = 1 .. 1
    BY <1>2, <1>11, <2>2, FramesAre DEF Sound, AtEntry
  <2>4. ~HasExpression(w)
    BY <1>2, <2>2, <2>3 DEF HasExpression, SameFrame
  <2>5. Owed(w) = 0
    BY <1>12, <2>2 DEF Owed, Due, AtEntry
  <2>6. Height(Code(w, Top(w).at), Top(w).ip) \in Nat
    <3>1. w.program \in DOMAIN Program /\ FrameOK(w.program, Top(w))
      BY <1>11, FramesAre DEF Sound, Top
    <3> QED BY <3>1, HeightNat DEF FrameOK, Code
  <2> QED BY <1>6, <1>10, <2>4, <2>5, <2>6 DEF Healthy
<1>14. Memory(w)
  <2>1. w.history = <<>> /\ w.views = <<>>
    BY <1>12 DEF AtEntry
  <2> QED BY <2>1 DEF Memory, TakenOnce, Untaken, Logged
<1>15. VmOK(w)
  BY <1>11, <1>12, <1>13, <1>14 DEF VmOK, AtEntry
<1> QED BY <1>4, <1>12, <1>15

LEMMA NewIs ==
    ASSUME NEW p \in DOMAIN Program, NEW s \in 0 .. PrngStates - 1
    PROVE  /\ VmOK(New(p, s)) /\ ~Thrown(New(p, s)) /\ Startable(New(p, s))
           /\ New(p, s).program = p /\ New(p, s).seed = s /\ New(p, s).status = "running"
           /\ New(p, s).suspended = FALSE
<1>1. PICK b, w : b = Blank(p, s) /\ w = New(p, s)
  OBVIOUS
<1>2. b.program = p /\ b.seed = s /\ b.steps = 0 /\ b.evals = 0 /\ b.suspended = FALSE
  BY <1>1 DEF Blank
<1>3. Startable(b)
  <2>1. b.program \in DOMAIN Program /\ b.seed \in 0 .. PrngStates - 1
    BY <1>2
  <2>2. b.steps \in Nat /\ b.evals = 0
    BY <1>2
  <2>3. b.suspended \in BOOLEAN
    BY <1>2
  <2> QED BY <2>1, <2>2, <2>3 DEF Startable
<1>4. w = Bootstrap(b)
  BY <1>1 DEF New
<1>5. VmOK(w) /\ AtEntry(b, w)
  BY <1>3, <1>4, BootstrapIs
<1>6. ~Thrown(w)
  BY <1>1, InitializersAssumption
<1>7. w.program = p /\ w.seed = s /\ w.status = "running" /\ Startable(w) /\ w.suspended = FALSE
  BY <1>2, <1>5 DEF AtEntry, Startable, Sound
<1> QED BY <1>1, <1>5, <1>6, <1>7

-----------------------------------------------------------------------------
(* Saves.                                                                  *)

\* Outside of expressions a save holds every frame.
LEMMA SaveIs ==
    ASSUME NEW v, Sound(v), ~HasExpression(v)
    PROVE  SaveState(v) = [f \in SavedFields |-> v[f]]
<1>1. FramesOK(v.program, v.frames)
  BY DEF Sound
<1>2. Listed(v.frames) /\ \A k \in DOMAIN v.frames : v.frames[k].kind \in {"flow", "tunnel"}
  BY <1>1 DEF FramesOK, FrameOK, HasExpression
<1>3. FramesOf(v.frames, {"flow", "tunnel"}) = v.frames
  BY <1>2, FramesOfAll
<1>4. SaveState(v) = [[f \in SavedFields |-> v[f]] EXCEPT !["frames"] = v.frames]
  BY <1>3 DEF SaveState
<1> QED BY <1>4 DEF SavedFields

\* A loaded story is the saved one, but for the step count, what was thrown, and a call
\* of before.
LEMMA LoadedIs ==
    ASSUME NEW v, Sound(v), ~HasExpression(v), v.evals = 0,
           NEW a, NEW b, AtEntry(a, b), ~Thrown(b)
    PROVE  LET w == Loaded(b, SaveState(v))
           IN /\ Alike(v, w, {"thrown", "steps", "suspended", "stale"})
              /\ w.steps \in Nat /\ ~Thrown(w)
              /\ w.suspended = a.suspended /\ w.stale = a.suspended /\ a.suspended \in BOOLEAN
<1>1. PICK s, w : s = SaveState(v) /\ w = Loaded(b, s)
  OBVIOUS
<1>2. s = [f \in SavedFields |-> v[f]]
  BY <1>1, SaveIs
<1>3. Shape(v) /\ Shape(b) /\ v.frames # <<>> /\ b.steps \in Nat /\ b.evals = 0
      /\ b.suspended = a.suspended /\ b.stale = a.suspended /\ a.suspended \in BOOLEAN
  BY DEF Sound, FramesOK, AtEntry
<1>4. s.frames = v.frames
  BY <1>2 DEF SavedFields
<1>5. w = [f \in DOMAIN b |-> IF f \in SavedFields THEN s[f] ELSE b[f]]
  BY <1>1, <1>3, <1>4 DEF Loaded
<1>6. DOMAIN b = Fields
  BY <1>3 DEF Shape
<1>7. w = [f \in Fields |-> w[f]] /\ \A f \in Fields : w[f] = IF f \in SavedFields THEN s[f] ELSE b[f]
  BY <1>5, <1>6
<1>8. \A f \in SavedFields : w[f] = v[f]
  BY <1>2, <1>7 DEF Fields
<1>9. /\ w.evals = b.evals /\ w.suspended = b.suspended /\ w.stale = b.stale
      /\ w.steps = b.steps /\ w.thrown = b.thrown
  BY <1>7 DEF Fields, SavedFields
<1>10. Alike(v, w, {"thrown", "steps", "suspended", "stale"})
  <2>1. Shape(w)
    BY <1>7 DEF Shape
  <2> QED BY <1>3, <1>8, <1>9, <2>1 DEF Alike, Fields
<1> QED BY <1>1, <1>3, <1>9, <1>10 DEF Thrown

LEMMA LoadedOK ==
    ASSUME NEW v, VmOK(v), v.status # "running", NEW a, NEW b, AtEntry(a, b), ~Thrown(b)
    PROVE  VmOK(Loaded(b, SaveState(v)))
<1>1. PICK w : w = Loaded(b, SaveState(v))
  OBVIOUS
<1>2. Sound(v) /\ ~HasExpression(v) /\ v.evals = 0 /\ ~Due(v)
  BY DEF VmOK, Sound
<1>3. /\ Alike(v, w, {"thrown", "steps", "suspended", "stale"}) /\ w.steps \in Nat
      /\ w.suspended = a.suspended /\ w.stale = a.suspended /\ a.suspended \in BOOLEAN
  BY <1>1, <1>2, LoadedIs
<1>4. Alike(v, w, {"thrown", "replayable", "steps", "suspended", "stale", "astray"})
  BY <1>3, AlikeMore
<1>5. w.astray = v.astray
  <2>1. Alike(v, w, {"thrown", "steps", "suspended", "stale"})
    BY <1>3
  <2> QED BY <2>1, FieldsAre
<1>6. {w.suspended, w.stale, w.astray} \subseteq BOOLEAN
  BY <1>2, <1>3, <1>5 DEF Sound
<1>7. ~Due(w)
  BY <1>3 DEF Due
<1> QED BY <1>1, <1>2, <1>3, <1>4, <1>6, <1>7, VmSame

LEMMA LoadStateIs ==
    ASSUME NEW v, Startable(v), NEW s, SlotOK(s), s # Empty
    PROVE  VmOK(LoadState(v, s))
<1>1. PICK m : VmOK(m) /\ m.status # "running" /\ s = SaveState(m)
  BY DEF SlotOK
<1>2. PICK b, w : b = Bootstrap(v) /\ w = Loaded(b, s)
  OBVIOUS
<1>3. VmOK(b) /\ AtEntry(v, b)
  BY <1>2, BootstrapIs
<1>4. CASE Thrown(b)
  BY <1>2, <1>3, <1>4 DEF LoadState, Loaded
<1>5. CASE ~Thrown(b)
  <2>1. w = Loaded(b, SaveState(m))
    BY <1>1, <1>2
  <2>2. VmOK(w)
    BY <1>1, <1>3, <1>5, <2>1, LoadedOK
  <2> QED BY <1>2, <2>2 DEF LoadState
<1> QED BY <1>4, <1>5

LEMMA RestoredIs ==
    ASSUME NEW v, VmOK(v), Startable(v), NEW s, SlotOK(s), s # Empty
    PROVE  VmOK(Restored(v, s))
<1>1. PICK x : x = LoadState(New(v.program, s.seed), s)
  OBVIOUS
<1>2. Restored(v, s) = IF Thrown(x) THEN Throw(v, x.thrown) ELSE LoadState(v, s)
  BY <1>1 DEF Restored, RestoredIf
<1>3. VmOK(Throw(v, x.thrown))
  BY VmThrow
<1>4. VmOK(LoadState(v, s))
  BY LoadStateIs
<1> QED BY <1>2, <1>3, <1>4

-----------------------------------------------------------------------------
(* Another version of the program.                                         *)

LEMMA MigratedIs ==
    ASSUME NEW b, VmOK(b), NEW a, AtEntry(a, b), NEW m, VmOK(m), m.status # "running",
           Program[m.program].title = Program[b.program].title
    PROVE  VmOK(MigratedInto(b, SaveState(m)))
<1>1. PICK s : s = SaveState(m)
  OBVIOUS
<1>2. CASE Thrown(b)
  BY <1>2 DEF MigratedInto
<1>3. CASE ~Thrown(b)
  <2>1. Sound(m) /\ Sound(b) /\ ~HasExpression(m) /\ Shape(b) /\ Memory(m)
    BY DEF VmOK, Sound
  <2>2. s = [f \in SavedFields |-> m[f]]
    BY <1>1, <2>1, SaveIs
  <2>3. /\ s.seed = m.seed /\ s.prng = m.prng /\ s.turn = m.turn /\ s.history = m.history
        /\ s.transcript = m.transcript /\ s.globals = m.globals /\ s.visits = m.visits
    BY <2>2 DEF SavedFields
  <2>4. PICK g, n : /\ g = [h \in DOMAIN b.globals |-> IF h \in DOMAIN s.globals THEN s.globals[h]
                                                       ELSE b.globals[h]]
                    /\ n = [c \in DOMAIN b.visits |-> IF c \in DOMAIN s.visits THEN s.visits[c]
                                                      ELSE b.visits[c]]
    OBVIOUS
  <2>5. PICK w : w = [b EXCEPT !.seed = s.seed, !.prng = s.prng, !.turn = s.turn,
                               !.history = s.history, !.transcript = s.transcript,
                               !.globals = g, !.visits = n, !.replayable = FALSE]
    OBVIOUS
  <2>6. MigratedInto(b, s) = w
    BY <1>3, <2>4, <2>5 DEF MigratedInto
  <2>7. /\ Alike(b, w, {"seed", "prng", "turn", "history", "transcript", "globals", "visits",
                        "replayable"})
        /\ w.seed = m.seed /\ w.prng = m.prng /\ w.turn = m.turn /\ w.history = m.history
        /\ w.transcript = m.transcript /\ w.visits = n
    BY <2>1, <2>3, <2>5 DEF Alike, Shape, Fields, SavedFields
  <2>8. /\ w.program = b.program /\ w.alts = b.alts /\ w.frames = b.frames /\ w.stack = b.stack
        /\ w.pending = b.pending /\ w.views = b.views /\ w.status = b.status
        /\ w.lineBuf = b.lineBuf /\ w.steps = b.steps /\ w.evals = b.evals
        /\ w.suspended = b.suspended /\ w.stale = b.stale /\ w.astray = b.astray
        /\ w.intact = b.intact
    <3>1. Alike(b, w, {"seed", "prng", "turn", "history", "transcript", "globals", "visits",
                       "replayable"})
      BY <2>7
    <3> QED BY <3>1, FieldsAre
  <2>9. /\ DOMAIN b.visits = DOMAIN Program[b.program].code
        /\ DOMAIN m.visits = DOMAIN Program[m.program].code
        /\ n \in [DOMAIN Program[b.program].code -> Nat]
        /\ \A c \in DOMAIN b.visits : c \in DOMAIN m.visits => n[c] = m.visits[c]
    BY <2>1, <2>3, <2>4 DEF Sound
  <2>10. Sound(w)
    <3>1. Shape(w)
      BY <2>7 DEF Alike
    <3>2. HasExpression(w) <=> HasExpression(b)
      BY <2>8 DEF HasExpression
    <3>3. /\ w.seed \in 0 .. PrngStates - 1 /\ w.prng \in 0 .. PrngStates - 1
          /\ Listed(w.history) /\ w.turn = Len(w.history) /\ Listed(w.transcript)
      BY <2>1, <2>7 DEF Sound
    <3> QED BY <2>1, <2>7, <2>8, <2>9, <3>1, <3>2, <3>3 DEF Sound, Due
  <2>11. (Healthy(b) => Healthy(w)) /\ (Wounded(b) => Wounded(w))
    BY <2>8 DEF Healthy, Wounded, HasExpression, Owed, Due, Code, Top
  <2>12. Memory(w)
    <3>1. Title(w) = Title(m) /\ Title(m) = Program[b.program].title /\ b.program \in DOMAIN Program
      BY <2>1, <2>8 DEF Title, Sound
    <3>2. TakenOnce(w)
      BY <2>1, <2>7, <3>1 DEF Memory, TakenOnce
    <3>3. Logged(m)
      BY <2>1 DEF Memory, Entering
    <3>4. ASSUME NEW c, OnceOnly(Title(m), c) PROVE c \in DOMAIN b.visits /\ c \in DOMAIN m.visits
      <4>1. m.program \in DOMAIN Program /\ Program[m.program].title = Title(m)
        BY <2>1 DEF Sound, Title
      <4> QED BY <2>9, <3>1, <3>4, <4>1 DEF OnceOnly
    <3>5. Logged(w)
      BY <2>7, <2>9, <3>1, <3>3, <3>4 DEF Logged
    <3>6. w.views = <<>>
      BY <2>8 DEF AtEntry
    <3> QED BY <3>2, <3>5, <3>6 DEF Memory, Untaken
  <2>13. VmOK(w)
    BY <2>8, <2>10, <2>11, <2>12 DEF VmOK
  <2> QED BY <1>1, <2>6, <2>13
<1> QED BY <1>2, <1>3

-----------------------------------------------------------------------------
(* Replays.                                                                *)

LEMMA ReplayStepIs ==
    ASSUME NEW v, VmOK(v), NEW i
    PROVE  VmOK(ReplayStep(v, i))
<1>1. CASE Thrown(v) \/ v.status # "choices"
  BY <1>1 DEF ReplayStep
<1>2. CASE ~Thrown(v) /\ v.status = "choices"
  <2>1. PICK w : w = Chosen(v, i)
    OBVIOUS
  <2>2. VmOK(w)
    BY <1>2, <2>1, ChosenIs
  <2>3. VmOK(Continue(w))
    BY <2>2, ContinueIs
  <2>4. ReplayStep(v, i) = w \/ ReplayStep(v, i) = Continue(w)
    BY <1>2, <2>1 DEF ReplayStep, TakenOn
  <2> QED BY <2>2, <2>3, <2>4
<1> QED BY <1>1, <1>2

\* Replayed, choice by choice.
ReplayedRun(vm, choices, N, f) ==
    /\ f[0] = vm /\ Replayed(vm, choices) = f[N]
    /\ \A k \in 1 .. N : f[k] = ReplayStep(f[k - 1], choices[k])

LEMMA ReplayedUnfolds ==
    ASSUME NEW vm, NEW choices, NEW N \in Nat, N = Len(choices)
    PROVE  \E f : ReplayedRun(vm, choices, N, f)
<1> DEFINE Run(f, m) == f = [k \in 0 .. m |-> IF k = 0 THEN vm ELSE ReplayStep(f[k - 1], choices[k])]
           K == {m \in Nat : \E f : Run(f, m)}
           F == CHOOSE f : Run(f, N)
<1>1. ASSUME NEW M \in Nat PROVE \E f : Run(f, M)
  <2>1. 0 \in K
    <3>1. Run([k \in 0 .. 0 |-> vm], 0)
      OBVIOUS
    <3> QED BY <3>1
  <2>2. ASSUME NEW m \in 1 .. M, m - 1 \in K PROVE m \in K
    <3>1. PICK f : Run(f, m - 1)
      BY <2>2
    <3>2. PICK g : g = [k \in 0 .. m |-> IF k = m THEN ReplayStep(f[m - 1], choices[m]) ELSE f[k]]
      OBVIOUS
    <3>3. ASSUME NEW k \in 0 .. m PROVE g[k] = IF k = 0 THEN vm ELSE ReplayStep(g[k - 1], choices[k])
      <4>1. k # 0 => g[k - 1] = f[k - 1]
        BY <3>2
      <4>2. CASE k = m
        BY <3>2, <4>1, <4>2
      <4>3. CASE k \in 0 .. m - 1
        <5>1. f[k] = IF k = 0 THEN vm ELSE ReplayStep(f[k - 1], choices[k])
          BY <3>1, <4>3
        <5>2. g[k] = f[k]
          BY <3>2, <4>3
        <5> QED BY <4>1, <5>1, <5>2
      <4> QED BY <4>2, <4>3
    <3>4. Run(g, m)
      BY <3>2, <3>3
    <3> QED BY <3>4
  <2> HIDE DEF K
  <2>3. M \in K
    BY <2>1, <2>2, Upto
  <2> QED BY <2>3 DEF K
<1>2. Run(F, N)
  BY <1>1
<1>3. Replayed(vm, choices) = F[N]
  BY DEF Replayed
<1> HIDE DEF F
<1>4. F[0] = vm
  BY <1>2
<1>5. \A k \in 1 .. N : F[k] = ReplayStep(F[k - 1], choices[k])
  BY <1>2
<1>6. ReplayedRun(vm, choices, N, F)
  BY <1>3, <1>4, <1>5 DEF ReplayedRun
<1> QED BY <1>6

LEMMA ReplayedIs ==
    ASSUME NEW v, VmOK(v), NEW choices, Len(choices) \in Nat
    PROVE  VmOK(Replayed(v, choices))
<1>1. PICK N : N = Len(choices) /\ N \in Nat
  OBVIOUS
<1>2. PICK f : ReplayedRun(v, choices, N, f)
  BY <1>1, ReplayedUnfolds
<1>3. f[0] = v /\ Replayed(v, choices) = f[N] /\ \A k \in 1 .. N : f[k] = ReplayStep(f[k - 1], choices[k])
  BY <1>2 DEF ReplayedRun
<1> DEFINE K == {k \in 0 .. N : VmOK(f[k])}
<1>4. 0 \in K
  BY <1>1, <1>3
<1>5. ASSUME NEW k \in 1 .. N, k - 1 \in K PROVE k \in K
  <2>1. PICK x : x = f[k - 1]
    OBVIOUS
  <2>2. VmOK(x) /\ f[k] = ReplayStep(x, choices[k])
    BY <1>3, <1>5, <2>1
  <2>3. VmOK(f[k])
    BY <2>2, ReplayStepIs
  <2> QED BY <2>3
<1>6. N \in K
  <2>1. \A k \in 1 .. N : k - 1 \in K => k \in K
    BY <1>5
  <2> HIDE DEF K
  <2>2. \A k \in 0 .. N : k \in K
    BY <1>1, <1>4, <2>1, Upto
  <2> QED BY <1>1, <2>2
<1> QED BY <1>3, <1>6

LEMMA RewoundIs ==
    ASSUME NEW v, VmOK(v), NEW turns \in Nat
    PROVE  VmOK(RewoundOr(v, Rewound(v, turns)))
<1>1. PICK h, n, r : /\ h = [k \in 1 .. turns |-> v.history[k].index]
                     /\ n = New(v.program, v.seed) /\ r = Rewound(v, turns)
  OBVIOUS
<1>2. v.program \in DOMAIN Program /\ v.seed \in 0 .. PrngStates - 1
  BY DEF VmOK, Sound
<1>3. VmOK(n)
  BY <1>1, <1>2, NewIs
<1>4. VmOK(Continue(n))
  BY <1>3, ContinueIs
<1>5. Len(h) \in Nat
  <2>1. h = [k \in 1 .. turns |-> h[k]]
    BY <1>1
  <2>2. Listed(h) /\ Len(h) = turns
    BY <2>1, ListedIs
  <2> QED BY <2>2
<1>6. r = Replayed(Continue(n), h)
  BY <1>1 DEF Rewound, ReplayStory
<1>7. VmOK(r)
  BY <1>4, <1>5, <1>6, ReplayedIs
<1>8. VmOK(Throw(v, r.thrown))
  BY VmThrow
<1> QED BY <1>1, <1>7, <1>8 DEF RewoundOr

-----------------------------------------------------------------------------
(* The calls of the host.                                                  *)

\* The value that was owed is there, or the answer to a call of before.
LEMMA AnsweredIs ==
    ASSUME NEW v, VmOK(v), v.suspended, NEW x
    PROVE  VmOK(Answered(v, x))
<1>1. PICK s, c, u : /\ s = Append(v.stack, x) /\ c = (v.intact /\ ~v.stale) /\ u = Answered(v, x)
  OBVIOUS
<1>2. /\ Sound(v) /\ Shape(v) /\ Listed(v.stack) /\ {v.suspended, v.stale, v.intact} \subseteq BOOLEAN
      /\ c \in BOOLEAN
  BY <1>1 DEF VmOK, Sound
<1>3. u = [v EXCEPT !.stack = s, !.suspended = FALSE, !.stale = FALSE, !.replayable = FALSE,
                    !.intact = c]
  <2>1. PICK y : y = Push(v, x)
    OBVIOUS
  <2>2. y = [v EXCEPT !.stack = s]
    BY <1>1, <2>1 DEF Push
  <2>3. y.intact = v.intact /\ Shape(y)
    BY <1>2, <2>2 DEF Shape, Fields, SavedFields
  <2>4. u = [y EXCEPT !.suspended = FALSE, !.stale = FALSE, !.replayable = FALSE,
                      !.intact = y.intact /\ ~v.stale]
    BY <1>1, <2>1 DEF Answered
  <2> QED BY <1>1, <2>2, <2>3, <2>4
<1>4. /\ Alike(v, u, {"stack", "suspended", "stale", "replayable", "intact"})
      /\ u.suspended = FALSE /\ u.stale = FALSE /\ u.stack = s /\ u.intact = c
  BY <1>2, <1>3 DEF Alike, Shape, Fields, SavedFields
<1>5. Listed(s) /\ Len(s) = Len(v.stack) + 1
  BY <1>1, <1>2, AppendListed
<1>6. /\ u.program = v.program /\ u.seed = v.seed /\ u.prng = v.prng /\ u.visits = v.visits
      /\ u.alts = v.alts /\ u.turn = v.turn /\ u.history = v.history /\ u.transcript = v.transcript
      /\ u.frames = v.frames /\ u.pending = v.pending /\ u.views = v.views
      /\ u.status = v.status /\ u.lineBuf = v.lineBuf /\ u.evals = v.evals /\ u.steps = v.steps
      /\ u.astray = v.astray
  <2>1. Alike(v, u, {"stack", "suspended", "stale", "replayable", "intact"})
    BY <1>4
  <2> QED BY <2>1, FieldsAre
<1>7. Sound(u)
  <2>1. Shape(u) /\ (HasExpression(u) <=> HasExpression(v))
    BY <1>4, <1>6 DEF Alike, HasExpression
  <2>2. {u.suspended, u.stale, u.astray, u.intact} \subseteq BOOLEAN /\ ~Due(u)
    BY <1>2, <1>4, <1>6 DEF Sound, Due
  <2> QED BY <1>2, <1>4, <1>5, <1>6, <2>1, <2>2 DEF Sound
<1>8. Healthy(v) /\ u.intact => Healthy(u)
  <2>1. SUFFICES ASSUME Healthy(v), u.intact PROVE Healthy(u)
    OBVIOUS
  <2>2. Due(v) /\ v.status = "running"
    BY <1>1, <1>2, <1>4, <2>1 DEF Due, Sound
  <2>3. Owed(u) = Owed(v)
    BY <1>4, <1>5, <2>2 DEF Owed, Due
  <2>4. Top(u) = Top(v) /\ Code(u, Top(u).at) = Code(v, Top(v).at)
    BY <1>6 DEF Top, Code
  <2> QED BY <1>6, <2>1, <2>2, <2>3, <2>4 DEF Healthy, HasExpression
<1>9. Wounded(v) => Wounded(u)
  BY <1>6 DEF Wounded, Code
<1>10. Memory(u)
  <2>1. Logged(v) => Logged(u)
    BY <1>6 DEF Logged, Title
  <2>2. Entering(v) => Entering(u)
    BY <1>6 DEF Entering, Title, Top, Code
  <2>3. TakenOnce(u) /\ Untaken(u)
    BY <1>6 DEF VmOK, Memory, TakenOnce, Untaken, Title
  <2> QED BY <2>1, <2>2, <2>3 DEF VmOK, Memory
<1>11. u.intact => v.intact
  BY <1>1, <1>4
<1>12. VmOK(u)
  BY <1>6, <1>7, <1>8, <1>9, <1>10, <1>11 DEF VmOK
<1> QED BY <1>1, <1>12

LEMMA SlotTitleIs ==
    ASSUME NEW m, VmOK(m), NEW s, s = SaveState(m)
    PROVE  s # Empty => s.program = m.program /\ s.program \in DOMAIN Program
<1>1. s = [[f \in SavedFields |-> m[f]] EXCEPT !["frames"] = FramesOf(m.frames, {"flow", "tunnel"})]
  BY DEF SaveState
<1> QED BY <1>1 DEF SavedFields, VmOK, Sound

\* w is v after the choice i.
Taken(v, i, w) ==
    /\ Alike(v, w, {"history", "turn", "transcript", "pending", "views", "status", "thrown", "frames"})
    /\ w.history = Append(v.history, [turn |-> v.turn, index |-> i, body |-> v.views[i].body])
    /\ w.transcript = Append(v.transcript, [kind |-> "choice", text |-> v.views[i].text])
    /\ w.turn = v.turn + 1 /\ w.pending = <<>> /\ w.views = <<>> /\ w.status = "running"
    /\ w.thrown = ""
    /\ w.frames = [v.frames EXCEPT ![Len(v.frames)] = [Top(v) EXCEPT !.at = v.views[i].body, !.ip = 1]]

LEMMA ChosenTaken ==
    ASSUME NEW v, Shape(v), NEW i \in DOMAIN v.views
    PROVE  Taken(v, i, Chosen(v, i))
  BY ChosenFields DEF Taken

-----------------------------------------------------------------------------
(* The theorems.                                                           *)

\* The inductive invariant: the story of the host is a sound machine, and its slot holds
\* a save of one that had stopped (vm.ts, saves.ts).  It holds in whichever order a host
\* continues, steps, chooses, saves, restores, upgrades and rewinds, with two limits that
\* the specification names: no call is made while continueAsync awaits a function, and a
\* story that went astray (Strays) is not continued.
THEOREM ForgeInvariant == ForgeSpec => []ForgeInv
<1>1. ForgeInit => ForgeInv
  <2> SUFFICES ASSUME ForgeInit PROVE ForgeInv
    OBVIOUS
  <2>1. PICK p \in DOMAIN Program, s \in Seed : story = New(p, s)
    BY DEF ForgeInit
  <2>2. s \in 0 .. PrngStates - 1
    BY ForgeAssumption
  <2>3. VmOK(story)
    BY <2>1, <2>2, NewIs
  <2> QED BY <2>3 DEF ForgeInit, ForgeInv, SlotOK
<1>2. ForgeInv /\ [ForgeNext]_forgeVars => ForgeInv'
  <2> SUFFICES ASSUME ForgeInv, [ForgeNext]_forgeVars PROVE ForgeInv'
    OBVIOUS
  <2>1. VmOK(story) /\ SlotOK(slot) /\ (awaiting => story.suspended)
    BY DEF ForgeInv
  <2>2. SUFFICES VmOK(story') /\ SlotOK(slot') /\ (awaiting' => story'.suspended)
    BY DEF ForgeInv, VmOK, SlotOK
  <2>3. CASE ContinueStory
    <3>1. story' = Continue(story) /\ slot' = slot /\ ~awaiting /\ awaiting' = awaiting
      BY <2>3 DEF ContinueStory, CanContinue
    <3>2. VmOK(Continue(story))
      BY <2>1, ContinueIs
    <3> QED BY <2>1, <3>1, <3>2
  <2>4. CASE ContinueAsync
    <3>1. PICK u : u = [story EXCEPT !.steps = 0, !.thrown = ""]
      OBVIOUS
    <3>2. story' = RunUntilStop(u) /\ slot' = slot /\ (awaiting' => story'.suspended)
      BY <2>4, <3>1 DEF ContinueAsync, RunsAsync
    <3>3. VmOK(RunUntilStop(u))
      BY <2>1, <3>1, RestartIs, RunIs
    <3> QED BY <2>1, <3>2, <3>3
  <2>5. CASE StepInstruction
    <3>1. PICK u : u = [story EXCEPT !.steps = 0, !.thrown = ""]
      OBVIOUS
    <3>2. story' = Step(u) /\ slot' = slot /\ ~awaiting /\ awaiting' = awaiting
          /\ ~story.suspended /\ story.status = "running"
      BY <2>5, <3>1 DEF StepInstruction, CanContinue
    <3>3. VmOK(u)
      BY <2>1, <3>1, RestartIs
    <3>4. u.status = "running" /\ ~u.suspended
      BY <2>1, <3>1, <3>2 DEF VmOK, Sound, Shape, Fields, SavedFields
    <3>5. VmOK(Step(u))
      BY <3>3, <3>4, StepIs
    <3> QED BY <2>1, <3>2, <3>5
  <2>6. ASSUME NEW x \in {0, 1}, Resume(x)
        PROVE  VmOK(story') /\ SlotOK(slot') /\ (awaiting' => story'.suspended)
    <3>1. PICK u : u = Answered(story, x)
      OBVIOUS
    <3>2. awaiting /\ story' = RunUntilStop(u) /\ slot' = slot /\ (awaiting' => story'.suspended)
      BY <2>6, <3>1 DEF Resume, RunsAsync
    <3>3. VmOK(u)
      BY <2>1, <3>1, <3>2, AnsweredIs
    <3>4. VmOK(RunUntilStop(u))
      BY <3>3, RunIs
    <3> QED BY <2>1, <3>2, <3>4
  <2>7. ASSUME NEW i \in DOMAIN story.views, Choose(i)
        PROVE  VmOK(story') /\ SlotOK(slot') /\ (awaiting' => story'.suspended)
    <3>1. story.status = "choices" /\ story' = Chosen(story, i) /\ slot' = slot /\ awaiting' = awaiting
          /\ i \in DOMAIN story.views
      BY <2>7 DEF Choose
    <3>2. VmOK(Chosen(story, i))
      BY <2>1, <3>1, ChosenIs
    <3>3. Chosen(story, i).suspended = story.suspended
      <4>1. Shape(story)
        BY <2>1 DEF VmOK, Sound
      <4>2. Taken(story, i, Chosen(story, i))
        BY <3>1, <4>1, ChosenTaken
      <4> QED BY <4>2 DEF Taken, Alike, Fields, SavedFields
    <3> QED BY <2>1, <3>1, <3>2, <3>3
  <2>8. CASE Save
    <3>1. story.status # "running" /\ slot' = SaveState(story) /\ story' = story /\ awaiting' = awaiting
      BY <2>8 DEF Save
    <3>2. SlotOK(SaveState(story))
      BY <2>1, <3>1 DEF SlotOK
    <3> QED BY <2>1, <3>1, <3>2
  <2>9. CASE Restore
    <3>1. PICK u : u = [story EXCEPT !.thrown = ""]
      OBVIOUS
    <3>2. slot # Empty /\ story' = Restored(u, slot) /\ slot' = slot /\ ~awaiting /\ awaiting' = awaiting
      BY <2>9, <3>1 DEF Restore
    <3>3. Shape(story)
      BY <2>1 DEF VmOK, Sound
    <3>4. /\ Alike(story, u, {"thrown", "replayable", "steps"}) /\ u.steps = story.steps
          /\ u.program = story.program /\ u.seed = story.seed /\ u.evals = story.evals
          /\ u.suspended = story.suspended
      BY <3>1, <3>3 DEF Alike, Shape, Fields, SavedFields
    <3>5. Alike(story, u, {"thrown", "replayable", "steps"}) /\ u.steps \in Nat
      BY <2>1, <3>4 DEF VmOK, Sound
    <3>6. VmOK(u)
      BY <2>1, <3>5, VmAlike
    <3>7. Startable(u)
      BY <2>1, <3>4 DEF Startable, VmOK, Sound
    <3>8. VmOK(Restored(u, slot))
      BY <2>1, <3>2, <3>6, <3>7, RestoredIs
    <3> QED BY <2>1, <3>2, <3>8
  <2>10. ASSUME NEW p \in DOMAIN Program, Upgrade(p)
         PROVE  VmOK(story') /\ SlotOK(slot') /\ (awaiting' => story'.suspended)
    <3>1. PICK n, b : n = New(p, story.seed) /\ b = Bootstrap(n)
      OBVIOUS
    <3>2. /\ slot # Empty /\ Program[p].title = Program[slot.program].title
          /\ story' = MigratedInto(b, slot) /\ slot' = slot /\ ~awaiting /\ awaiting' = awaiting
      BY <2>10, <3>1 DEF Upgrade, Migrated
    <3>3. PICK m : VmOK(m) /\ m.status # "running" /\ slot = SaveState(m)
      BY <2>1, <3>2 DEF SlotOK
    <3>4. story.seed \in 0 .. PrngStates - 1
      BY <2>1 DEF VmOK, Sound
    <3>5. Startable(n) /\ n.program = p
      BY <3>1, <3>4, NewIs
    <3>6. VmOK(b) /\ AtEntry(n, b)
      BY <3>1, <3>5, BootstrapIs
    <3>7. slot.program = m.program
      BY <3>2, <3>3, SlotTitleIs
    <3>8. Program[m.program].title = Program[b.program].title
      BY <3>2, <3>5, <3>6, <3>7 DEF AtEntry
    <3>9. VmOK(MigratedInto(b, SaveState(m)))
      BY <3>3, <3>6, <3>8, MigratedIs
    <3> QED BY <2>1, <3>2, <3>3, <3>9
  <2>11. ASSUME NEW turns \in 0 .. MaxTurns, Rewind(turns)
         PROVE  VmOK(story') /\ SlotOK(slot') /\ (awaiting' => story'.suspended)
    <3>1. turns \in Nat
      BY ForgeAssumption
    <3>2. /\ story' = RewoundOr(story, Rewound(story, turns)) /\ slot' = slot
          /\ ~awaiting /\ awaiting' = awaiting
      BY <2>11 DEF Rewind
    <3>3. VmOK(RewoundOr(story, Rewound(story, turns)))
      BY <2>1, <3>1, RewoundIs
    <3> QED BY <2>1, <3>2, <3>3
  <2>12. CASE UNCHANGED forgeVars
    BY <2>1, <2>12 DEF forgeVars
  <2> QED
    BY <2>3, <2>4, <2>5, <2>6, <2>7, <2>8, <2>9, <2>10, <2>11, <2>12 DEF ForgeNext
<1> QED BY <1>1, <1>2, PTL DEF ForgeSpec

\* Whenever continue or step returns, choices are on view if and only if the status says
\* so, each is a pending one, nothing is left on the stack, in the line or in a frame of
\* an expression, and the end is outside every tunnel (vm.ts:591-624, :946-983).  Excepted
\* are a story that went astray, and for what is left one that was given the answer to a
\* call of before its restore, or whose bootstrap failed.
THEOREM StopsClean == ForgeSpec => []StopsAreClean
<1>1. ForgeInv => StopsAreClean
  <2> SUFFICES ASSUME ForgeInv PROVE StopsAreClean
    OBVIOUS
  <2>1. VmOK(story) /\ Sound(story) /\ story.evals = 0
    BY DEF ForgeInv, VmOK
  <2>2. story.status # "running" /\ story.intact =>
            story.stack = <<>> /\ story.lineBuf = <<>> /\ ~HasExpression(story)
    BY <2>1 DEF VmOK, Healthy, Wounded
  <2>3. \A i \in DOMAIN story.views : \E k \in DOMAIN story.pending :
            story.pending[k].body = story.views[i].body /\ ~story.pending[k].fallback
    BY <2>1 DEF Sound, ViewsOK
  <2> QED BY <2>1, <2>2, <2>3 DEF StopsAreClean, Sound
<1> QED BY <1>1, ForgeInvariant, PTL

\* No history holds a once-only choice twice, however the story is saved, restored, played
\* with another version and rewound (present, vm.ts:951).
THEOREM TakenAtMostOnce == ForgeSpec => []OnceOnlyIsTakenOnce
<1>1. ForgeInv => OnceOnlyIsTakenOnce
  BY DEF ForgeInv, VmOK, Memory, TakenOnce, Title, OnceOnlyIsTakenOnce
<1> QED BY <1>1, ForgeInvariant, PTL

\* A continue forgets the step count and the error of the call before it.
LEMMA ContinueSame ==
    ASSUME NEW v, NEW w, Shape(v), Alike(v, w, {"thrown", "steps"}), v.status = "running"
    PROVE  Continue(w) = Continue(v)
<1>1. Shape(w) /\ w.status = v.status
  BY DEF Alike, Fields, SavedFields
<1>2. [w EXCEPT !.steps = 0, !.thrown = ""] = [v EXCEPT !.steps = 0, !.thrown = ""]
  <2>1. PICK x, y : /\ x = [v EXCEPT !.steps = 0, !.thrown = ""]
                    /\ y = [w EXCEPT !.steps = 0, !.thrown = ""]
    OBVIOUS
  <2>2. x = [f \in Fields |-> x[f]] /\ y = [f \in Fields |-> y[f]]
    BY <1>1, <2>1 DEF Shape
  <2>3. ASSUME NEW f \in Fields PROVE x[f] = y[f]
    <3>1. CASE f \in {"steps", "thrown"}
      BY <1>1, <2>1, <3>1 DEF Shape, Fields
    <3>2. CASE f \notin {"steps", "thrown"}
      <4>1. w[f] = v[f]
        BY <3>2 DEF Alike
      <4>2. x[f] = v[f] /\ y[f] = w[f]
        BY <1>1, <2>1, <3>2 DEF Shape
      <4> QED BY <4>1, <4>2
    <3> QED BY <3>1, <3>2
  <2> QED BY <2>1, <2>2, <2>3
<1> QED BY <1>1, <1>2 DEF Continue

\* Two machines that differ in these fields only take a choice alike.
LEMMA ChosenSame ==
    ASSUME NEW v, NEW w, Shape(v), Alike(v, w, {"thrown", "steps"}), NEW i \in DOMAIN v.views
    PROVE  Continue(Chosen(w, i)) = Continue(Chosen(v, i))
<1>1. /\ Shape(w) /\ w.views = v.views /\ w.history = v.history /\ w.turn = v.turn
      /\ w.transcript = v.transcript /\ w.frames = v.frames
  BY DEF Alike, Fields, SavedFields
<1>2. PICK x, y : x = Chosen(v, i) /\ y = Chosen(w, i)
  OBVIOUS
<1>3. i \in DOMAIN w.views /\ Top(w) = Top(v)
  BY <1>1 DEF Top
<1>4. Taken(v, i, x)
  BY <1>2, ChosenTaken
<1>5. Taken(w, i, y)
  <2>1. Shape(w) /\ i \in DOMAIN w.views
    BY <1>1, <1>3
  <2>2. Taken(w, i, Chosen(w, i))
    BY <2>1, ChosenTaken
  <2> QED BY <1>2, <2>2
<1>6. Shape(x) /\ Shape(y)
  BY <1>4, <1>5 DEF Taken, Alike
<1>7. ASSUME NEW f \in Fields \ {"thrown", "steps"} PROVE y[f] = x[f]
  <2>1. CASE f \in {"history", "turn", "transcript", "pending", "views", "status", "frames"}
    BY <1>1, <1>3, <1>4, <1>5, <2>1 DEF Taken
  <2>2. CASE f \notin {"history", "turn", "transcript", "pending", "views", "status", "frames"}
    <3>1. f \in Fields \ {"history", "turn", "transcript", "pending", "views", "status", "thrown",
                          "frames"}
      BY <1>7, <2>2
    <3>2. x[f] = v[f] /\ y[f] = w[f]
      BY <1>4, <1>5, <3>1 DEF Taken, Alike
    <3>3. w[f] = v[f]
      BY <1>7 DEF Alike
    <3> QED BY <3>2, <3>3
  <2> QED BY <2>1, <2>2
<1>8. Alike(x, y, {"thrown", "steps"})
  BY <1>6, <1>7 DEF Alike
<1>9. Shape(x) /\ Alike(x, y, {"thrown", "steps"}) /\ x.status = "running"
  BY <1>4, <1>6, <1>8 DEF Taken
<1>10. Continue(y) = Continue(x)
  BY <1>9, ContinueSame
<1> QED BY <1>2, <1>10

\* A save that a new story loads, of another seed, plays on as the story it was taken of,
\* at any instruction outside of expressions and for each choice (saveState, loadState,
\* vm.ts:361-482).
THEOREM SavedStoriesPlayOn == ForgeSpec => []SavesAreComplete
<1>1. ForgeInv => SavesAreComplete
  <2> SUFFICES ASSUME ForgeInv, ~HasExpression(story), ~story.suspended, ~story.stale
               PROVE  PlayedOn(LoadState(New(story.program, PrngNext(story.seed)), SaveState(story)))
                          = PlayedOn(story)
    BY DEF SavesAreComplete
  <2>1. VmOK(story) /\ Sound(story) /\ Shape(story) /\ story.evals = 0
        /\ story.program \in DOMAIN Program /\ story.seed \in 0 .. PrngStates - 1
        /\ story.suspended = FALSE /\ story.stale = FALSE
    BY DEF ForgeInv, VmOK, Sound
  <2>2. PICK n, b, l : /\ n = New(story.program, PrngNext(story.seed)) /\ b = Bootstrap(n)
                       /\ l = Loaded(b, SaveState(story))
    OBVIOUS
  <2>3. PrngNext(story.seed) \in 0 .. PrngStates - 1
    BY <2>1, PrngRange
  <2>4. Startable(n) /\ ~Thrown(b) /\ n.suspended = FALSE
    BY <2>1, <2>2, <2>3, NewIs, InitializersAssumption
  <2>5. AtEntry(n, b)
    BY <2>2, <2>4, BootstrapIs
  <2>6. Alike(story, l, {"thrown", "steps"})
    <3>1. /\ Alike(story, l, {"thrown", "steps", "suspended", "stale"})
          /\ l.suspended = FALSE /\ l.stale = FALSE
      BY <2>1, <2>2, <2>4, <2>5, LoadedIs
    <3> QED BY <2>1, <3>1 DEF Alike
  <2>7. l.status = story.status /\ l.views = story.views
    BY <2>6 DEF Alike, Fields, SavedFields
  <2>8. story.status = "running" => Continue(l) = Continue(story)
    BY <2>1, <2>6, ContinueSame
  <2>9. \A i \in DOMAIN story.views : Continue(Chosen(l, i)) = Continue(Chosen(story, i))
    BY <2>1, <2>6, ChosenSame
  <2>10. PlayedOn(l) = PlayedOn(story)
    BY <2>7, <2>8, <2>9 DEF PlayedOn
  <2> QED BY <2>2, <2>10 DEF LoadState
<1> QED BY <1>1, ForgeInvariant, PTL

\* A restore gives the saved story back in full, unless the initializers of the story do
\* not fit into what the last continue has left of the step budget, which is the one way
\* to leave it half-restored (restoreSaveSlot, saves.ts:49-59; RestoredOrUntouched).
THEOREM RestoredInFull ==
    ForgeSpec => [][Restore /\ ~Thrown(Bootstrap([story EXCEPT !.thrown = ""]))
                        => SaveState(story') = slot]_forgeVars
<1>1. ForgeInv /\ [ForgeNext]_forgeVars =>
        [Restore /\ ~Thrown(Bootstrap([story EXCEPT !.thrown = ""])) => SaveState(story') = slot]_forgeVars
  <2> SUFFICES ASSUME ForgeInv, Restore, ~Thrown(Bootstrap([story EXCEPT !.thrown = ""]))
               PROVE  SaveState(story') = slot
    OBVIOUS
  <2>1. VmOK(story) /\ SlotOK(slot)
    BY DEF ForgeInv
  <2>2. PICK u : u = [story EXCEPT !.thrown = ""]
    OBVIOUS
  <2>3. slot # Empty /\ slot.program = story.program /\ story' = Restored(u, slot)
    BY <2>2 DEF Restore
  <2>4. PICK m : VmOK(m) /\ m.status # "running" /\ slot = SaveState(m)
    BY <2>1, <2>3 DEF SlotOK
  <2>5. Sound(m) /\ ~HasExpression(m) /\ m.evals = 0
    BY <2>4 DEF VmOK, Sound
  <2>6. slot = [f \in SavedFields |-> m[f]]
    BY <2>4, <2>5, SaveIs
  <2>7. slot.seed = m.seed /\ m.seed \in 0 .. PrngStates - 1
    BY <2>5, <2>6 DEF SavedFields, Sound
  <2>8. /\ story.program \in DOMAIN Program /\ u.program = story.program /\ Startable(u)
    <3>1. Shape(story)
      BY <2>1 DEF VmOK, Sound
    <3>2. /\ u.program = story.program /\ u.seed = story.seed /\ u.evals = story.evals
          /\ u.suspended = story.suspended /\ u.steps = story.steps
      BY <2>2, <3>1 DEF Shape, Fields, SavedFields
    <3> QED BY <2>1, <2>3, <3>2 DEF Startable, VmOK, Sound
  <2>9. PICK n, a, x : /\ n = New(u.program, slot.seed) /\ a = Bootstrap(n) /\ x = Loaded(a, slot)
    OBVIOUS
  <2>10. ~Thrown(x)
    <3>1. Startable(n) /\ ~Thrown(a)
      BY <2>7, <2>8, <2>9, NewIs, InitializersAssumption
    <3>2. AtEntry(n, a)
      BY <2>9, <3>1, BootstrapIs
    <3> QED BY <2>4, <2>5, <2>9, <3>1, <3>2, LoadedIs
  <2>11. PICK b, w : b = Bootstrap(u) /\ w = Loaded(b, slot)
    OBVIOUS
  <2>12. story' = w
    BY <2>3, <2>9, <2>10, <2>11 DEF Restored, RestoredIf, LoadState
  <2>13. AtEntry(u, b) /\ ~Thrown(b)
    BY <2>2, <2>8, <2>11, BootstrapIs
  <2>14. Alike(m, w, {"thrown", "steps", "suspended", "stale"})
    BY <2>4, <2>5, <2>11, <2>13, LoadedIs
  <2>15. /\ Sound(w) /\ ~HasExpression(w) /\ [f \in SavedFields |-> w[f]] = [f \in SavedFields |-> m[f]]
    <3>1. \A f \in SavedFields : w[f] = m[f]
      BY <2>14 DEF Alike, Fields, SavedFields
    <3>2. VmOK(w)
      BY <2>4, <2>11, <2>13, LoadedOK
    <3>3. w.frames = m.frames
      BY <3>1 DEF SavedFields
    <3> QED BY <2>5, <3>1, <3>2, <3>3 DEF VmOK, HasExpression
  <2>16. SaveState(w) = slot
    BY <2>6, <2>15, SaveIs
  <2> QED BY <2>12, <2>16
<1> QED BY <1>1, ForgeInvariant, PTL DEF ForgeSpec
=============================================================================
