------------------------------- MODULE ForgeVM -------------------------------
(***************************************************************************)
(* The virtual machine that plays a story (packages/forge-vm: vm.ts,       *)
(* saves.ts, prng.ts) and a host that continues it, steps it, takes its    *)
(* choices, saves it, restores and migrates saves, and rewinds it.         *)
(*                                                                         *)
(* A program is a constant as ForgeLower lowers it: containers of          *)
(* instructions.  Values are integers, 0 is false; a text is a token.      *)
(* Left out: strings, lists, diverts as values, entities, notes, effects   *)
(* and functions that answer at once, tags, glue, observers and the audit  *)
(* log.  A call of the host happens between two instructions, never in     *)
(* one, and none happens while continueAsync awaits a function.  A story   *)
(* that goes astray (Strays) is followed no further.                       *)
(***************************************************************************)
EXTENDS Integers, Sequences, FiniteSets, SequencesExt, TLC

CONSTANTS
    Program,     \* the compiled stories, by fingerprint: title, version, entry, the
                 \* globals (in order, each with its initializer), the code of
                 \* each container and the tokens of the shuffle in it
    Seed,        \* the seeds of a run
    PrngStates,  \* the period of the generator, 2^32 in the code
    MaxSteps,    \* the step budget of a continue
    MaxDepth,    \* maxCallDepth
    MaxTurns,    \* bound: choices taken in a run
    MaxVisits    \* bound: a story that visited a container so often is left

ASSUME ForgeAssumption ==
    /\ Seed \subseteq 0 .. PrngStates - 1
    /\ {PrngStates, MaxSteps, MaxDepth, MaxVisits} \subseteq Nat \ {0} /\ MaxTurns \in Nat

-----------------------------------------------------------------------------
(* What lowering and validateIr make sure of in a compiled story: the part *)
(* of it that the machine relies on.                                       *)

Pushing == {"push", "load", "load_temp", "visits", "turns", "random", "call"}
Taking == {"pop", "store", "store_temp", "print", "jump_if_false"}
Joining == {"add", "less", "and"}
Moving == {"divert", "tunnel", "tunnel_return", "present", "end"}
Ops == Pushing \cup Taking \cup Joining \cup Moving
       \cup {"jump", "alt", "ret", "text", "newline", "visit", "choice"}

\* The values on the stack before instruction k, counted along the code.
Height(code, k) ==
    Cardinality({j \in 1 .. k - 1 : code[j].op \in Pushing})
    - Cardinality({j \in 1 .. k - 1 : code[j].op \in Taking \cup Joining})

\* No instruction takes more than there is; the flow moves with nothing on the
\* stack; two ways to an instruction agree.
Balanced(code) ==
    \A k \in DOMAIN code :
        LET i == code[k]
            Join(to) == to \in 1 .. Len(code) + 1 /\ Height(code, to) = Height(code, k + 1)
        IN /\ i.op \in Taking => Height(code, k) >= 1
           /\ i.op \in Joining => Height(code, k) >= 2
           /\ i.op \in Moving => Height(code, k) = 0
           /\ Height(code, k) >= 0
           /\ i.op \in {"jump", "jump_if_false"} => Join(i.to)
           /\ i.op = "alt" => \A b \in DOMAIN i.branches : Join(i.branches[b])

\* The choices that a story registers.
ChoicesOf(p) ==
    UNION {{Program[p].code[c][k].choice :
               k \in {k \in DOMAIN Program[p].code[c] : Program[p].code[c][k].op = "choice"}} :
           c \in DOMAIN Program[p].code}

\* The containers of expressions: initializers, conditions and texts of choices.
Expressions(p) ==
    {Program[p].globals[k].init : k \in DOMAIN Program[p].globals}
    \cup {i.text : i \in ChoicesOf(p)} \cup ({i.cond : i \in ChoicesOf(p)} \ {""})

IsSequence(s) == Len(s) \in Nat /\ DOMAIN s = 1 .. Len(s)

\* An instruction in its place in the code of story p.
WellPlaced(p, c, k) ==
    LET code == Program[p].code
        i == code[c][k]
    IN /\ i.op \in Ops
       /\ i.op \in {"divert", "tunnel"} => i.to \in DOMAIN code
       /\ i.op = "present" => k = Len(code[c])
       /\ i.op = "alt" => /\ i.flavor \in {"cycle", "sequence", "shuffle"}
                          /\ IsSequence(i.branches) /\ Len(i.branches) > 0
       /\ i.op = "choice" =>
              /\ {i.choice.body, i.choice.text} \cup ({i.choice.cond} \ {""}) \subseteq DOMAIN code
              /\ {i.choice.sticky, i.choice.fallback} \subseteq BOOLEAN
              /\ Len(code[i.choice.body]) > 0
              /\ code[i.choice.body][1] = [op |-> "visit", of |-> i.choice.body]

\* Alternatives are known by their ids.
OneAlternative(p) ==
    LET code == Program[p].code
    IN \A c, d \in DOMAIN code : \A j \in DOMAIN code[c], k \in DOMAIN code[d] :
           code[c][j].op = "alt" /\ code[d][k].op = "alt" /\ code[c][j].id = code[d][k].id
           => Len(code[c][j].branches) = Len(code[d][k].branches)

\* An expression itself offers no choices.  (What it tunnels to may: see Strays.)
OnlyEvaluates(p) ==
    /\ Expressions(p) \subseteq DOMAIN Program[p].code
    /\ \A c \in Expressions(p) : \A k \in DOMAIN Program[p].code[c] :
           Program[p].code[c][k].op \notin {"choice", "present"}

WellFormed(p) ==
    /\ Program[p].entry \in DOMAIN Program[p].code
    /\ IsSequence(Program[p].globals)
    /\ \A c \in DOMAIN Program[p].code :
           /\ IsSequence(Program[p].code[c]) /\ Balanced(Program[p].code[c])
           /\ \A k \in DOMAIN Program[p].code[c] : WellPlaced(p, c, k)
    /\ OneAlternative(p) /\ OnlyEvaluates(p)

ASSUME ProgramAssumption == \A p \in DOMAIN Program : WellFormed(p)

VARIABLES
    story,    \* the Story object of the host
    slot,     \* a saved state, or Empty
    awaiting  \* continueAsync is at its await

forgeVars == <<story, slot, awaiting>>

-----------------------------------------------------------------------------
Code(vm, c) == Program[vm.program].code[c]
Top(vm) == vm.frames[Len(vm.frames)]
WithTop(vm, f) == [vm EXCEPT !.frames[Len(vm.frames)] = f]
Frame(c, kind) == [at |-> c, ip |-> 1, kind |-> kind, temp |-> 0]

Throw(vm, message) == [vm EXCEPT !.thrown = message, !.replayable = FALSE]
Thrown(vm) == vm.thrown # ""

Push(vm, v) == [vm EXCEPT !.stack = Append(@, v)]
Popped(vm) == [vm EXCEPT !.stack = Front(@)]
Truth(b) == IF b THEN 1 ELSE 0

\* The generator: its state advances by one; what it yields is some function of
\* the state.
PrngNext(s) == (s + 1) % PrngStates
PrngInt(s, n) == (s * s + (s \div 2)) % n

\* Fisher-Yates over 1..n: one draw for each place from the last to the second.
Permutation(s, n) ==
    LET shuffled[k \in 0 .. n - 1] ==
          IF k = 0 THEN [prng |-> s, order |-> [x \in 1 .. n |-> x]]
          ELSE LET i == n + 1 - k
                   p == PrngNext(shuffled[k - 1].prng)
                   j == 1 + PrngInt(p, i)
                   o == shuffled[k - 1].order
               IN [prng |-> p,
                   order |-> [x \in 1 .. n |-> IF x = i THEN o[j] ELSE IF x = j THEN o[i] ELSE o[x]]]
    IN shuffled[n - 1]

\* ALT: the branch that is taken, and the alternative's new count and deck.
Counted(vm, id, alt, deck) ==
    [vm EXCEPT !.alts = [d \in DOMAIN @ \cup {id} |->
        IF d = id THEN [count |-> alt.count + 1, deck |-> deck] ELSE @[d]]]

Drawn(vm, id, alt, deck) == [vm |-> Counted(vm, id, alt, Tail(deck)), branch |-> Head(deck)]

Dealt(vm, id, alt, fresh) == Drawn([vm EXCEPT !.prng = fresh.prng], id, alt, fresh.order)

AlternativeOf(vm, id, flavor, n, alt) ==
    CASE flavor = "cycle" ->
            [vm |-> Counted(vm, id, alt, alt.deck), branch |-> 1 + (alt.count % n)]
      [] flavor = "sequence" ->
            [vm |-> Counted(vm, id, alt, alt.deck),
             branch |-> IF alt.count < n THEN alt.count + 1 ELSE n]
      [] flavor = "shuffle" ->
            IF alt.deck = <<>> THEN Dealt(vm, id, alt, Permutation(vm.prng, n))
            ELSE Drawn(vm, id, alt, alt.deck)

Alternative(vm, id, flavor, n) ==
    AlternativeOf(vm, id, flavor, n,
                  IF id \in DOMAIN vm.alts THEN vm.alts[id] ELSE [count |-> 0, deck |-> <<>>])

\* flushPartialLine
Flush(vm) ==
    [vm EXCEPT !.lineBuf = <<>>,
               !.transcript = IF vm.lineBuf = <<>> THEN @
                              ELSE Append(@, [kind |-> "text", text |-> vm.lineBuf])]

\* The frame whose temporaries an instruction sees: an expression has none.
TempFrame(vm) == CHOOSE k \in DOMAIN vm.frames :
    /\ vm.frames[k].kind # "eval"
    /\ \A j \in k + 1 .. Len(vm.frames) : vm.frames[j].kind = "eval"

\* The frames of these kinds.
FramesOf(frames, kinds) ==
    LET kept[k \in 0 .. Len(frames)] ==
          IF k = 0 THEN <<>>
          ELSE IF frames[k].kind \in kinds THEN Append(kept[k - 1], frames[k]) ELSE kept[k - 1]
    IN kept[Len(frames)]

Unwound(vm) == [vm EXCEPT !.frames = FramesOf(@, {"flow"})]

-----------------------------------------------------------------------------
\* The instructions on values.
ExecuteValue(vm, i) ==
    LET n == Len(vm.stack)
    IN CASE i.op = "push" -> Push(vm, i.value)
         [] i.op = "load" -> Push(vm, vm.globals[i.name])
         [] i.op = "load_temp" -> Push(vm, vm.frames[TempFrame(vm)].temp)
         [] i.op = "visits" -> Push(vm, vm.visits[i.of])
         [] i.op = "turns" -> Push(vm, vm.turn)
         [] i.op = "random" -> Push([vm EXCEPT !.prng = PrngNext(@)],
                                    PrngInt(PrngNext(vm.prng), i.n))
         [] i.op = "pop" -> IF n = 0 THEN vm ELSE Popped(vm)
         [] i.op \in {"store", "store_temp", "print"} /\ n = 0 -> Throw(vm, "stack underflow")
         [] i.op = "store" /\ n > 0 -> [Popped(vm) EXCEPT !.globals[i.name] = Last(vm.stack)]
         [] i.op = "store_temp" /\ n > 0 ->
                [Popped(vm) EXCEPT !.frames[TempFrame(vm)].temp = Last(vm.stack)]
         [] i.op = "print" /\ n > 0 -> [Popped(vm) EXCEPT !.lineBuf = Append(@, ToString(Last(vm.stack)))]
         [] i.op \in {"add", "less", "and"} ->
                IF n < 2 THEN Throw([vm EXCEPT !.stack = <<>>], "stack underflow")
                ELSE Push(Popped(Popped(vm)),
                          CASE i.op = "add" -> vm.stack[n - 1] + vm.stack[n]
                            [] i.op = "less" -> Truth(vm.stack[n - 1] < vm.stack[n])
                            [] i.op = "and" -> Truth(vm.stack[n - 1] # 0 /\ vm.stack[n] # 0))

Branched(branches, alt) ==
    WithTop(alt.vm, [Top(alt.vm) EXCEPT !.ip = branches[alt.branch]])

\* The instructions that move the flow; a throw after the unwinding test only.
ExecuteFlow(vm, i) ==
    LET top == Top(vm)
        tunnels == Cardinality({k \in DOMAIN vm.frames : vm.frames[k].kind = "tunnel"})
    IN CASE i.op = "jump" -> WithTop(vm, [top EXCEPT !.ip = i.to])
         [] i.op = "jump_if_false" ->
                IF vm.stack = <<>> THEN Throw(vm, "stack underflow")
                ELSE IF Last(vm.stack) = 0 THEN WithTop(Popped(vm), [top EXCEPT !.ip = i.to])
                ELSE Popped(vm)
         [] i.op = "alt" -> Branched(i.branches, Alternative(vm, i.id, i.flavor, Len(i.branches)))
         [] i.op = "divert" ->
                IF top.kind = "eval" THEN Throw(vm, "divert in an expression")
                ELSE WithTop(vm, [top EXCEPT !.at = i.to, !.ip = 1])
         [] i.op = "tunnel" ->
                IF tunnels + 1 >= MaxDepth THEN Throw(vm, "tunnel overflow")
                ELSE [vm EXCEPT !.frames = Append(@, Frame(i.to, "tunnel"))]
         [] i.op = "tunnel_return" ->
                IF top.kind # "tunnel" THEN Throw(vm, "return outside a tunnel")
                ELSE [vm EXCEPT !.frames = Front(@)]
         [] i.op = "ret" ->
                IF top.kind # "eval" THEN Throw(vm, "RET outside an expression")
                ELSE [vm EXCEPT !.frames = Front(@)]
         [] i.op = "end" ->
                IF top.kind = "eval" THEN Throw(vm, "end in an expression")
                ELSE [Flush(Unwound(vm)) EXCEPT !.status = "done"]

\* Counters, output, pending choices and the host; present is apart.
Execute(vm, i) ==
    CASE i.op = "text" -> [vm EXCEPT !.lineBuf = Append(@, i.text)]
      [] i.op = "newline" -> Flush(vm)
      [] i.op = "visit" -> [vm EXCEPT !.visits[i.of] = @ + 1]
      [] i.op = "choice" -> [vm EXCEPT !.pending = Append(@, i.choice)]
      [] i.op = "call" -> IF vm.evals > 0 THEN Throw(vm, "async call in an expression")
                          ELSE [vm EXCEPT !.suspended = TRUE, !.stale = FALSE]
      [] i.op \in {"push", "load", "load_temp", "visits", "turns", "random", "pop", "store",
                   "store_temp", "print", "add", "less", "and"} -> ExecuteValue(vm, i)
      [] OTHER -> ExecuteFlow(vm, i)

\* The instruction at the top frame, fetched and counted.
Instruction(vm) == Code(vm, Top(vm).at)[Top(vm).ip]
Fetched(vm) == [WithTop(vm, [Top(vm) EXCEPT !.ip = @ + 1]) EXCEPT !.steps = @ + 1]
RanOff(vm) == Top(vm).ip > Len(Code(vm, Top(vm).at))

Spent(vm) == vm.steps >= MaxSteps

HasExpression(vm) == \E k \in DOMAIN vm.frames : vm.frames[k].kind = "eval"

\* In a tunnel that an expression took, the story is about to offer choices or to end.
\* The compiler allows it in the text of a choice, and the machine goes on: it offers
\* the choices again that it is offering, or ends in the middle of its offer.
Strays(vm) ==
    /\ Instruction(vm).op \in {"choice", "present", "end"}
    /\ Top(vm).kind = "tunnel" /\ HasExpression(vm)

Astray(vm) == Throw([vm EXCEPT !.astray = TRUE], "astray")

\* A loop of the machine makes at most one turn more than its budget has steps; its
\* turns are taken four at a time, for the sake of TLC's stack.
Rounds == MaxSteps \div 4 + 1

\* The loop of evalContainer, until its frame is gone.
EvalTurn(vm, base) ==
    CASE Thrown(vm) \/ Len(vm.frames) <= base -> vm
      [] ~Thrown(vm) /\ Len(vm.frames) > base /\ Spent(vm) -> Throw(vm, "step budget")
      [] ~Thrown(vm) /\ Len(vm.frames) > base /\ ~Spent(vm) /\ RanOff(vm) ->
             Throw([vm EXCEPT !.steps = @ + 1], "ran off the end")
      [] OTHER -> IF Strays(vm) THEN Astray(Fetched(vm)) ELSE Execute(Fetched(vm), Instruction(vm))

EvalTurns(vm, base) ==
    LET after[k \in 0 .. 4] == IF k = 0 THEN vm ELSE EvalTurn(after[k - 1], base)
    IN IF Thrown(vm) \/ Len(vm.frames) <= base THEN vm ELSE after[4]

EvalLoop(vm, base) ==
    LET after[k \in 0 .. Rounds] == IF k = 0 THEN vm ELSE EvalTurns(after[k - 1], base)
    IN after[Rounds]

\* What an expression yields is on top of the stack it found; a throw leaves the
\* frames and the stack as they are.
Yielded(vm, r) ==
    IF Thrown(r) THEN [vm |-> [r EXCEPT !.evals = @ - 1], value |-> 0]
    ELSE [vm |-> [r EXCEPT !.evals = @ - 1, !.stack = vm.stack],
          value |-> IF Len(r.stack) > Len(vm.stack) THEN Last(r.stack) ELSE 0]

\* evalContainer
Eval(vm, c) ==
    Yielded(vm, EvalLoop([vm EXCEPT !.frames = Append(@, Frame(c, "eval")), !.evals = @ + 1],
                         Len(vm.frames)))

\* Mutant of Once: a choice goes away after its second visit.
OnceLate(vm, p) == p.sticky \/ vm.visits[p.body] < 2

\* The once-only check of present.
Once(vm, p) == p.sticky \/ vm.visits[p.body] = 0

\* evalTextContainer captures the output, also when it throws; the text of the choice
\* is the lines that were flushed meanwhile, and the last one.
LinesSince(vm, shown) ==
    LET n == Len(vm.transcript)
    IN FlattenSeq([k \in 1 .. Len(shown.transcript) - n |-> shown.transcript[n + k].text])

Shown(r, p, vm, shown) ==
    [r EXCEPT !.vm = [shown EXCEPT !.lineBuf = vm.lineBuf],
              !.visible = Append(@, [text |-> LinesSince(vm, shown) \o shown.lineBuf,
                                     sticky |-> p.sticky, body |-> p.body])]

\* A pending choice whose condition was evaluated is passed over, kept as a
\* fallback, or made visible.
OfferedIf(r, p, cond) ==
    IF Thrown(cond.vm) \/ cond.value = 0 THEN [r EXCEPT !.vm = cond.vm]
    ELSE IF p.fallback THEN [r EXCEPT !.vm = cond.vm, !.fallbacks = Append(@, p.body)]
    ELSE Shown(r, p, cond.vm, Eval([cond.vm EXCEPT !.lineBuf = <<>>], p.text).vm)

Offered(r, p) ==
    IF Thrown(r.vm) \/ ~Once(r.vm, p) THEN r
    ELSE OfferedIf(r, p, IF p.cond = "" THEN [vm |-> r.vm, value |-> 1] ELSE Eval(r.vm, p.cond))

\* Mutant of Presented: the line under way is not flushed.
PresentedUnflushed(r) ==
    CASE ~Thrown(r.vm) /\ r.visible # <<>> -> [r.vm EXCEPT !.views = r.visible, !.status = "choices"]
      [] ~Thrown(r.vm) /\ r.visible = <<>> /\ r.fallbacks # <<>> ->
             WithTop([r.vm EXCEPT !.pending = <<>>],
                     [Top(r.vm) EXCEPT !.at = Head(r.fallbacks), !.ip = 1])
      [] OTHER -> Throw(r.vm, "ran out of content")

\* The end of present: the visible choices, else the first fallback.
Presented(r) ==
    CASE Thrown(r.vm) -> r.vm
      [] ~Thrown(r.vm) /\ r.visible # <<>> ->
             [Flush(r.vm) EXCEPT !.views = r.visible, !.status = "choices"]
      [] ~Thrown(r.vm) /\ r.visible = <<>> /\ r.fallbacks # <<>> ->
             WithTop([r.vm EXCEPT !.pending = <<>>],
                     [Top(r.vm) EXCEPT !.at = Head(r.fallbacks), !.ip = 1])
      [] OTHER -> Throw(r.vm, "ran out of content")

Offers(vm) ==
    LET after[k \in 0 .. Len(vm.pending)] ==
          IF k = 0 THEN [vm |-> vm, visible |-> <<>>, fallbacks |-> <<>>]
          ELSE Offered(after[k - 1], vm.pending[k])
    IN after[Len(vm.pending)]

Present(vm) == Presented(Offers(vm))

\* step: one instruction of the top frame.
Step(vm) ==
    CASE vm.frames = <<>> -> [vm EXCEPT !.steps = @ + 1, !.status = "done"]
      [] vm.frames # <<>> /\ RanOff(vm) -> Throw([vm EXCEPT !.steps = @ + 1], "ran off the end")
      [] OTHER -> IF Strays(vm) THEN Astray(Fetched(vm))
                  ELSE IF Instruction(vm).op = "present" THEN Present(Fetched(vm))
                  ELSE Execute(Fetched(vm), Instruction(vm))

\* The loop of runUntilStop.
AtRest(vm) == vm.status # "running" \/ vm.suspended \/ Thrown(vm)

Turn(vm) ==
    CASE AtRest(vm) -> vm
      [] ~AtRest(vm) /\ Spent(vm) -> Throw(vm, "step budget")
      [] OTHER -> Step(vm)

Turns(vm) ==
    LET after[k \in 0 .. 4] == IF k = 0 THEN vm ELSE Turn(after[k - 1])
    IN IF AtRest(vm) THEN vm ELSE after[4]

RunUntilStop(vm) ==
    LET after[k \in 0 .. Rounds] == IF k = 0 THEN vm ELSE Turns(after[k - 1])
    IN after[Rounds]

-----------------------------------------------------------------------------
\* A Story object before its first bootstrap.  Four fields are auxiliary: whether
\* its history alone determines it; whether its last bootstrap ended, and it was given
\* no answer to a call of before; whether its call is one of before; whether it strayed.
Blank(p, s) ==
    [program |-> p, seed |-> s, prng |-> s, globals |-> <<>>, visits |-> <<>>, alts |-> <<>>,
     turn |-> 0, history |-> <<>>, transcript |-> <<>>, frames |-> <<>>, stack |-> <<>>,
     pending |-> <<>>, views |-> <<>>, status |-> "running", lineBuf |-> <<>>, steps |-> 0,
     evals |-> 0, suspended |-> FALSE, thrown |-> "", replayable |-> TRUE,
     intact |-> TRUE, stale |-> FALSE, astray |-> FALSE]

InitializedOne(name, r) ==
    IF Thrown(r.vm) THEN r.vm ELSE [r.vm EXCEPT !.globals[name] = r.value]

Initialized(vm, globals) ==
    LET after[k \in 0 .. Len(globals)] ==
          IF k = 0 THEN vm
          ELSE IF Thrown(after[k - 1]) THEN after[k - 1]
          ELSE InitializedOne(globals[k].name, Eval(after[k - 1], globals[k].init))
    IN after[Len(globals)]

Sealed(vm) == [vm EXCEPT !.intact = ~Thrown(vm)]

\* bootstrap: the step counter and a suspended call are not reset.
Bootstrap(vm) ==
    LET p == Program[vm.program]
    IN Sealed(Initialized(
           [Blank(vm.program, vm.seed) EXCEPT
               !.globals = [g \in {p.globals[k].name : k \in DOMAIN p.globals} |-> 0],
               !.visits = [c \in DOMAIN p.code |-> 0],
               !.frames = <<Frame(p.entry, "flow")>>,
               !.steps = vm.steps, !.evals = vm.evals,
               !.suspended = vm.suspended, !.stale = vm.suspended],
           p.globals))

New(p, s) == Bootstrap(Blank(p, s))

\* The constructor of Story throws if an initializer does, so that there is no
\* such story; the budget of a continue is enough to initialize a story twice.
ASSUME InitializersAssumption ==
    \A p \in DOMAIN Program, s \in 0 .. PrngStates - 1 :
        ~Thrown(New(p, s)) /\ ~Thrown(Bootstrap(New(p, s)))

Refused(vm) ==
    IF vm.suspended /\ ~Thrown(vm)
    THEN Throw([vm EXCEPT !.suspended = FALSE, !.stale = FALSE], "async function in continue")
    ELSE vm

\* continue, which refuses a story that calls an async function, or that was stepped
\* onto one, and forgets the call.
Continue(vm) ==
    IF vm.status = "running" THEN Refused(RunUntilStop([vm EXCEPT !.steps = 0, !.thrown = ""]))
    ELSE Throw(vm, "cannot continue")

\* choose
Chosen(vm, i) ==
    IF i \notin DOMAIN vm.views THEN Throw(vm, "no such choice")
    ELSE WithTop([vm EXCEPT !.history = Append(@, [turn |-> vm.turn, index |-> i,
                                                   body |-> vm.views[i].body]),
                            !.turn = @ + 1,
                            !.transcript = Append(@, [kind |-> "choice", text |-> vm.views[i].text]),
                            !.pending = <<>>, !.views = <<>>, !.status = "running",
                            !.thrown = ""],
                 [Top(vm) EXCEPT !.at = vm.views[i].body, !.ip = 1])

SavedFields == {"program", "seed", "prng", "globals", "visits", "alts", "turn", "history",
                "transcript", "frames", "stack", "pending", "views", "status", "lineBuf",
                "replayable", "intact", "astray"}

\* Mutants of SaveState: without the decks; without the frames' temporaries.
SaveStateDeckless(vm) ==
    [[f \in SavedFields |-> vm[f]] EXCEPT
        !["alts"] = [id \in DOMAIN vm.alts |-> [vm.alts[id] EXCEPT !.deck = <<>>]]]
SaveStateTempless(vm) ==
    [[f \in SavedFields |-> vm[f]] EXCEPT
        !["frames"] = [k \in DOMAIN vm.frames |-> [vm.frames[k] EXCEPT !.temp = 0]]]

\* saveState: frames of expressions are not saved.
SaveState(vm) ==
    [[f \in SavedFields |-> vm[f]] EXCEPT
        !["frames"] = FramesOf(vm.frames, {"flow", "tunnel"})]

\* loadState of a save of the same program, into a story that was bootstrapped
\* again; an initializer that throws leaves it at that.
Loaded(b, s) ==
    IF Thrown(b) THEN b
    ELSE IF s.frames = <<>> THEN Throw(b, "no flow frames")
    ELSE [f \in DOMAIN b |-> IF f \in SavedFields THEN s[f] ELSE b[f]]
LoadState(vm, s) == Loaded(Bootstrap(vm), s)

\* restoreSaveSlot: first into a scratch story.
RestoredIf(vm, s, probe) == IF Thrown(probe) THEN Throw(vm, probe.thrown) ELSE LoadState(vm, s)
Restored(vm, s) == RestoredIf(vm, s, LoadState(New(vm.program, s.seed), s))

\* migrateState: what another version of the program saved is kept by name,
\* and the flow starts again.
MigratedInto(b, s) ==
    IF Thrown(b) THEN b
    ELSE [b EXCEPT !.seed = s.seed, !.prng = s.prng, !.turn = s.turn,
                   !.history = s.history, !.transcript = s.transcript,
                   !.globals = [g \in DOMAIN @ |-> IF g \in DOMAIN s.globals THEN s.globals[g] ELSE @[g]],
                   !.visits = [c \in DOMAIN @ |-> IF c \in DOMAIN s.visits THEN s.visits[c] ELSE @[c]],
                   !.replayable = FALSE]
Migrated(vm, s) == MigratedInto(Bootstrap(vm), s)

\* replayStory: choices are taken as long as there is a choice to take.
TakenOn(vm) == IF Thrown(vm) THEN vm ELSE Continue(vm)
ReplayStep(v, index) == IF Thrown(v) \/ v.status # "choices" THEN v ELSE TakenOn(Chosen(v, index))

Replayed(vm, choices) ==
    LET after[k \in 0 .. Len(choices)] ==
          IF k = 0 THEN vm ELSE ReplayStep(after[k - 1], choices[k])
    IN after[Len(choices)]

ReplayStory(p, s, choices) == Replayed(Continue(New(p, s)), choices)

\* rewindStory: the first turns of the history, played again.
Rewound(vm, turns) ==
    ReplayStory(vm.program, vm.seed, [k \in 1 .. turns |-> vm.history[k].index])

-----------------------------------------------------------------------------
Empty == [program |-> ""]

ForgeInit ==
    /\ \E p \in DOMAIN Program, s \in Seed : story = New(p, s)
    /\ slot = Empty /\ awaiting = FALSE

CanContinue ==
    /\ ~awaiting /\ story.status = "running" /\ ~story.astray
    /\ \A c \in DOMAIN story.visits : story.visits[c] < MaxVisits

ContinueStory ==
    /\ CanContinue
    /\ story' = Continue(story)
    /\ UNCHANGED <<slot, awaiting>>

\* continueAsync, up to its end or to the function that it awaits.
RunsAsync(vm) ==
    /\ story' = RunUntilStop(vm)
    /\ awaiting' = (story'.suspended /\ ~Thrown(story'))
    /\ UNCHANGED slot

\* A call that the story was stepped onto is awaited at once.
ContinueAsync == CanContinue /\ RunsAsync([story EXCEPT !.steps = 0, !.thrown = ""])

\* The value that a function answered.
Answered(vm, v) ==
    [Push(vm, v) EXCEPT !.suspended = FALSE, !.stale = FALSE, !.replayable = FALSE,
                        !.intact = @ /\ ~vm.stale]

\* The awaited function answers, and continueAsync goes on.
Resume(v) == awaiting /\ RunsAsync(Answered(story, v))

\* stepInstruction of the debugger, which does nothing at a call.
StepInstruction ==
    /\ CanContinue /\ ~story.suspended
    /\ story' = Step([story EXCEPT !.steps = 0, !.thrown = ""])
    /\ UNCHANGED <<slot, awaiting>>

Choose(i) ==
    /\ story.status = "choices" /\ i \in DOMAIN story.views /\ story.turn < MaxTurns
    /\ story' = Chosen(story, i)
    /\ UNCHANGED <<slot, awaiting>>

\* Hosts save at stops, the player and the server alike; SavesAreComplete looks
\* at the save of every state.
Save ==
    /\ story.status # "running" /\ slot' = SaveState(story)
    /\ UNCHANGED <<story, awaiting>>

Restore ==
    /\ ~awaiting /\ slot # Empty /\ slot.program = story.program
    /\ story' = Restored([story EXCEPT !.thrown = ""], slot)
    /\ UNCHANGED <<slot, awaiting>>

\* The story is played with a later version of the program.
Upgrade(p) ==
    /\ ~awaiting /\ slot # Empty /\ Program[slot.program].version < Program[p].version
    /\ Program[p].title = Program[slot.program].title
    /\ story' = Migrated(New(p, story.seed), slot)
    /\ UNCHANGED <<slot, awaiting>>

\* A rewind that throws leaves the story.
RewoundOr(vm, r) == IF Thrown(r) /\ ~r.astray THEN Throw(vm, r.thrown) ELSE r

Rewind(turns) ==
    /\ ~awaiting /\ turns <= Len(story.history)
    /\ story' = RewoundOr(story, Rewound(story, turns))
    /\ UNCHANGED <<slot, awaiting>>

ForgeNext ==
    \/ ContinueStory \/ ContinueAsync \/ StepInstruction
    \/ \E v \in {0, 1} : Resume(v)
    \/ \E i \in DOMAIN story.views : Choose(i)
    \/ Save \/ Restore
    \/ \E p \in DOMAIN Program : Upgrade(p)
    \/ \E turns \in 0 .. MaxTurns : Rewind(turns)

ForgeSpec == ForgeInit /\ [][ForgeNext]_forgeVars

-----------------------------------------------------------------------------
\* What a player sees of a story that plays on to its next stop, for each choice
\* where there is one to take.
PlayedOn(vm) ==
    LET Seen(v) == [state |-> SaveState(v), thrown |-> v.thrown]
    IN IF vm.status = "running" THEN <<Seen(Continue(vm))>>
       ELSE [i \in DOMAIN vm.views |-> Seen(Continue(Chosen(vm, i)))]

\* The type of the state, and what a host may rely on when it is called back:
\* choices are offered from the pending ones, with nothing left on the stack or
\* in the line; nothing but choices has views; the end is outside every tunnel.
\* Nothing is said of a story that went astray (Strays).  What is left on the stack
\* excepts a story whose bootstrap failed (RestoredOrUntouched) and one that was given
\* the answer to a call of before its last restore, which the code puts on the stack.
StopsAreClean ==
    ~story.astray =>
        /\ story.status \in {"running", "choices", "done"}
        /\ story.evals = 0 /\ story.turn = Len(story.history)
        /\ (story.views # <<>>) = (story.status = "choices")
        /\ story.status # "running" /\ story.intact =>
            story.stack = <<>> /\ story.lineBuf = <<>> /\ ~HasExpression(story)
        /\ \A i \in DOMAIN story.views : \E k \in DOMAIN story.pending :
                story.pending[k].body = story.views[i].body /\ ~story.pending[k].fallback
        /\ story.status = "done" => \A k \in DOMAIN story.frames : story.frames[k].kind = "flow"

\* "The whole runtime state of a story is a plain JSON-able object" (state.ts:3):
\* at any instruction that is not in an expression, a save that is loaded into a
\* new story, of another seed, plays on like the one that was saved, whichever
\* choice is taken.
SavesAreComplete ==
    ~HasExpression(story) /\ ~story.suspended /\ ~story.stale =>
        PlayedOn(LoadState(New(story.program, PrngNext(story.seed)), SaveState(story)))
            = PlayedOn(story)

\* "Same program, same seed, same choice indexes" (saves.ts:78): a run in which
\* the host set nothing, answered nothing and migrated nothing, and that threw
\* nothing, is at every stop what its replay gives, however often it was saved,
\* restored, stepped and rewound on the way.
RewindReproduces ==
    story.replayable /\ story.status # "running" =>
        SaveState(Rewound(story, Len(story.history))) = SaveState(story)

\* A body that every version of the story has, and that only once-only choices lead to.
OnceOnly(title, c) ==
    \A p \in DOMAIN Program : Program[p].title = title =>
        c \in DOMAIN Program[p].code /\ \A i \in ChoicesOf(p) : i.body = c => ~i.sticky

\* A once-only choice is taken once in a run (F451), over saves, restores,
\* another version of the program, and rewinds.  (A version without the body
\* forgets that it was visited.)
OnceOnlyIsTakenOnce ==
    \A j, k \in DOMAIN story.history :
        /\ story.history[j].body = story.history[k].body
        /\ OnceOnly(Program[story.program].title, story.history[j].body)
        => j = k

\* "Draw without replacement" (vm.ts:749): the texts a shuffle has shown, in
\* rounds of the size of its deck, show none twice in a round, over saves and
\* restores.
ShuffleIsFair ==
    LET deck == Program[story.program].deck
        n == Cardinality(deck)
        texts == [k \in DOMAIN story.transcript |->
                    IF story.transcript[k].kind = "text" THEN story.transcript[k].text ELSE <<>>]
        drawn == SelectSeq(FlattenSeq(texts) \o story.lineBuf, LAMBDA t : t \in deck)
    IN story.replayable =>
        \A j, k \in DOMAIN drawn :
            j # k /\ (j - 1) \div n = (k - 1) \div n => drawn[j] # drawn[k]

\* restoreSaveSlot refuses "instead of leaving the story half-restored"
\* (saves.ts:47): a restore leaves the story as saved, or as it was.
RestoredOrUntouched ==
    [][Restore => SaveState(story') = slot \/ SaveState(story') = SaveState(story)]_forgeVars
=============================================================================
