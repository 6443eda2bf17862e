------------------------------ MODULE ForgeLower ------------------------------
(***************************************************************************)
(* How a story is lowered into the containers that ForgeVM plays           *)
(* (packages/forge-vm: lower.ts, validate.ts).                             *)
(*                                                                         *)
(* A story is the syntax tree of the parser: a preamble, knots with their  *)
(* stitches, and globals; a block is a sequence of items.  A container is  *)
(* named after the place of its item, where the code counts: hub.2 is the  *)
(* body of the second item of hub.  A jump names the instruction it goes   *)
(* to, counted from 1.  Temporaries are known throughout a story.  Left    *)
(* out are constants and their folding, includes, duplicate names, tags,   *)
(* glue, references to entities and notes, diverts to variables, effects,  *)
(* lists, ternaries and spans.                                             *)
(***************************************************************************)
EXTENDS Naturals, Sequences, SequencesExt, TLC

Op(op) == [op |-> op]
To(op, target) == [op |-> op, to |-> target]
Container(name, code) == name :> code

\* What lowering a part of a line gives: its instructions, and whether the flow
\* has gone elsewhere after them.
Live(code) == [code |-> code, dead |-> FALSE]
Dead(code) == [code |-> code, dead |-> TRUE]

None == <<>>

-----------------------------------------------------------------------------
(* Names.  A scope is a story's known names, the knot and the path in it.  *)

Place(path, i) == path \o "." \o ToString(i)
Named(scope, item, path, i) ==
    IF item.label = "" THEN Place(path, i)
    ELSE IF scope.path = "" THEN item.label ELSE scope.path \o "." \o item.label

\* declareLabels: the labeled choices and gathers of a block, however deep.
RECURSIVE LabelsOf(_)
LabelsOf(items) ==
    UNION {(IF items[i].kind \in {"choice", "gather"} THEN {items[i].label} \ {""} ELSE {})
           \cup (IF items[i].kind = "choice" THEN LabelsOf(items[i].body) ELSE {}) : i \in DOMAIN items}

Labeled(path, items) ==
    {IF path = "" THEN label ELSE path \o "." \o label : label \in LabelsOf(items)}

\* lookupTarget: as it stands, else in the knot, else in the stitch.
Targets(scope, path) ==
    SelectSeq(<<path, scope.knot \o "." \o path, scope.path \o "." \o path>>,
              LAMBDA name : name \in scope.targets)

-----------------------------------------------------------------------------
(* Expressions and statements.                                             *)

Variable(scope, name) ==
    CASE name \in scope.temps -> Op("load_temp")
      [] name \in scope.globals \ scope.temps -> [op |-> "load", name |-> name]
      [] OTHER -> [op |-> "visits", of |-> Head(Targets(scope, name))]

RECURSIVE LowerExpr(_, _)
LowerExpr(scope, e) ==
    CASE e.kind = "literal" -> <<[op |-> "push", value |-> e.value]>>
      [] e.kind = "var" -> <<Variable(scope, e.name)>>
      [] e.kind = "binary" -> LowerExpr(scope, e.left) \o LowerExpr(scope, e.right) \o <<Op(e.op)>>
      [] e.kind = "random" -> <<[op |-> "random", n |-> e.n]>>
      [] e.kind \in {"turns", "call"} -> <<Op(e.kind)>>

LowerStmt(scope, s) ==
    LowerExpr(scope, s.expr) \o
        <<CASE s.kind = "expr" -> Op("pop")
            [] s.kind = "assign" /\ s.name \in scope.temps -> Op("store_temp")
            [] OTHER -> [op |-> "store", name |-> s.name]>>

-----------------------------------------------------------------------------
(* The parts of a line.                                                    *)

\* emitDivert: a tunnel comes back, any other divert does not.
EmitDivert(scope, d) ==
    CASE d.to \in {"END", "DONE"} -> Dead(<<Op("end")>>)
      [] d.to \notin {"END", "DONE"} /\ d.tunnel -> Live(<<To("tunnel", Head(Targets(scope, d.to)))>>)
      [] OTHER -> Dead(<<To("divert", Head(Targets(scope, d.to)))>>)

\* One branch after the other, each with a jump to the end; what k of them take.
Span(branches, k) == Len(FlattenSeq(SubSeq(branches, 1, k))) + k
Spliced(branches, base) ==
    LET end == To("jump", base + Span(branches, Len(branches)))
    IN FlattenSeq([k \in DOMAIN branches |-> Append(branches[k], end)])
Starts(branches, base) == [k \in DOMAIN branches |-> base + Span(branches, k - 1)]

\* An inline conditional with the code of its parts; without an else branch
\* there is nothing to jump over.
Conditional(cond, then, else, base, hasElse) ==
    LET skip == base + Len(cond) + 1 + Len(then)
    IN IF hasElse
       THEN cond \o <<To("jump_if_false", skip + 1)>> \o then \o <<To("jump", skip + 1 + Len(else))>> \o else
       ELSE cond \o <<To("jump_if_false", skip)>> \o then

RECURSIVE LowerSegments(_, _, _, _), LowerBranches(_, _, _, _)

\* The branches of an alternative or a conditional, of which the first begins at
\* base: that the flow leaves within one of them is not noticed.
LowerBranches(scope, at, base, branches) ==
    IF branches = <<>> THEN <<>>
    ELSE LET first == LowerSegments(scope, at, base, Head(branches)).code
         IN <<first>> \o LowerBranches(scope, at, base + Len(first) + 1, Tail(branches))

LowerSegment(scope, at, base, seg) ==
    CASE seg.kind = "text" -> Live(<<[op |-> "text", text |-> seg.text]>>)
      [] seg.kind = "print" -> Live(LowerExpr(scope, seg.expr) \o <<Op("print")>>)
      [] seg.kind = "divert" -> EmitDivert(scope, seg)
      [] seg.kind = "return" -> Dead(<<Op("tunnel_return")>>)
      [] seg.kind = "if" ->
            LET cond == LowerExpr(scope, seg.cond)
                parts == LowerBranches(scope, at, base + Len(cond) + 1, <<seg.then, seg.else>>)
            IN Live(Conditional(cond, parts[1], parts[2], base, seg.else # <<>>))
      [] seg.kind = "alt" ->
            LET parts == LowerBranches(scope, at, base + 1, seg.branches)
            IN Live(<<[op |-> "alt", id |-> Place(at, base), flavor |-> seg.flavor,
                       branches |-> Starts(parts, base + 1)]>> \o Spliced(parts, base + 1))

\* lowerSegments of a line whose first instruction is number base of at: what
\* follows a divert is dropped.
LowerSegments(scope, at, base, segs) ==
    IF segs = <<>> THEN Live(<<>>)
    ELSE LET first == LowerSegment(scope, at, base, Head(segs))
             rest == LowerSegments(scope, at, base + Len(first.code), Tail(segs))
         IN IF first.dead THEN first ELSE [rest EXCEPT !.code = first.code \o @]

\* hasPresentable
Presentable(segs) == \E k \in DOMAIN segs : segs[k].kind \notin {"divert", "return"}

-----------------------------------------------------------------------------
(* Items: the weave of choices and gathers.                                *)

EmitExit(exit) == IF exit = "" THEN Op("end") ELSE To("divert", exit)

Visit(name) == [op |-> "visit", of |-> name]

\* A container to be lowered: its first instructions and its first line, then
\* the items of a block from item i on, and where the block leaves to.
Chunk(scope, name, head, segs, newline, path, items, i, exit) ==
    [scope |-> scope, name |-> name, head |-> head, segs |-> segs, newline |-> newline,
     path |-> path, items |-> items, i |-> i, exit |-> exit, whole |-> FALSE]

\* One whose code is all there.
Whole(scope, name, code) ==
    [Chunk(scope, name, code, <<>>, FALSE, name, <<>>, 1, "") EXCEPT !.whole = TRUE]

\* The choices that begin at items[i] are one group up to this item.
GroupEnd(items, i) ==
    CHOOSE k \in i .. Len(items) + 1 :
        /\ k > Len(items) \/ items[k].kind # "choice"
        /\ \A j \in i .. k - 1 : items[j].kind = "choice"

\* Mutant: the bodies of a group leave with the enclosing block.
ContinuationOuter(c, k) == c.exit

\* Where the bodies of a group end that is followed by item k: the container of
\* what follows, else where the block leaves to.
Continuation(c, k) ==
    CASE k > Len(c.items) -> c.exit
      [] k <= Len(c.items) /\ c.items[k].kind = "gather" -> Named(c.scope, c.items[k], c.path, k)
      [] OTHER -> Place(c.path, k)

\* lowerGatherChain: a gather and all that follows it are one container.
GatherChunk(c, i) ==
    LET g == c.items[i]
        name == Named(c.scope, g, c.path, i)
    IN Chunk(c.scope, name, IF g.label = "" THEN <<>> ELSE <<Visit(name)>>, g.segs, g.segs # <<>>,
             c.path, c.items, i + 1, c.exit)

\* What follows a group: a gather, or the container in which the items go on.
AfterGroup(c, k) ==
    CASE k > Len(c.items) -> <<>>
      [] k <= Len(c.items) /\ c.items[k].kind = "gather" -> <<GatherChunk(c, k)>>
      [] OTHER -> <<Chunk(c.scope, Place(c.path, k), <<>>, <<>>, FALSE, c.path, c.items, k, c.exit)>>

\* What a choice registers; one without text to pick is a fallback.
CondOf(choice, body) == IF choice.conds = <<>> THEN "" ELSE body \o "#cond"
ChoiceOf(choice, body) ==
    [op |-> "choice",
     choice |-> [sticky |-> choice.sticky, body |-> body, text |-> body \o "#text",
                 fallback |-> ~Presentable(choice.prefix) /\ ~Presentable(choice.only),
                 cond |-> CondOf(choice, body)]]

\* The presented text: the prefix and what is in brackets, each with its diverts.
ChoiceText(scope, choice, text) ==
    LET prefix == LowerSegments(scope, text, 1, choice.prefix).code
    IN prefix \o LowerSegments(scope, text, 1 + Len(prefix), choice.only).code \o <<Op("ret")>>

\* All conditions, each evaluated.
ChoiceCond(scope, conds) ==
    FlattenSeq([k \in DOMAIN conds |->
                   LowerExpr(scope, conds[k]) \o IF k > 1 THEN <<Op("and")>> ELSE <<>>])
    \o <<Op("ret")>>

\* emitChoice: the text and the conditions of a choice, and its body: a visit,
\* its output, its items.
ChoiceChunks(scope, choice, body, exit) ==
    LET output == choice.prefix \o choice.output
    IN <<Whole(scope, body \o "#text", ChoiceText(scope, choice, body \o "#text")),
         Chunk(scope, body, <<Visit(body)>>, output, Presentable(output), body, choice.body, 1, exit)>>
       \o IF choice.conds = <<>> THEN <<>>
          ELSE <<Whole(scope, CondOf(choice, body), ChoiceCond(scope, choice.conds))>>

\* What a container has so far: its code, whether the flow has left it, and the
\* containers it leads to.
LowerLine(c, r, segs, newline) ==
    LET line == LowerSegments(c.scope, c.name, 1 + Len(r.code), segs)
    IN [r EXCEPT !.code = @ \o line.code \o IF newline /\ ~line.dead THEN <<Op("newline")>> ELSE <<>>,
                 !.over = line.dead]

Left(r, code, more) == [code |-> r.code \o code, over |-> TRUE, more |-> more]

\* lowerChoiceRun: a group, with the bodies of its choices and what is after it.
LowerGroup(c, r, i) ==
    LET k == GroupEnd(c.items, i)
        group == SubSeq(c.items, i, k - 1)
        Body(j) == Named(c.scope, group[j], c.path, i + j - 1)
    IN Left(r, [j \in DOMAIN group |-> ChoiceOf(group[j], Body(j))] \o <<Op("present")>>,
            FlattenSeq([j \in DOMAIN group |->
                           ChoiceChunks(c.scope, group[j], Body(j), Continuation(c, k))])
            \o AfterGroup(c, k))

\* lowerItems, one item of it.
LowerItem(c, r, i) ==
    LET item == c.items[i]
    IN CASE item.kind = "text" -> LowerLine(c, r, item.segs, TRUE)
         [] item.kind = "logic" -> [r EXCEPT !.code = @ \o LowerStmt(c.scope, item.stmt)]
         [] item.kind \in {"divert", "return"} -> LowerLine(c, r, <<item>>, FALSE)
         [] item.kind = "gather" ->
                Left(r, <<To("divert", Named(c.scope, item, c.path, i))>>, <<GatherChunk(c, i)>>)
         [] item.kind = "choice" -> LowerGroup(c, r, i)

\* lowerItems: nothing is lowered where the flow has left.
RECURSIVE LowerItems(_, _, _)
LowerItems(c, r, i) ==
    CASE r.over -> r
      [] ~r.over /\ i > Len(c.items) -> Left(r, <<EmitExit(c.exit)>>, <<>>)
      [] ~r.over /\ i <= Len(c.items) -> LowerItems(c, LowerItem(c, r, i), i + 1)

LowerChunk(c) ==
    LET begun == [code |-> c.head, over |-> c.whole, more |-> <<>>]
    IN IF c.whole THEN begun ELSE LowerItems(c, LowerLine(c, begun, c.segs, c.newline), c.i)

\* The containers of these chunks, and those they lead to.
RECURSIVE LowerChunks(_)
LowerChunks(chunks) ==
    IF chunks = <<>> THEN None
    ELSE LET r == LowerChunk(Head(chunks))
         IN Container(Head(chunks).name, r.code) @@ LowerChunks(r.more \o Tail(chunks))

-----------------------------------------------------------------------------
(* A story.                                                               *)

\* The knots, and the stitches in them.
Block(knot, path, items) == [knot |-> knot, path |-> path, items |-> items]
Blocks(ast) ==
    FlattenSeq([k \in DOMAIN ast.knots |->
        LET knot == ast.knots[k]
        IN <<Block(knot.name, knot.name, knot.body)>>
           \o [j \in DOMAIN knot.stitches |->
                  Block(knot.name, knot.name \o "." \o knot.stitches[j].name, knot.stitches[j].body)]])

Scope(ast, knot, path) ==
    [knot |-> knot, path |-> path, temps |-> ast.temps,
     globals |-> {g.name : g \in ToSet(ast.globals)},
     targets |-> Labeled("", ast.preamble)
                 \cup UNION {{b.path} \cup Labeled(b.path, b.items) : b \in ToSet(Blocks(ast))}]

Preamble == "<preamble>"

BlockChunk(ast, b) ==
    Chunk(Scope(ast, b.knot, b.path), b.path, <<Visit(b.path)>>, <<>>, FALSE, b.path, b.items, 1, "")

PreambleChunk(ast) ==
    Chunk(Scope(ast, "", ""), Preamble, <<>>, <<>>, FALSE, Preamble, ast.preamble, 1, "")

InitChunk(ast, g) ==
    Whole(Scope(ast, "", ""), g.name \o "#init", LowerExpr(Scope(ast, "", ""), g.init) \o <<Op("ret")>>)

\* lowerStory: a label that no flow reaches keeps the empty container that it
\* was given beforehand.
LowerStory(ast) ==
    [title |-> ast.title, version |-> ast.version, deck |-> ast.deck,
     entry |-> IF ast.preamble # <<>> THEN Preamble ELSE ast.knots[1].name,
     globals |-> [k \in DOMAIN ast.globals |->
                    [name |-> ast.globals[k].name, init |-> ast.globals[k].name \o "#init"]],
     code |-> LowerChunks(<<PreambleChunk(ast)>>
                          \o [k \in DOMAIN Blocks(ast) |-> BlockChunk(ast, Blocks(ast)[k])]
                          \o [k \in DOMAIN ast.globals |-> InitChunk(ast, ast.globals[k])])
              @@ [name \in Scope(ast, "", "").targets |-> <<>>]]

\* validateIr, what lowering does not guarantee by itself: compileStory refuses
\* a container that is empty or could run off its end.
Terminators == {"divert", "tunnel_return", "end", "ret", "present", "jump"}
ValidIr(program) ==
    \A name \in DOMAIN program.code :
        LET code == program.code[name]
        IN /\ code # <<>> /\ Last(code).op \in Terminators
           /\ Last(code).op = "jump" => Last(code).to <= Len(code)
===============================================================================
