------------------------------ MODULE ForgeWeave ------------------------------
(***************************************************************************)
(* What a weave means to its author: a story is read item by item, a       *)
(* choice leads into its body, and where a block ends the reading goes on  *)
(* after the group of choices it belongs to.  This is the reference that   *)
(* the lowered story is compared with; no container, instruction or jump   *)
(* occurs in it.  Lines are texts with a divert at most at their end.      *)
(***************************************************************************)
EXTENDS Naturals, Sequences, SequencesExt

CONSTANT Fuel  \* bound: items read in a play

\* A place in a story: the block it is in, its path, and the item to read.  The
\* flow is the places to go on from, the innermost last.
At(items, path, i) == [items |-> items, path |-> path, i |-> i]

Start(s, flow) ==
    [flow |-> flow, calls |-> <<>>, line |-> <<>>, said |-> <<>>, taken |-> {},
     offers |-> <<>>, status |-> "running", fuel |-> Fuel]

Line(w) == [w EXCEPT !.line = <<>>,
                     !.said = IF w.line = <<>> THEN @ ELSE Append(@, [kind |-> "text", text |-> w.line])]
Halted(w, status) == [w EXCEPT !.status = status]

\* A choice is read as its output and then its body.
HasText(segs) == \E k \in DOMAIN segs : segs[k].kind = "text"
Read(c) ==
    (IF HasText(c.prefix \o c.output) THEN <<[kind |-> "text", segs |-> c.prefix \o c.output]>>
     ELSE c.prefix \o c.output) \o c.body

After(place) ==
    CHOOSE k \in place.i .. Len(place.items) + 1 :
        /\ k > Len(place.items) \/ place.items[k].kind # "choice"
        /\ \A j \in place.i .. k - 1 : place.items[j].kind = "choice"

\* The group that is read at the end of flow, and the flow into one of its choices.
Into(flow, j) ==
    LET here == Last(flow)
    IN Front(flow) \o <<[here EXCEPT !.i = After(here)],
                        At(Read(here.items[j]), Append(here.path, j), 1)>>

\* Every label, with the flow from there on.
RECURSIVE Labels(_)
Labels(flow) ==
    LET here == Last(flow)
        At2(j) == Append(Front(flow), [here EXCEPT !.i = j])
        Own(j) == CASE here.items[j].kind = "gather" -> {[label |-> here.items[j].label, flow |-> At2(j)]}
                    [] here.items[j].kind = "choice" ->
                           {[label |-> here.items[j].label, flow |-> Into(At2(j), j)]}
                           \cup Labels(Into(At2(j), j))
                    [] OTHER -> {}
    IN UNION {Own(j) : j \in DOMAIN here.items}

KnotFlow(s, k) == <<At(s.knots[k].body, <<k>>, 1)>>

Destination(s, name) ==
    IF \E k \in DOMAIN s.knots : s.knots[k].name = name
    THEN KnotFlow(s, CHOOSE k \in DOMAIN s.knots : s.knots[k].name = name)
    ELSE (CHOOSE l \in UNION {Labels(KnotFlow(s, k)) : k \in DOMAIN s.knots} : l.label = name).flow

Diverted(s, w, d) ==
    CASE d.kind = "return" ->
             IF w.calls = <<>> THEN Halted(w, "stuck")
             ELSE [w EXCEPT !.flow = Last(w.calls), !.calls = Front(@)]
      [] d.kind = "divert" /\ d.to = "END" -> Halted(Line([w EXCEPT !.calls = <<>>]), "done")
      [] d.kind = "divert" /\ d.to # "END" ->
             [w EXCEPT !.flow = Destination(s, d.to), !.calls = IF d.tunnel THEN Append(@, w.flow) ELSE @]

Spoken(s, w, segs, newline) ==
    LET texts == SelectSeq(segs, LAMBDA x : x.kind = "text")
        said == [w EXCEPT !.line = @ \o [k \in DOMAIN texts |-> texts[k].text]]
    IN IF texts # segs THEN Diverted(s, said, Last(segs)) ELSE IF newline THEN Line(said) ELSE said

\* Choices that are still there: a once-only one goes when its body was read.
Available(w) ==
    LET here == Last(w.flow)
    IN SelectSeq([k \in 1 .. After(here) - here.i |-> here.i + k - 1],
                 LAMBDA j : here.items[j].sticky \/ Append(here.path, j) \notin w.taken)

Grouped(w) ==
    LET here == Last(w.flow)
        Shows(j) == HasText(here.items[j].prefix \o here.items[j].only)
        visible == SelectSeq(Available(w), LAMBDA j : Shows(j))
        silent == SelectSeq(Available(w), LAMBDA j : ~Shows(j))
    IN CASE visible # <<>> -> Halted([Line(w) EXCEPT !.offers = visible], "choices")
         [] visible = <<>> /\ silent # <<>> -> [w EXCEPT !.flow = Into(@, Head(silent))]
         [] OTHER -> Halted(w, "stuck")

ReadItem(s, w) ==
    LET here == Last(w.flow)
        item == here.items[here.i]
        next == [w EXCEPT !.flow[Len(w.flow)].i = @ + 1]
    IN CASE item.kind = "text" -> Spoken(s, next, item.segs, TRUE)
         [] item.kind = "gather" -> Spoken(s, next, item.segs, item.segs # <<>>)
         [] item.kind \in {"divert", "return"} -> Diverted(s, next, item)
         [] item.kind = "choice" -> Grouped(w)

\* A body that is entered counts, whichever way.
Entered(w) ==
    IF w.flow # <<>> /\ Last(w.flow).i = 1 /\ Len(Last(w.flow).path) > 1
    THEN [w EXCEPT !.taken = @ \cup {Last(w.flow).path}] ELSE w

RECURSIVE Reading(_, _)
Reading(s, w) ==
    CASE w.status # "running" -> w
      [] w.status = "running" /\ w.fuel = 0 -> Halted(w, "endless")
      [] w.status = "running" /\ w.fuel > 0 /\ w.flow = <<>> -> Halted(Line(w), "done")
      [] w.status = "running" /\ w.fuel > 0 /\ w.flow # <<>> ->
             IF Last(w.flow).i > Len(Last(w.flow).items) THEN Reading(s, [w EXCEPT !.flow = Front(@)])
             ELSE Reading(s, ReadItem(s, [Entered(w) EXCEPT !.fuel = @ - 1]))

TextOf(segs) ==
    LET texts == SelectSeq(segs, LAMBDA x : x.kind = "text")
    IN [k \in DOMAIN texts |-> texts[k].text]
Menu(w) ==
    LET here == Last(w.flow)
    IN [k \in DOMAIN w.offers |-> TextOf(here.items[w.offers[k]].prefix \o here.items[w.offers[k]].only)]

Picked(s, w, i) ==
    Reading(s, [w EXCEPT !.said = Append(@, [kind |-> "choice", text |-> Menu(w)[i]]),
                         !.flow = Into(@, w.offers[i]), !.offers = <<>>,
                         !.status = "running", !.fuel = Fuel])

\* The story, read from its first knot with these choices.
Play(s, choices) ==
    FoldLeft(LAMBDA w, i : Picked(s, w, i), Reading(s, Start(s, KnotFlow(s, 1))), choices)
===============================================================================
