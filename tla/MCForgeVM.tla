------------------------------ MODULE MCForgeVM ------------------------------
(***************************************************************************)
(* The Forge for TLC.  A behaviour is about a story and its host (ForgeVM) *)
(* or about a small weave that is lowered, played and compared with what   *)
(* it means (ForgeLower, ForgeWeave).  The stories are two versions of one *)
(* with a shuffle, a tunnel and choices of every kind, one that calls a    *)
(* function, and one that fails or strays in every way a story can.        *)
(***************************************************************************)
EXTENDS ForgeVM, ForgeLower, ForgeWeave, Functions

CONSTANTS
    Weave,   \* the compiled weaves, by shape
    Length   \* bound: items in a weave

VARIABLE weave  \* a weave and the choices taken in it, or NoWeave

-----------------------------------------------------------------------------
Words(t) == [kind |-> "text", text |-> t]
Divert(t) == [kind |-> "divert", to |-> t, tunnel |-> FALSE]
Tunnel(t) == [kind |-> "divert", to |-> t, tunnel |-> TRUE]
Return == [kind |-> "return"]
Alt(flavor, a, b) == [kind |-> "alt", flavor |-> flavor, branches |-> <<<<Words(a)>>, <<Words(b)>>>>]
Show(e) == [kind |-> "print", expr |-> e]

Number(n) == [kind |-> "literal", value |-> n]
Ref(name) == [kind |-> "var", name |-> name]
Binary(op, left, right) == [kind |-> "binary", op |-> op, left |-> left, right |-> right]
Assign(name, e) == [kind |-> "logic", stmt |-> [kind |-> "assign", name |-> name, expr |-> e]]

Said(segs) == [kind |-> "text", segs |-> segs]
Gather(label, segs) == [kind |-> "gather", label |-> label, segs |-> segs]
Choice(sticky, conds, prefix, only, output, body) ==
    [kind |-> "choice", label |-> "", sticky |-> sticky, conds |-> conds, prefix |-> prefix,
     only |-> only, output |-> output, body |-> body]
Knot(name, body) == [name |-> name, body |-> body, stitches |-> <<>>]

-----------------------------------------------------------------------------
Hub == Knot("hub",
    <<Assign("n", [kind |-> "random", n |-> 2]), Said(<<Alt("shuffle", "rain", "sun")>>),
      Choice(TRUE, <<>>, <<>>, <<Words("look")>>, <<>>,
             <<Tunnel("alley"), Said(<<Show(Ref("n")), Divert("hub")>>)>>),
      Choice(FALSE, <<Binary("less", Ref("hub"), Number(3))>>, <<>>, <<Alt("cycle", "wait", "linger")>>,
             <<>>, <<Assign("coins", Binary("add", Ref("coins"), Number(1))), Divert("hub")>>),
      Choice(FALSE, <<>>, <<Divert("leave")>>, <<>>, <<>>, <<>>)>>)

Alley ==
    [name |-> "alley",
     body |-> <<Said(<<Alt("sequence", "dark", "darker"), Divert("lane")>>)>>,
     stitches |-> <<[name |-> "lane",
                     body |-> <<Choice(FALSE, <<>>, <<>>, <<Words("peek")>>, <<Show([kind |-> "turns"])>>,
                                       <<Return>>),
                                Choice(TRUE, <<>>, <<Divert("back")>>, <<>>, <<>>, <<>>)>>]>>]

Garden ==
    [title |-> "garden", version |-> 1, deck |-> {"rain", "sun"}, temps |-> {"n"}, preamble |-> <<>>,
     globals |-> <<[name |-> "coins", init |-> Number(1)]>>,
     knots |-> <<Hub, Alley, Knot("back", <<Return>>),
                 Knot("leave", <<Said(<<Words("bye")>>), Divert("END")>>)>>]

\* The second version opens in the alley, with nothing behind it.
GardenTwo ==
    [Garden EXCEPT
        !.version = 2,
        !.globals = Append(@, [name |-> "songs", init |-> Number(1)]),
        !.preamble = <<Tunnel("alley"), Divert("hub")>>]

Ask == [kind |-> "call"]
Story(title, knots) ==
    [title |-> title, version |-> 1, deck |-> {"none"}, temps |-> {}, preamble |-> <<>>,
     globals |-> <<[name |-> "coins", init |-> Number(1)]>>, knots |-> knots]

Desk ==
    Story("desk",
          <<Knot("desk",
                 <<Choice(FALSE, <<>>, <<>>, <<Words("ask")>>, <<>>,
                          <<Assign("coins", Ask),
                            Said(<<[kind |-> "if", cond |-> Ref("coins"), then |-> <<Words("yes")>>,
                                    else |-> <<Words("no")>>], Divert("END")>>)>>)>>)>>)

Mill ==
    Story("mill",
          <<Knot("mill", [k \in 1 .. 4 |->
                LET way == <<"dig", "spin", "whisper", "mumble">>[k]
                IN Choice(k < 3, <<>>, <<>>, <<Words(way)>>, <<Divert(way)>>, <<>>)]),
            Knot("dig", <<Tunnel("dig")>>),
            Knot("spin", <<Choice(TRUE, <<Number(1), Number(1)>>, <<Divert("spin")>>, <<>>, <<>>, <<>>)>>),
            Knot("whisper", <<Choice(TRUE, <<Ask>>, <<>>, <<Words("hush")>>, <<Divert("spin")>>, <<>>)>>),
            Knot("mumble", <<Choice(TRUE, <<>>, <<Words("hm"), Tunnel("whisper")>>, <<>>, <<>>, <<>>)>>)>>)

Lowered ==
    "garden" :> LowerStory(Garden) @@ "garden2" :> LowerStory(GardenTwo)
    @@ "desk" :> LowerStory(Desk) @@ "mill" :> LowerStory(Mill)
\* (A LET, so that TLC's coverage does not count all of ForgeLower at each use.)
MCProgram == LET program == Lowered IN program

-----------------------------------------------------------------------------
\* The items a weave is made of; t is a word of its own for each place.
WeaveItem(kind, t) ==
    CASE kind = "line" -> Said(<<Words(t)>>)
      [] kind = "gather" -> Gather("", <<Words(t)>>)
      [] kind = "point" -> Gather("p", <<Words(t)>>)
      [] kind = "back" -> Divert("p")
      [] kind = "end" -> Said(<<Words(t), Divert("END")>>)
      [] kind = "tunnel" -> Said(<<Words(t), Tunnel("there")>>)
      [] kind = "once" -> Choice(FALSE, <<>>, <<Words(t)>>, <<>>, <<>>, <<>>)
      [] kind = "nest" -> Choice(TRUE, <<>>, <<>>, <<Words(t)>>, <<>>,
                                 <<Choice(FALSE, <<>>, <<Words(t), Words("in")>>, <<>>, <<>>, <<>>),
                                   Gather("", <<Words(t), Words("out")>>)>>)
      [] kind = "leave" -> Choice(TRUE, <<>>, <<Words(t)>>, <<Words("off")>>, <<Divert("away")>>, <<>>)
      [] kind = "none" -> Choice(FALSE, <<>>, <<>>, <<>>, <<>>, <<Said(<<Words(t), Words("none")>>)>>)

Kinds == {"line", "gather", "point", "back", "end", "tunnel", "once", "nest", "leave", "none"}
Marks == <<"one", "two", "three", "four">>

\* A label is declared once, and where it is used.
Shapes ==
    {s \in UNION {[1 .. n -> Kinds] : n \in 1 .. Length} :
        LET points == {i \in DOMAIN s : s[i] = "point"}
        IN IF \E i \in DOMAIN s : s[i] = "back" THEN Cardinality(points) = 1 ELSE points = {}}

WeaveStory(shape) ==
    [title |-> "weave", version |-> 1, deck |-> {"none"}, temps |-> {}, preamble |-> <<>>, globals |-> <<>>,
     knots |-> <<Knot("here", [i \in DOMAIN shape |-> WeaveItem(shape[i], Marks[i])]),
                 Knot("there", <<Said(<<Words("there")>>), Return>>),
                 Knot("away", <<Said(<<Words("away")>>)>>)>>]

\* The weaves that the compiler takes (with @@ TLC computes a function once).
Woven ==
    LET lowered == [s \in Shapes |-> LowerStory(WeaveStory(s))] @@ None
    IN Restrict(lowered, {s \in Shapes : ValidIr(lowered[s])}) @@ None

MCWeave == LET program == Woven IN program

W == INSTANCE ForgeVM WITH Program <- Weave

\* What the machine relies on in a program, and its proofs with it, is so of every
\* weave that is lowered and found valid.
ASSUME LoweringAssumption == \A s \in DOMAIN Weave : W!WellFormed(s)

NoWeave == [shape |-> <<>>, choices |-> <<>>]

PlayedWeave == W!ReplayStory(weave.shape, 0, weave.choices)

-----------------------------------------------------------------------------
MCForgeInit ==
    /\ ForgeInit
    /\ weave \in {NoWeave} \cup {[shape |-> s, choices |-> <<>>] : s \in DOMAIN Weave}
    /\ weave # NoWeave => story = New("mill", CHOOSE s \in Seed : TRUE)

Follow ==
    /\ weave # NoWeave /\ Len(weave.choices) <= MaxTurns
    /\ \E i \in DOMAIN PlayedWeave.views : weave' = [weave EXCEPT !.choices = Append(@, i)]
    /\ UNCHANGED forgeVars

MCForgeNext ==
    \/ weave = NoWeave /\ ForgeNext /\ UNCHANGED weave
    \/ Follow

mcForgeVars == <<forgeVars, weave>>

MCForgeSpec == MCForgeInit /\ [][MCForgeNext]_mcForgeVars

-----------------------------------------------------------------------------
\* The machine says, offers and ends what the reader does.  (An operator, so that
\* TLC's coverage counts the machine once.)
AsWritten(vm, w) ==
    CASE w.status \in {"choices", "done"} ->
            /\ ~Thrown(vm) /\ vm.status = w.status /\ vm.transcript = w.said
            /\ vm.status = "choices" => [k \in DOMAIN vm.views |-> vm.views[k].text] = Menu(w)
      [] w.status = "stuck" -> Thrown(vm) /\ vm.transcript = w.said /\ vm.views = <<>>
      [] w.status = "endless" -> vm.thrown = "step budget"

\* The lowered weave, played by the machine with any choices, says, offers and
\* ends as its author wrote it, wherever bodies, gathers, labels, tunnels and
\* fallbacks join (F405, F454): lower.ts and vm.ts agree on what a weave means.
PlaysAsWritten ==
    weave # NoWeave => AsWritten(PlayedWeave, Play(WeaveStory(weave.shape), weave.choices))
===============================================================================
