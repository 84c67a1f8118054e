----------------------------- MODULE MCCommand -----------------------------
(* Command lines of up to five words, drawn from a pool for every sub      *)
(* command, and calls of the HTTP API with and without what they require.      *)
EXTENDS Command

MCNumbers == {"0", "7"}
MCEscapeOf == [c \in {"&", "=", "?", "/", "+", "'", ",", "tab"} |-> "%" \o c]
MCUnprintable == {"tab"}

Dash(c) == <<"-", c>>
Word(w) == <<w>>
Odd == <<"&", "=", " ", "+", "tab">>

Lists(pool, most) == UNION {[1 .. n -> pool] : n \in 0 .. most}

Lines(name, pool, most) == {<<Word(name)>> \o args : args \in Lists(pool, most)}

MCArgvs ==
    Lines("add", {Odd, Dash("e"), <<"-", "-", "group">>, Dashes}, 4)
    \cup Lines("add", {Word("a"), <<>>, Dash("g"), Dash("x")}, 3)
    \cup Lines("remove", {Odd, Word("7"), <<"-", "7">>, Dash("i"), Dash("g"), Dashes, Dash("h")}, 3)
    \cup Lines("list", {Odd, Dash("c"), <<"-", "-", "where">>, <<"-", "c", ",", "-", "w">>}, 3)
    \cup Lines("config", {Word("a"), Dash("g"), Dash("e")}, 4)
    \cup Lines("close", {Word("a"), Dashes}, 1)
    \cup Lists({Dash("p"), Word("0"), Word("7"), <<"-", "7">>, Dash("v"), Word("a")}, 3)

\* Parameters a call has in this order; each of them is left out, or has one of its values.
With(name, values) == {<<>>} \cup {<<Param(name, value)>> : value \in values}

CallsOf(op, first, second, third) ==
    {[path |-> <<"/", op>>, params |-> <<Param("token", Word("token"))>> \o a \o b \o c] :
        a \in first, b \in second, c \in third}

Ids == With("id", {Word("7"), Word("a")})
Enabled == With("enabled", {Word("true"), <<>>})

MCCalls ==
    CallsOf("add", With("match", {Odd}), With("expand", {Word("a")}),
            Enabled \cup With("enabled", {Word("a")}) \cup With("enable", {Word("true")}))
    \cup CallsOf("remove", With("match", {Odd, <<>>}), Ids, {<<>>})
    \cup CallsOf("config", With("match", {Odd}), Ids, Enabled \cup With("enable", {Word("true")}))
    \cup CallsOf("list", With("columns", {Odd}), With("condition", {Word("a"), <<>>}), {<<>>})
    \cup CallsOf("version", {<<>>}, {<<>>}, {<<>>}) \cup CallsOf("none", {<<>>}, {<<>>}, {<<>>})
    \cup {[path |-> <<"/", "close">>, params |-> token] : token \in With("token", {Word("other")})}
=============================================================================
