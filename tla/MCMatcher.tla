----------------------------- MODULE MCMatcher -----------------------------
(* Sources of up to two pieces, well formed and not, and of a piece inside a *)
(* tag with a piece after it; phrases of a tag with text in it and around it, *)
(* with brackets and spaces in all of them.                                   *)
EXTENDS Matcher

MCChars == {"a", "A", "\t"}

MCSmallOf == [c \in {"A"} |-> "a"]

Opened(name) == <<"<", name, ">">>
Ended(name) == <<"<", "/", name, ">">>

MCPieces ==
    {<<"a">>, <<"A">>, <<"<">>, <<">">>, <<"<", "<">>, <<"\n">>, <<"\t">>, <<" ">>,
     <<"<", "\t", "tab", ">">>, Opened("tab"), Opened("tcase"), Ended("tcase"), Opened("expand"), Opened("text"),
     Opened("a"), Ended("a"), Opened("shift"), Ended("shift")}

MCSources ==
    MCPieces \cup {p \o q : p, q \in MCPieces}
      \cup {Opened(name) \o p \o Ended(name) \o q :
              name \in {"tcase", "a", "shift"}, p \in MCPieces,
              q \in {<<>>, <<"a">>, Opened("tab")}}

MCTexts ==
    {<<"a", "<">>, <<"<", "a">>, <<"a", ">">>, <<">", "a">>, <<" ", "a">>, <<"a", " ">>, <<"A">>,
     EndOf(<<"tcase">>)}

MCTags == {Tag(<<"tab">>, NoText, <<>>)} \cup {Tag(<<"tcase">>, {t}, <<>>) : t \in MCTexts}

MCPhrases ==
    LET text(t) == Tag(<<"text">>, {t}, <<>>)
    IN {<<text(t)>> : t \in MCTexts} \cup {<<tag>> : tag \in MCTags}
         \cup {<<tag, other>> : tag, other \in MCTags}
         \cup {<<text(t), tag>> : t \in MCTexts, tag \in MCTags}
         \cup {<<tag, text(t)>> : t \in MCTexts, tag \in MCTags}
         \cup {<<text(<<"a">>), tag, text(t)>> : t \in MCTexts, tag \in MCTags}

\* The bound of Nesting keeps no input from the model.
ASSUME NothingIsDeeper ==
    \A input \in Inputs : \A side \in {"match", "expand"} :
      Parsed(input.source, <<side>>) \subseteq Tree
============================================================================
