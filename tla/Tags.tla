-------------------------------- MODULE Tags --------------------------------
(***************************************************************************)
(* From the source text of a match or an expansion to its tree of tags.    *)
(* A source is a sequence of lexemes: characters, and the words that name  *)
(* tags.  No state is kept: this module is the functions of tags.c and     *)
(* tagmap.c, and module Matcher is what is done with the trees.            *)
(***************************************************************************)
EXTENDS Integers, Sequences, FiniteSets

CONSTANTS
    Small,     \* small letters and digits
    Nesting    \* bound: how deep tags stand in one another


Brackets == {"<", ">"}
Breaks == {"\n", "\t", "\r"}
White == Breaks \cup {" "}

\* Lexemes are strings: those that mean something here, which the provers are not told
ASSUME TagsAssumption ==
    /\ Nesting \in Nat
    /\ Brackets \cup White \cup {"/", "text"} \subseteq STRING

NoText == {}
Tag(name, text, tags) == [name |-> name, text |-> text, tags |-> tags]

Texts == Seq(STRING)

\* A tag with nothing in it but a text, or nothing
Leaves ==
    [name : Texts, text : {some \in SUBSET Texts : \A s, t \in some : s = t}, tags : {<<>>}]

\* Trees of up to n tags in one another: a tag holds a text or tags.
Trees[n \in 0 .. Nesting] ==
    IF n = 0 THEN {}
    ELSE Leaves \cup [name : Texts, text : {NoText}, tags : Seq(Trees[n - 1])]

Tree == Trees[Nesting]

\* A tag and all that it holds
Within[n \in 0 .. Nesting] ==
    [tag \in Trees[n] |->
       {tag} \cup UNION {Within[n - 1][tag.tags[i]] : i \in DOMAIN tag.tags}]

TagsIn(tag) == Within[Nesting][tag]

-----------------------------------------------------------------------------
(* Reading a source *)

\* Mutant: a doubled bracket stays two.
StrippedHalf(s) ==
    LET from[i \in 1 .. Len(s) + 1] ==
            IF i > Len(s) THEN <<>>
            ELSE IF s[i] \notin Brackets THEN <<s[i]>> \o from[i + 1]
            ELSE IF i < Len(s) /\ s[i + 1] = s[i] THEN SubSeq(s, i, i + 1) \o from[i + 2]
            ELSE from[i + 1]
    IN from[1]

\* __tag_brackets_strip: a doubled bracket is one, a single bracket is none.
Stripped(s) ==
    LET from[i \in 1 .. Len(s) + 1] ==
            IF i > Len(s) THEN <<>>
            ELSE IF s[i] \notin Brackets THEN <<s[i]>> \o from[i + 1]
            ELSE IF i < Len(s) /\ s[i + 1] = s[i] THEN <<s[i]>> \o from[i + 2]
            ELSE from[i + 1]
    IN from[1]

\* The locals of __tag_source_minify
Scan(inside, started, spaced, line, tagLine, textLine) ==
    [inside |-> inside, started |-> started, spaced |-> spaced, line |-> line,
     tagLine |-> tagLine, textLine |-> textLine]

ScanStart == Scan(FALSE, FALSE, FALSE, 0, -1, -1)

\* Mutant: after a tag the next text is still taken to follow a text.
TagOpenedSpaced(scan) ==
    [scan EXCEPT !.inside = TRUE, !.started = FALSE, !.tagLine = scan.line]

TagOpened(scan) ==
    [scan EXCEPT !.inside = TRUE, !.started = FALSE, !.spaced = FALSE, !.tagLine = scan.line]

TextGoesOn(scan) ==
    [scan EXCEPT !.started = TRUE, !.spaced = TRUE, !.textLine = scan.line]

\* White space before the text or the tag of a line
Indents(scan) ==
    \/ scan.tagLine # scan.line /\ ~scan.started
    \/ scan.textLine # scan.line

\* A turn of the loop of __tag_source_minify: how far it has read, what it has
\* written, and its locals.  A line break that ends a text is not counted as a line.
MinifyTurn(s, m) ==
    LET c == s[m.next]
        now == IF c = "\n" THEN [m.scan EXCEPT !.line = @ + 1] ELSE m.scan
        goes(taken, written, scan) ==
            [next |-> m.next + taken, written |-> m.written \o written, scan |-> scan]
    IN IF m.next > Len(s) THEN m
       ELSE IF c = "\n" /\ m.scan.started THEN goes(1, <<>>, [m.scan EXCEPT !.started = FALSE])
       ELSE IF c \in Brackets /\ m.next < Len(s) /\ s[m.next + 1] = c
            THEN goes(2, <<c, c>>, now)
       ELSE IF now.inside THEN goes(1, <<c>>, [now EXCEPT !.inside = c # ">"])
       ELSE IF c \in White /\ Indents(now) THEN goes(1, <<>>, now)
       ELSE IF c = "<" THEN goes(1, <<c>>, TagOpened(now))
       ELSE goes(1, IF now.spaced /\ ~now.started THEN <<" ", c>> ELSE <<c>>, TextGoesOn(now))

\* __tag_source_minify: lines are joined by one space, indentation goes.
Minified(s) ==
    LET loop[k \in 0 .. Len(s)] ==
            IF k = 0 THEN [next |-> 1, written |-> <<>>, scan |-> ScanStart]
            ELSE MinifyTurn(s, loop[k - 1])
    IN loop[Len(s)].written

\* __tokenize: where the first delimiter that is not doubled stands, 0 for nowhere
CutAt(s, delimiter) ==
    LET from[i \in 1 .. Len(s) + 2] ==
            IF i > Len(s) THEN 0
            ELSE IF s[i] # delimiter THEN from[i + 1]
            ELSE IF i < Len(s) /\ s[i + 1] = delimiter THEN from[i + 2]
            ELSE i
    IN from[1]

Before(s, cut) == IF cut = 0 THEN s ELSE SubSeq(s, 1, cut - 1)
After(s, cut) == IF cut = 0 THEN <<>> ELSE SubSeq(s, cut + 1, Len(s))

Occurrences(part, s) ==
    {i \in 1 .. Len(s) : i + Len(part) - 1 <= Len(s) /\ SubSeq(s, i, i + Len(part) - 1) = part}

EndOf(name) == <<"<", "/">> \o name \o <<">">>

Count(s, c) == Cardinality({i \in DOMAIN s : s[i] = c})

\* Line breaks and tabs in the name of a tag are left out of it.
NameOf(s) ==
    LET upTo[i \in 0 .. Len(s)] ==
            IF i = 0 THEN <<>>
            ELSE IF s[i] \in Breaks THEN upTo[i - 1]
            ELSE Append(upTo[i - 1], s[i])
    IN upTo[Len(s)]

TextTag(s) == Tag(<<"text">>, {Stripped(s)}, <<>>)

\* tag_parse, with __tag_parse for what is inside.  The result is the set of the
\* tree, or of the children, and empty when the program returns NULL.
ParsedBy(children, s, name) ==
    IF Count(s, "<") = 2 * Count(Stripped(s), "<") THEN {Tag(name, {Stripped(s)}, <<>>)}
    ELSE {Tag(name, NoText, tags) : tags \in children[Minified(s)]}

\* __tag_parse_tag: all up to the first end tag of that name is inside; a tag whose
\* inside is a syntax error is left out without one.
Contained(children, name, s) ==
    LET ends == Occurrences(EndOf(name), s)
        end == CHOOSE i \in ends : \A j \in ends : i <= j
        inside == ParsedBy(children, SubSeq(s, 1, end - 1), name)
    IN IF ends = {} THEN {<<Tag(name, NoText, <<>>)>> \o tags : tags \in children[s]}
       ELSE {(IF inside = {} THEN <<>> ELSE <<CHOOSE tag \in inside : TRUE>>) \o tags :
               tags \in children[After(s, end + Len(EndOf(name)) - 1)]}

\* A tag of no name ends the loop, a name of white space alone is passed over,
\* and a name without its bracket is the syntax error.
Named(children, s) ==
    LET cut == CutAt(s, ">")
        name == NameOf(Before(s, cut))
    IN CASE s = <<>> \/ cut = 1 -> {<<>>}
         [] s # <<>> /\ cut = 0 -> IF name = <<>> THEN {<<>>} ELSE {}
         [] cut > 1 /\ name = <<>> -> children[After(s, cut)]
         [] cut > 1 /\ name # <<>> -> Contained(children, name, After(s, cut))

\* A turn of the loop of __tag_parse: the text up to the next tag, and the tag
ChildrenBy(children, s) ==
    LET cut == CutAt(s, "<")
        text == IF Before(s, cut) = <<>> THEN <<>> ELSE <<TextTag(Before(s, cut))>>
    IN {text \o tags : tags \in Named(children, After(s, cut))}

\* Every tag takes a character, so that there are fewer of them than these.
Parsed(s, name) ==
    LET children[n \in 0 .. Len(s) + 1] ==
            [rest \in Texts |-> IF n = 0 THEN {} ELSE ChildrenBy(children[n - 1], rest)]
    IN ParsedBy(children[Len(s) + 1], s, name)

-----------------------------------------------------------------------------
(* The tag map *)

\* Names that __tagmap_validate does not look up, on either side
Roots == {<<"match">>, <<"expand">>, <<"text">>}

\* What tagmap_get finds: the kind of tag by its functions, or "none"
Kind(name, side) ==
    CASE side = "match" /\ name \in {<<"enter">>, <<"tab">>} -> "key"
      [] side = "match" /\ name = <<"tcase">> -> "case"
      [] side = "expand" /\ Len(name) = 1 /\ name[1] \in Small -> "char"
      [] side = "expand" /\ name \in {<<"enter">>, <<"tab">>, <<"backspace">>, <<"shift">>,
                                      <<"ctrl">>} -> "press"
      [] OTHER -> "none"

\* The flags: a key stands alone, tcase holds text only and never nothing.
FlagsKept(tag, side) ==
    CASE Kind(tag.name, side) = "key" -> tag.tags = <<>> /\ tag.text = NoText
      [] Kind(tag.name, side) = "case" -> tag.tags = <<>> /\ tag.text # NoText
      [] OTHER -> TRUE

\* tagmap_validate
Valid(top, side) ==
    \A tag \in TagsIn(top) :
      IF tag.name \in Roots THEN tag.name = <<"text">> => tag.tags = <<>>
      ELSE Kind(tag.name, side) # "none" /\ FlagsKept(tag, side)
=============================================================================
