------------------------------ MODULE Matcher ------------------------------
(***************************************************************************)
(* What is done with the trees of tags: a match is looked for at the end   *)
(* of the key buffer whenever a key is typed, first by its last character  *)
(* through the query, then by a walk of its tree from right to left; an    *)
(* expansion is the keys that a walk of its tree presses.                  *)
(***************************************************************************)
EXTENDS KeyBuffer, Tags, FiniteSets

CONSTANTS
    SmallOf,    \* for each capital letter of Chars, its small letter
    Sources,    \* source texts a client sends
    Phrases     \* what a user may mean by one: a sequence of tags

ASSUME MatcherAssumption ==
    /\ DOMAIN SmallOf \subseteq Chars
    /\ Sources \subseteq Texts /\ Phrases \subseteq Seq(Leaves)

VARIABLES
    source,     \* the source text of the match or the expansion, once one is there
    meant,      \* the phrase it was written for, if any
    tree,       \* its tree, in a set that is empty before it is loaded
    initials,   \* the column __match_init
    found,      \* what the check after the last key came to, in a set empty without one
    typing,     \* what expand_text did, in a set empty before it
    fault       \* what crashed the program, "none" so far

vars == <<kb, source, meant, tree, initials, found, typing, fault>>
rule == <<source, meant, tree, initials, typing>>

The(S) == CHOOSE x \in S : TRUE

Letters == DOMAIN SmallOf \cup {SmallOf[c] : c \in DOMAIN SmallOf}
LowerOf(c) == IF c \in DOMAIN SmallOf THEN SmallOf[c] ELSE c
BothCases(c) == {d \in Letters \cup {c} : LowerOf(d) = LowerOf(c)}

\* __ENTER_CHARACTER and "\t"
KeyChar(name) == IF name = <<"enter">> THEN "\n" ELSE "\t"

-----------------------------------------------------------------------------
(* The last character of a match *)

MatchRoot(name) == name \in {<<"match">>, <<"text">>}

\* Mutant: the last character is taken as it is written.
StartsOfWritten(c, sensitive) == {c}

StartsOf(c, sensitive) == IF sensitive \/ c \notin Letters THEN {c} ELSE BothCases(c)

Initializer(why, chars) == [fault |-> why, chars |-> chars]

\* __match_get_initializer.  A name without functions is a call of NULL; the last
\* character of an empty text is the byte before it, which is 0 or not ours to
\* read; the last of no tags is a stray pointer.
InitializersBy(inside, tag, sensitive) ==
    LET kind == Kind(tag.name, "match")
        now == IF kind = "case" THEN ~sensitive ELSE sensitive
    IN CASE kind = "key" -> {Initializer("none", {KeyChar(tag.name)})}
         [] kind = "none" /\ ~MatchRoot(tag.name) -> {Initializer("null_tag", {})}
         [] kind # "key" /\ (kind = "none" => MatchRoot(tag.name)) ->
              IF tag.text = NoText
              THEN IF tag.tags = <<>> THEN {Initializer("empty", {})}
                   ELSE inside[Last(tag.tags)][now]
              ELSE IF The(tag.text) = <<>> THEN {Initializer(f, {}) : f \in {"none", "empty"}}
                   ELSE {Initializer("none", StartsOf(Last(The(tag.text)), now))}

InitializersOf(top, sensitive) ==
    LET of[n \in 0 .. Nesting] ==
            [tag \in Trees[n] |-> [now \in BOOLEAN |-> InitializersBy(of[n - 1], tag, now)]]
    IN of[Nesting][top][sensitive]

-----------------------------------------------------------------------------
(* The walk of a match *)

WalkStates ==
    [ok : BOOLEAN, null : BOOLEAN, cursor : Int, undoable : BOOLEAN, sensitive : BOOLEAN]

Settings(size) ==
    [ok |-> TRUE, null |-> FALSE, cursor |-> size, undoable |-> TRUE, sensitive |-> TRUE]

CharEq(c, d, sensitive) == IF sensitive THEN c = d ELSE LowerOf(c) = LowerOf(d)

\* mtag_key_check and mtag_tcase_enter.  A name without functions is a call of NULL.
Entered(name, chars, s) ==
    CASE Kind(name, "match") = "key" ->
           [s EXCEPT !.undoable = FALSE, !.cursor = @ - 1,
                     !.ok = s.cursor > 0 /\ chars[s.cursor] = KeyChar(name)]
      [] Kind(name, "match") = "case" -> [s EXCEPT !.sensitive = ~@]
      [] Kind(name, "match") = "none" -> [s EXCEPT !.ok = FALSE, !.null = TRUE]

\* Mutant: the case stays ignored left of the tag.
ExitedIgnoring(name, s) == s

\* mtag_tcase_exit
Exited(name, s) == IF Kind(name, "match") = "case" THEN [s EXCEPT !.sensitive = ~@] ELSE s

\* Where a text does not match nobody reads the cursor.
TextWalk(text, chars, s) ==
    [s EXCEPT !.cursor = @ - Len(text),
              !.ok = /\ s.cursor >= Len(text)
                     /\ \A i \in 1 .. Len(text) :
                          CharEq(text[i], chars[s.cursor - Len(text) + i], s.sensitive)]

\* The tags in a tag, from the right, as long as they match
TagsWalk(walk, tags, s) ==
    LET back[k \in 0 .. Len(tags)] ==
            IF k = 0 THEN s
            ELSE LET w == back[k - 1]
                 IN IF w.ok THEN walk[tags[Len(tags) - k + 1]][w] ELSE w
    IN back[Len(tags)]

WalkBy(walk, tag, chars, s) ==
    LET root == MatchRoot(tag.name)
        entered == IF root THEN s ELSE Entered(tag.name, chars, s)
        inner == IF tag.text # NoText THEN TextWalk(The(tag.text), chars, entered)
                 ELSE TagsWalk(walk, tag.tags, entered)
    IN IF ~entered.ok THEN entered
       ELSE IF root \/ ~inner.ok THEN inner
       ELSE Exited(tag.name, inner)

\* __match_text
TagWalk(top, chars, settings) ==
    LET walk[n \in 0 .. Nesting] ==
            [tag \in Trees[n] |-> [s \in WalkStates |-> WalkBy(walk[n - 1], tag, chars, s)]]
    IN walk[Nesting][top][settings]

\* keyhook_check_for_match for this match: the query compares the character that
\* is last in the buffer.
Checked(chars) ==
    {TagWalk(t, chars, Settings(Len(chars))) : t \in {x \in tree : Last(chars) \in initials}}

-----------------------------------------------------------------------------
(* The walk of an expansion *)

Stroke(does, key) == [does |-> does, key |-> key]
Typing(strokes, counted, undoable) ==
    [strokes |-> strokes, counted |-> counted, undoable |-> undoable]

\* keyboard_nomod_type_string
TypeString(text) == [i \in 1 .. Len(text) |-> Stroke("type", <<text[i]>>)]

\* Mutant: the key of a one-character tag is not counted.
CountOfPressed(kind) == IF kind = "press" THEN 1 ELSE 0

\* etag_press_char and etag_std_press count one.
CountOf(kind) == IF kind \in {"press", "char"} THEN 1 ELSE 0

Pressed(name, kind) == IF kind = "none" THEN <<>> ELSE <<Stroke("down", name)>>

\* Mutant: only the keys of the map are released.
ReleasedOfMap(name, kind) == IF kind = "press" THEN <<Stroke("up", name)>> ELSE <<>>

\* etag_release_char and etag_std_release
Released(name, kind) == IF kind = "none" THEN <<>> ELSE <<Stroke("up", name)>>

TypedThen(first, second) ==
    Typing(first.strokes \o second.strokes, first.counted + second.counted,
           first.undoable /\ second.undoable)

TagsTyped(typed, tags) ==
    LET upTo[k \in 0 .. Len(tags)] ==
            IF k = 0 THEN Typing(<<>>, 0, TRUE) ELSE TypedThen(upTo[k - 1], typed[tags[k]])
    IN upTo[Len(tags)]

\* Text counts where it is its tag's own, not inside the tag of a key.
ExpandedBy(typed, tag) ==
    LET kind == Kind(tag.name, "expand")
        inner == IF tag.text # NoText THEN Typing(TypeString(The(tag.text)), 0, TRUE)
                 ELSE TagsTyped(typed, tag.tags)
    IN IF tag.name \in {<<"expand">>, <<"text">>} /\ tag.text # NoText
       THEN [inner EXCEPT !.counted = Len(The(tag.text))]
       ELSE Typing(Pressed(tag.name, kind) \o inner.strokes \o Released(tag.name, kind),
                   CountOf(kind) + inner.counted, kind # "press" /\ inner.undoable)

\* __expand_text
Expanded(top) ==
    LET typed[n \in 0 .. Nesting] == [tag \in Trees[n] |-> ExpandedBy(typed[n - 1], tag)]
    IN typed[Nesting][top]

-----------------------------------------------------------------------------
(* The actions *)

Escaped(text) ==
    FlattenSeq([i \in 1 .. Len(text) |->
                  IF text[i] \in Brackets THEN <<text[i], text[i]>> ELSE <<text[i]>>])

Opening(name) == <<"<">> \o name \o <<">">>

IsText(tag) == tag.name = <<"text">>

Written(tag) ==
    LET text == IF tag.text = NoText THEN <<>> ELSE Escaped(The(tag.text))
    IN IF IsText(tag) THEN text
       ELSE IF tag.text = NoText THEN Opening(tag.name)
       ELSE Opening(tag.name) \o text \o EndOf(tag.name)

WrittenAs(phrase) == FlattenSeq([i \in 1 .. Len(phrase) |-> Written(phrase[i])])

\* A user writes the text docs/info.md asks for, or any other.
Inputs ==
    {[source |-> s, meant |-> {}] : s \in Sources}
      \cup {[source |-> WrittenAs(p), meant |-> {p}] : p \in Phrases}

Fresh == source = <<>> /\ tree = {} /\ fault = "none"

Receive(input) ==
    /\ Fresh /\ \A side \in {"match", "expand"} : Parsed(input.source, <<side>>) \subseteq Tree
    /\ source' = input.source /\ meant' = input.meant

\* A text that tag_parse or tagmap_validate refuses leaves nothing behind.
Refuse(input, side) ==
    /\ Receive(input)
    /\ ~\E t \in Parsed(input.source, <<side>>) : Valid(t, side)
    /\ UNCHANGED <<kb, tree, initials, found, typing, fault>>

\* __expandtext_new and data_sql_add, as far as the match goes
AddMatch(input) ==
    /\ Receive(input)
    /\ \E t \in Parsed(input.source, <<"match">>) : \E init \in InitializersOf(t, TRUE) :
         /\ Valid(t, "match")
         /\ tree' = {t} /\ initials' = init.chars /\ fault' = init.fault
    /\ UNCHANGED <<kb, found, typing>>

\* expand_text, when the match is there
Expand(input) ==
    /\ Receive(input)
    /\ \E t \in Parsed(input.source, <<"expand">>) :
         Valid(t, "expand") /\ tree' = {t} /\ typing' = {Expanded(t)}
    /\ UNCHANGED <<kb, initials, found, fault>>

Watching == tree # {} /\ typing = {} /\ fault = "none"

\* keyhook_handle_keydown
Type(c) ==
    /\ Watching /\ Push(c)
    /\ found' = Checked(kb'.chars)
    /\ fault' = IF \E w \in found' : w.null THEN "null_tag" ELSE "none"
    /\ UNCHANGED rule

\* Every other key leaves the buffer unchecked.
Edit ==
    /\ Watching /\ (Pop \/ (\E offset \in {1, -1} : Move(offset)) \/ Clear)
    /\ found' = {}
    /\ UNCHANGED <<rule, fault>>

Init ==
    /\ KbInit /\ source = <<>> /\ meant = {}
    /\ tree = {} /\ initials = {} /\ found = {} /\ typing = {} /\ fault = "none"

Next ==
    \/ \E input \in Inputs : \/ \E side \in {"match", "expand"} : Refuse(input, side)
                             \/ AddMatch(input) \/ Expand(input)
    \/ \E c \in Chars : Type(c)
    \/ Edit

Spec == Init /\ [][Next]_vars

-----------------------------------------------------------------------------
\* The case docs/tags.md gives the text of a tcase tag, and what a tag stands for:
\* the set of characters each key may be
PatternBy(pattern, tag, sensitive) ==
    LET now == IF tag.name = <<"tcase">> THEN ~sensitive ELSE sensitive
        text == The(tag.text)
    IN IF Kind(tag.name, "match") = "key" THEN <<{KeyChar(tag.name)}>>
       ELSE IF tag.text # NoText
            THEN [i \in 1 .. Len(text) |-> IF now THEN {text[i]} ELSE BothCases(text[i])]
       ELSE FlattenSeq([i \in 1 .. Len(tag.tags) |-> pattern[tag.tags[i]][now]])

Pattern(top) ==
    LET pattern[n \in 0 .. Nesting] ==
            [tag \in Trees[n] |-> [now \in BOOLEAN |-> PatternBy(pattern[n - 1], tag, now)]]
    IN pattern[Nesting][top][TRUE]

\* The tag or text that a match ends in
EndOfMatch(top) ==
    LET last[n \in 0 .. Nesting] ==
            [tag \in Trees[n] |->
               IF tag.tags = <<>> THEN tag ELSE last[n - 1][Last(tag.tags)]]
    IN last[Nesting][top]

EndsBuffer(pattern, chars) ==
    /\ Len(pattern) <= Len(chars)
    /\ \A i \in 1 .. Len(pattern) : chars[Len(chars) - Len(pattern) + i] \in pattern[i]

(* After a key the match is found exactly when its pattern, read from left to  *)
(* right as the documents have it, ends the buffer: the query on the last      *)
(* character loses no match, the walk from the right stops at the first        *)
(* character of it, and undo is off exactly with the tag of a key in it.  Left *)
(* out are matches that end in an empty tag, whose last character is a stray   *)
(* byte.                                                                       *)
MatchIsFound ==
    [][\A c \in Chars : \A m \in tree : Type(c) /\ fault' = "none" /\ EndOfMatch(m).text # {<<>>} =>
         LET pattern == Pattern(m)
             ends == EndsBuffer(pattern, kb'.chars)
         IN /\ ends <=> \E w \in found' : w.ok
            /\ ends => \E w \in found' :
                 /\ w.cursor = Size(kb') - Len(pattern)
                 /\ w.undoable <=>
                      \A tag \in TagsIn(m) : tag.name \notin {<<"enter">>, <<"tab">>}]_vars

\* What tag_parse makes of a phrase that was written as docs/info.md says
Intended(phrase, name) ==
    IF Len(phrase) = 1 /\ IsText(phrase[1]) THEN Tag(name, phrase[1].text, <<>>)
    ELSE Tag(name, NoText, phrase)

\* What a phrase is made of: texts, and between them tags with names
WellFormed(phrase) ==
    /\ phrase # <<>>
    /\ \A i \in 1 .. Len(phrase) :
         IF IsText(phrase[i])
         THEN phrase[i].text # NoText /\ (i > 1 => ~IsText(phrase[i - 1]))
         ELSE /\ phrase[i].name # <<>>
              /\ \A j \in 1 .. Len(phrase[i].name) : phrase[i].name[j] \notin Brackets \cup Breaks

\* A tag ends where the first end of its name is, and one without text has none.
EndsItself(phrase, i) ==
    LET tag == phrase[i]
        after == IF tag.text = NoText THEN WrittenAs(SubSeq(phrase, i + 1, Len(phrase)))
                 ELSE Escaped(The(tag.text))
    IN Occurrences(EndOf(tag.name), after) = {}

\* White space is kept after something else in its text, a line break never.
KeepsSpaces(text) ==
    \A j \in 1 .. Len(text) : text[j] \in White =>
      text[j] # "\n" /\ \E k \in 1 .. j : text[k] \notin White \cup Brackets

\* Next to a tag, white space is read otherwise until something else has been
\* written, and so is a > right after it; a text that holds the end of its own tag
\* ends there.
Readable(phrase) ==
    /\ WellFormed(phrase)
    /\ \A i \in 1 .. Len(phrase) :
         /\ ~IsText(phrase[i]) => EndsItself(phrase, i)
         /\ \A text \in phrase[i].text :
              /\ text # <<>>
              /\ i > 1 \/ ~IsText(phrase[i]) => Head(text) # ">"
              /\ Len(phrase) > 1 \/ ~IsText(phrase[i]) => KeepsSpaces(text)

(* A text written with << for < and >> for > is read as it was meant, next to  *)
(* tags and inside them: escapes, names and the ends of tags do not run into   *)
(* one another.                                                                *)
ReadsAsWritten ==
    \A p \in meant, t \in tree : Readable(p) => t = Intended(p, t.name)

(* The joined lines fit the block of strlen + 1 bytes that holds them: a space *)
(* is only put in where a line break was left out.                             *)
MinifiedFits == Len(Minified(source)) <= Len(source)

\* The keys that are down after a stroke, the last one last
HeldAfter(held, s) ==
    CASE s.does = "type" -> held
      [] s.does = "up" /\ held # <<>> /\ Last(held) = s.key -> Front(held)
      [] OTHER -> Append(held, s.key)

(* The keys of an expansion come up again in reverse order, each after all     *)
(* that it holds: no key stays down when the expansion is typed.               *)
KeysComeUp ==
    \A w \in typing :
      LET held[k \in 0 .. Len(w.strokes)] ==
              IF k = 0 THEN <<>> ELSE HeldAfter(held[k - 1], w.strokes[k])
      IN held[Len(w.strokes)] = <<>>

\* Text stands for itself everywhere in it.
TextCounts(top) ==
    \A tag \in TagsIn(top) : tag.text # NoText => tag.name \in {<<"expand">>, <<"text">>}

(* An expansion that can be undone counts exactly the characters it types,     *)
(* where no text stands inside the tag of a key or of a match.                 *)
CountedIsTyped ==
    \A w \in typing, t \in tree :
      w.undoable /\ TextCounts(t) =>
        w.counted = Cardinality({k \in DOMAIN w.strokes : w.strokes[k].does # "up"})
=============================================================================
