------------------------------ MODULE KeyHook ------------------------------
(***************************************************************************)
(* The hook that follows the keys the user presses and presses keys of its *)
(* own to replace a match by its expansion, or to undo it.  Under X both   *)
(* come back to it, in the order the server received them, through one     *)
(* stream of events; the application reads the same stream.  An event for  *)
(* an empty keycode marks where texc's own keys begin and where they end.  *)
(***************************************************************************)
EXTENDS KeyBuffer

CONSTANTS
    BackSpace,      \* the key that erases
    Enter,          \* the character of the return key
    ResetOnEnter,   \* the setting reset_on_enter
    Table,          \* the text expansions, in the order the query returns them
    Removable,      \* those a client may remove while texc runs
    Excursions,     \* what else the user does: "left", "right", "reset"
    MaxHeld,        \* how many keys the user holds down at once
    TypeAhead       \* whether keys are pressed, or repeat, before texc has caught up

ASSUME KeyHookAssumption ==
    /\ BackSpace \notin Chars /\ Enter \in Chars /\ ResetOnEnter \in BOOLEAN
    /\ Table \in Seq([match : Seq(Chars), silent : BOOLEAN, typed : Seq(Chars), counted : Nat,
                      plain : BOOLEAN])
    /\ Removable \subseteq DOMAIN Table
    /\ Excursions \subseteq {"left", "right", "reset"}
    /\ MaxHeld \in Nat \ {0} /\ TypeAhead \in BOOLEAN

VARIABLES
    expanding,  \* keyhook_is_expanding
    tryUndo,    \* keyhook_try_undo
    source,     \* keyhook_last_source: the string, or none for NULL
    expandLen,  \* keyhook_expand_len
    tryExpand,  \* keyhook_try_expand
    settings,   \* keyhook_match_settings
    expandTag,  \* keyhook_expand_tag, as the index in Table of its owner, 0 for NULL
    loaded,     \* indexes of the text expansions the store holds, enabled
    stream,     \* events the server recorded and the hook has not handled
    posts,      \* events the handler still has to send; it returns when all are sent
    text,       \* the line of the application
    held,       \* keys the user holds down
    presses,    \* keys pressed so far
    ideal,      \* the line as a texc without delays would have made it
    astray,     \* whether an undo was asked for that texc's own arrows had taken away
    lost,       \* whether the buffer had to lose track of the line
    fault       \* what crashed the program, "none" so far

undoing == <<tryUndo, source, expandLen>>
matched == <<tryExpand, settings, expandTag>>
user == <<held, presses, ideal, astray, loaded>>
vars == <<kb, expanding, undoing, matched, stream, posts, text, user, lost, fault>>

Line == INSTANCE TextLine WITH line <- text

Keys == Chars \cup {BackSpace}
None == {}

Event(kind, key) == [kind |-> kind, key |-> key]
Toggle == Event("toggle", BackSpace)
Strokes(chars) == [i \in 1 .. Len(chars) |-> Event("down", chars[i])]
Repeated(kind, n) == [i \in 1 .. n |-> Event(kind, BackSpace)]

NoMatch == [cursor |-> 0, undoable |-> FALSE]

Least(S) == CHOOSE i \in S : \A j \in S : i <= j

\* Text expansions whose match ends the given characters
Hits(chars) == {i \in loaded : IsSuffix(Table[i].match, chars)}

\* Mutant: the keys texc types itself can match.
AnyHits(chars) == Hits(chars)

\* Nothing matches while an expansion is typed.
Candidates(chars) == IF expanding THEN {} ELSE Hits(chars)

Undoable(entry) == entry.silent /\ entry.plain

-----------------------------------------------------------------------------
(* Handlers *)

Alive == fault = "none"

Handle(kind) ==
    /\ Alive /\ posts = <<>> /\ stream # <<>> /\ Head(stream).kind = kind
    /\ stream' = Tail(stream)

ResetUndo == source' = None /\ expandLen' = 0

\* keyhook_check_for_match looks at the end of the buffer, wherever the cursor is.
KeyDown ==
    /\ Handle("down") /\ Head(stream).key \in Chars
    /\ LET c == Head(stream).key
           hits == Candidates(Pushed(kb, c).chars)
           resets == ResetOnEnter /\ hits = {} /\ c = Enter /\ kb.cursor # 0
       IN /\ kb' = IF resets THEN Cleared ELSE Pushed(kb, c)
          /\ text' = IF resets THEN Line!Blank ELSE Line!Inserted(text, c)
          /\ IF hits = {} THEN UNCHANGED matched
             ELSE /\ tryExpand' = TRUE
                  /\ expandTag' = Least(hits)
                  /\ settings' = [cursor |-> Size(kb) + 1 - Len(Table[Least(hits)].match),
                                  undoable |-> Table[Least(hits)].silent]
          /\ IF resets \/ ~expanding THEN ResetUndo ELSE UNCHANGED <<source, expandLen>>
          /\ lost' = (lost \/ tryUndo)
    /\ UNCHANGED <<expanding, tryUndo, posts, user, fault>>

\* Mutant: an undo is waited for with nothing to undo.
AlwaysUndoable == ~tryUndo /\ ~expanding

UndoPossible == ~tryUndo /\ source # None /\ ~expanding

\* The first backspace after an expansion waits for its release.
BackSpaceHeld ==
    /\ Handle("down") /\ Head(stream).key = BackSpace
    /\ UndoPossible
    /\ tryUndo' = TRUE
    /\ text' = Line!Erased(text)
    /\ lost' = (lost \/ ~PopFollows(kb))
    /\ UNCHANGED <<kb, expanding, source, expandLen, matched, posts, user, fault>>

\* Mutant: a backspace that waited is forgotten.
PoppedOnce(b) == Popped(b)

MadeUpFor(b) == IF tryUndo THEN Popped(Popped(b)) ELSE Popped(b)

\* A backspace that waited is made up for; then there is nothing left to undo.
BackSpaceDown ==
    /\ Handle("down") /\ Head(stream).key = BackSpace
    /\ ~UndoPossible
    /\ tryUndo' = FALSE
    /\ kb' = MadeUpFor(kb)
    /\ IF tryUndo THEN ResetUndo ELSE UNCHANGED <<source, expandLen>>
    /\ text' = Line!Erased(text)
    /\ lost' = (lost \/ ~PopFollows(kb) \/ (tryUndo /\ ~PopFollows(Popped(kb))))
    /\ UNCHANGED <<expanding, matched, posts, user, fault>>

\* What keyhook_expand_matched deletes: all from the match on, up to what the
\* buffer holds by now
DeleteCount == Size(kb) - settings.cursor
Deleted == SubSeq(kb.chars, settings.cursor + 1, Size(kb))

Expansion ==
    Repeated("right", kb.cursor) \o <<Toggle>> \o Repeated("down", DeleteCount)
      \o Strokes(Table[expandTag].typed) \o <<Toggle>>

\* Mutant: the character the user's own backspace took is deleted again.
RestorationLong(chars, length) ==
    <<Toggle>> \o Repeated("down", length) \o Strokes(chars) \o <<Toggle>>

\* Mutant: the end of an undo is not marked.
RestorationOpen(chars, length) ==
    <<Toggle>> \o Repeated("down", length - 1) \o Strokes(chars)

\* The undo of keyhook_handle_keyup; its own backspace the user has pressed.
Restoration(chars, length) ==
    <<Toggle>> \o Repeated("down", length - 1) \o Strokes(chars) \o <<Toggle>>

\* What keyhook_handle_keyup finds to undo, after the expansion it may have made
Armed == tryExpand /\ settings.undoable /\ Table[expandTag].plain
SourceNow == IF Armed THEN {Deleted} ELSE source
LengthNow == IF Armed THEN Table[expandTag].counted ELSE expandLen

\* A match that lost its buffer is copied with a negative length, and an undo
\* that lost its source types a NULL string.
Sound == (tryExpand => DeleteCount >= 0) /\ (tryUndo => SourceNow # None)

\* The releases of keys that texc itself pressed are left out: they come between
\* the two toggles, where a release is ignored.
KeyUp ==
    /\ Handle("up")
    /\ ~expanding /\ Sound
    /\ posts' = (IF tryExpand THEN Expansion ELSE <<>>)
                  \o (IF tryUndo THEN Restoration(CHOOSE s \in SourceNow : TRUE, LengthNow)
                                 ELSE <<>>)
    /\ kb' = IF tryUndo THEN Popped(kb) ELSE kb
    /\ IF tryUndo THEN ResetUndo ELSE source' = SourceNow /\ expandLen' = LengthNow
    /\ tryExpand' = FALSE /\ tryUndo' = FALSE
    /\ IF tryExpand THEN settings' = NoMatch /\ expandTag' = 0
                    ELSE UNCHANGED <<settings, expandTag>>
    /\ lost' = (lost \/ (tryUndo /\ (tryExpand \/ ~PopFollows(kb))))
    /\ UNCHANGED <<expanding, text, user, fault>>

KeyUpIgnored ==
    /\ Handle("up") /\ expanding
    /\ UNCHANGED <<kb, expanding, undoing, matched, posts, text, user, lost, fault>>

\* The expand tag of a removed text expansion is freed memory: it may still hold
\* the tag, and KeyUp types it, or anything else.
KeyUpCrash ==
    /\ Handle("up") /\ ~expanding
    /\ ~Sound \/ (tryExpand /\ expandTag \notin loaded)
    /\ fault' = "keyup"
    /\ UNCHANGED <<kb, expanding, undoing, matched, posts, text, user, lost>>

\* Mutant: every empty event starts an expansion.
SwitchedOn == TRUE

Switched == ~expanding

ToggleExpanding ==
    /\ Handle("toggle")
    /\ expanding' = Switched
    /\ UNCHANGED <<kb, undoing, matched, posts, text, user, lost, fault>>

\* An arrow that leaves the text typed so far leaves what the buffer knows.
Arrow ==
    /\ \/ /\ Handle("left") /\ kb' = Moved(kb, 1) /\ text' = Line!CaretLeft(text)
          /\ lost' = (lost \/ tryUndo \/ text.left = <<>>)
       \/ /\ Handle("right") /\ kb' = Moved(kb, -1) /\ text' = Line!CaretRight(text)
          /\ lost' = (lost \/ tryUndo \/ text.right = <<>>)
    /\ ResetUndo
    /\ UNCHANGED <<expanding, tryUndo, matched, posts, user, fault>>

\* Clicks, up, down and every key with control: the caret is somewhere else, and
\* the line is the one typed from here on.
Reset ==
    /\ Handle("reset")
    /\ kb' = Cleared /\ text' = Line!Blank /\ ResetUndo
    /\ lost' = tryUndo
    /\ UNCHANGED <<expanding, tryUndo, matched, posts, user, fault>>

\* XTestFakeKeyEvent: the server records the event after those it has.
Post ==
    /\ Alive /\ posts # <<>>
    /\ stream' = Append(stream, Head(posts)) /\ posts' = Tail(posts)
    /\ UNCHANGED <<kb, expanding, undoing, matched, text, user, lost, fault>>

-----------------------------------------------------------------------------
(* The user, and the line the user expects *)

Settled == stream = <<>> /\ posts = <<>>

\* The line, what a backspace brings back in place of how many characters, and
\* whether text stood right of the caret when they were typed
Expected(line, chars, typed, inside) ==
    [line |-> line, source |-> chars, typed |-> typed, inside |-> inside]
Plain(line) == Expected(line, None, 0, FALSE)

\* The match at the end of the line is replaced, the caret goes to the end, and
\* the next key may undo it (docs/info.md:51).
IdealTyped(c) ==
    LET line == Line!Inserted(ideal.line, c)
        whole == Line!Whole(line)
        hits == Hits(whole)
        entry == Table[Least(hits)]
        kept == Len(whole) - Len(entry.match)
    IN CASE hits # {} ->
              Expected([left |-> SubSeq(whole, 1, kept) \o entry.typed, right |-> <<>>],
                       IF Undoable(entry) THEN {entry.match} ELSE None,
                       Len(entry.typed), line.right # <<>>)
         [] hits = {} /\ ResetOnEnter /\ c = Enter /\ line.right # <<>> -> Plain(Line!Blank)
         [] OTHER -> Plain(line)

IdealErased ==
    IF ideal.source = None THEN Plain(Line!Erased(ideal.line))
    ELSE LET left == ideal.line.left
         IN Plain([ideal.line EXCEPT !.left =
                     SubSeq(left, 1, Len(left) - ideal.typed) \o CHOOSE s \in ideal.source : TRUE])

\* The arrows with which texc leaves the line's inside are handled after the
\* release that kept the undo, and free keyhook_last_source: the undo
\* docs/info.md:51 promises does not come.
Refused == ideal.inside /\ ideal.source # None

\* Only a user who waits for texc can say what is expected next.
Expects(next) == ideal' = IF TypeAhead THEN ideal ELSE next

MayPress == Alive /\ presses < MaxKeys /\ (TypeAhead \/ Settled)

Press(key) ==
    /\ MayPress /\ (key \in held => TypeAhead) /\ Cardinality(held \cup {key}) <= MaxHeld
    /\ held' = held \cup {key} /\ presses' = presses + 1
    /\ stream' = Append(stream, Event("down", key))
    /\ Expects(IF key = BackSpace THEN IdealErased ELSE IdealTyped(key))
    /\ astray' = (astray \/ (key = BackSpace /\ Refused))
    /\ UNCHANGED <<kb, expanding, undoing, matched, posts, text, loaded, lost, fault>>

Release(key) ==
    /\ Alive /\ key \in held
    /\ held' = held \ {key}
    /\ stream' = Append(stream, Event("up", key))
    /\ UNCHANGED <<kb, expanding, undoing, matched, posts, text, presses, ideal, astray, loaded,
                   lost, fault>>

Excursion(kind) ==
    /\ MayPress /\ (held = {} \/ MaxHeld > 1)
    /\ presses' = presses + 1
    /\ stream' = Append(stream, Event(kind, BackSpace))
    /\ Expects(Plain(CASE kind = "left" -> Line!CaretLeft(ideal.line)
                        [] kind = "right" -> Line!CaretRight(ideal.line)
                        [] kind = "reset" -> Line!Blank))
    /\ astray' = (astray /\ kind # "reset")
    /\ UNCHANGED <<kb, expanding, undoing, matched, posts, text, held, loaded, lost, fault>>

\* A client removes a text expansion or disables it; data.mutex keeps it out
\* while an expansion is typed.
Unload(i) ==
    /\ Alive /\ posts = <<>> /\ i \in loaded \cap Removable
    /\ loaded' = loaded \ {i}
    /\ UNCHANGED <<kb, expanding, undoing, matched, stream, posts, text, held, presses, ideal,
                   astray, lost, fault>>

Done == (fault # "none" \/ (presses = MaxKeys /\ Settled /\ held = {})) /\ UNCHANGED vars

-----------------------------------------------------------------------------
Init ==
    /\ KbInit /\ text = Line!Blank
    /\ expanding = FALSE
    /\ tryUndo = FALSE /\ source = None /\ expandLen = 0
    /\ tryExpand = FALSE /\ settings = NoMatch /\ expandTag = 0
    /\ loaded = DOMAIN Table
    /\ stream = <<>> /\ posts = <<>>
    /\ held = {} /\ presses = 0 /\ ideal = Plain(Line!Blank) /\ astray = FALSE
    /\ lost = FALSE /\ fault = "none"

Hook ==
    \/ KeyDown \/ BackSpaceHeld \/ BackSpaceDown
    \/ KeyUp \/ KeyUpIgnored \/ KeyUpCrash
    \/ ToggleExpanding \/ Arrow \/ Reset \/ Post

Next ==
    \/ Hook
    \/ \E key \in Keys : Press(key) \/ Release(key)
    \/ \E kind \in Excursions : Excursion(kind)
    \/ \E i \in Removable : Unload(i)
    \/ Done

\* The record context calls the hook for every event, the X server records what
\* is sent to it, and no key is held down for ever.
Fairness == WF_vars(Hook) /\ WF_vars(\E key \in Keys : Release(key))

Spec == Init /\ [][Next]_vars /\ Fairness

-----------------------------------------------------------------------------
Events == [kind : {"down", "up"}, key : Keys]
            \cup [kind : {"toggle", "left", "right", "reset"}, key : {BackSpace}]

(* Every variable has its type.                                                *)
TypeOK ==
    /\ KbTypeOK /\ text \in [left : Seq(Chars), right : Seq(Chars)]
    /\ {expanding, tryUndo, tryExpand, lost, astray} \subseteq BOOLEAN
    /\ source = None \/ \E s \in source : source = {s} /\ s \in Seq(Chars)
    /\ expandLen \in Nat /\ settings.cursor \in Nat /\ settings.undoable \in BOOLEAN
    /\ expandTag \in {0} \cup DOMAIN Table /\ loaded \subseteq DOMAIN Table
    /\ {stream, posts} \subseteq Seq(Events)
    /\ held \subseteq Keys /\ presses \in 0 .. MaxKeys
    /\ fault \in {"none", "keyup"}

\* How many toggles there are among the given events
Toggles(events) == Cardinality({i \in DOMAIN events : events[i] = Toggle})

(* keyhook_is_expanding is TRUE exactly between the two toggles around texc's  *)
(* own keys: however many expansions and undos wait in the stream, and however *)
(* the user's keys fall between them, the flag never comes out inverted.       *)
ExpandingIsBracketed == expanding <=> Toggles(stream \o posts) % 2 = 1

(* The key buffer holds the line the user sees, caret included, whatever keys  *)
(* came from the user and whatever keys from texc; the exceptions are what     *)
(* "lost" names: an arrow past the text typed, a pop next to the left end, and *)
(* keys that come between a backspace and the undo it asks for.                *)
FollowsText == ~lost => text = LineOf(IF tryUndo THEN Popped(kb) ELSE kb)

(* To a user who waits for texc, the keys it presses make of the line what the *)
(* user expects: a match is replaced by its expansion, whole and once, and a   *)
(* backspace right after it brings the match back, as docs/info.md:51 says.    *)
(* The exceptions are what "lost" names, and a backspace after an expansion    *)
(* made with the caret inside the line: that one takes a character where the   *)
(* document promises the match, and until the next click the line is not what  *)
(* was expected.                                                               *)
TextAsIntended ==
    Alive /\ ~TypeAhead /\ Settled /\ held = {} /\ ~lost /\ ~astray => text = ideal.line

(* Releasing a key never copies a match that is gone, or types a string that   *)
(* is NULL: keyhook.h:81 has keyhook_last_source hold the last match for undo. *)
NeverCrashes == fault = "none"

(* An expansion comes to an end: once the hook has seen its first toggle it    *)
(* sees the second, and expands again.                                         *)
ExpandingEnds == expanding ~> (~expanding \/ ~Alive)

(* A match is expanded: keyhook_try_expand does not stay on until some later   *)
(* key that has nothing to do with it.                                         *)
MatchIsExpanded == tryExpand ~> (~tryExpand \/ ~Alive)
=============================================================================
