----------------------------- MODULE KeyBuffer -----------------------------
(***************************************************************************)
(* texc's own copy of what was typed: keybuffer[0 .. keybuffer_size - 1],  *)
(* and keybuffer_cursor, how many of its characters are right of the caret.*)
(***************************************************************************)
EXTENDS Integers, Sequences, SequencesExt

CONSTANTS
    Chars,      \* the characters keys type
    MaxKeys     \* bound: characters in the buffer (in KeyHook, keys the user presses)

ASSUME KeyBufferAssumption == MaxKeys \in Nat

VARIABLE kb     \* [chars, cursor]

Size(b) == Len(b.chars)

Cleared == [chars |-> <<>>, cursor |-> 0]

\* Mutant: the character goes to the end whatever the cursor.
PushedAtEnd(b, c) == [b EXCEPT !.chars = Append(@, c)]

\* Where keybuffer_push writes, computed in size_t
PushIndex(b) == Size(b) - b.cursor

\* The cursor characters after the caret move up by one.
Pushed(b, c) == [b EXCEPT !.chars = InsertAt(@, PushIndex(b) + 1, c)]

\* Where keybuffer_pop deletes.  With nothing left of the caret rindex is -1,
\* the loop compares it as a size_t, and the last character goes.
PopIndex(b) == IF b.cursor = Size(b) THEN Size(b) ELSE Size(b) - b.cursor

\* Mutant: the cursor is left above the new size.
PopCursorKept(b) == b.cursor

\* A cursor at or above the new size is put one below it.
PopCursor(b) ==
    LET size == Size(b) - 1
    IN IF b.cursor < size THEN b.cursor ELSE IF size = 0 THEN 0 ELSE size - 1

Popped(b) ==
    IF b.chars = <<>> THEN b
    ELSE [chars |-> RemoveAt(b.chars, PopIndex(b)), cursor |-> PopCursor(b)]

\* keybuffer_cursor_move: a move past either end is ignored.
Moved(b, offset) ==
    IF b.cursor + offset \in 0 .. Size(b) THEN [b EXCEPT !.cursor = @ + offset] ELSE b

-----------------------------------------------------------------------------
KbInit == kb = Cleared

Push(c) == Size(kb) < MaxKeys /\ kb' = Pushed(kb, c)
Pop == kb' = Popped(kb)
Move(offset) == kb' = Moved(kb, offset)
Clear == kb' = Cleared

KbNext == (\E c \in Chars : Push(c)) \/ Pop \/ (\E offset \in {1, -1} : Move(offset)) \/ Clear

KbSpec == KbInit /\ [][KbNext]_kb

-----------------------------------------------------------------------------
(* The caret of the buffer lies on it: the cursor never exceeds the size.      *)
KbTypeOK ==
    /\ kb = [chars |-> kb.chars, cursor |-> kb.cursor]
    /\ kb.chars \in Seq(Chars) /\ kb.cursor \in 0 .. Size(kb)

\* What the buffer takes the line to be
LineOf(b) ==
    [left |-> SubSeq(b.chars, 1, Size(b) - b.cursor),
     right |-> SubSeq(b.chars, Size(b) - b.cursor + 1, Size(b))]

Typed == INSTANCE TextLine WITH line <- LineOf(kb)

\* Where keybuffer_pop takes the character before the caret and leaves the caret there
PopFollows(b) == b.cursor = 0 \/ b.cursor + 1 < Size(b)

(* Key by key the buffer does what the line does: a push inserts at the caret, *)
(* the arrows carry one character across it and stop at both ends, and a pop   *)
(* is a backspace wherever the caret is at the end or has two characters or    *)
(* more on its left.                                                           *)
FollowsLine ==
    [][/\ \A c \in Chars : Push(c) => Typed!Insert(c)
       /\ Pop /\ PopFollows(kb) => Typed!Erase
       /\ Move(1) => Typed!Left
       /\ Move(-1) => Typed!Right
       /\ Clear => Typed!Leave]_kb
=============================================================================
