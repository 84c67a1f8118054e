------------------------------ MODULE TextLine ------------------------------
(***************************************************************************)
(* The line of text of the application the user types into: what stands    *)
(* left and right of its caret.  The program is not there to be read; the  *)
(* key buffer has to follow it from the keys alone, and module KeyBuffer   *)
(* is compared with it.                                                    *)
(***************************************************************************)
EXTENDS Integers, Sequences

CONSTANT Chars      \* the characters keys type

VARIABLE line

Blank == [left |-> <<>>, right |-> <<>>]

Whole(l) == l.left \o l.right

Inserted(l, c) == [left |-> Append(l.left, c), right |-> l.right]

Shortened(s) == SubSeq(s, 1, Len(s) - 1)

\* Backspace takes the character left of the caret.
Erased(l) ==
    IF l.left = <<>> THEN l ELSE [left |-> Shortened(l.left), right |-> l.right]

CaretLeft(l) ==
    IF l.left = <<>> THEN l
    ELSE [left |-> Shortened(l.left), right |-> <<l.left[Len(l.left)]>> \o l.right]

CaretRight(l) ==
    IF l.right = <<>> THEN l
    ELSE [left |-> Append(l.left, Head(l.right)), right |-> Tail(l.right)]

Insert(c) == line' = Inserted(line, c)
Erase == line' = Erased(line)
Left == line' = CaretLeft(line)
Right == line' = CaretRight(line)
Leave == line' = Blank

=============================================================================
