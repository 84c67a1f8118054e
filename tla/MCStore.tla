------------------------------ MODULE MCStore ------------------------------
(* A small store: two good texts, one of them with an apostrophe, and up to  *)
(* two indexes, with one more line on disk than indexes.                     *)
EXTENDS Store

CONSTANTS greet, bobs, broken, hello, all, mums, slash

MCMatches == {greet, bobs}
MCExpands == {hello, broken}
MCGroups == {all, mums, slash}
MCIds == -1 .. 1

Saved(at, match, id) ==
    [at |-> at, match |-> match, expand |-> hello, id |-> id, enabled |-> TRUE]

\* What texc can find at start: nothing, a file it wrote itself, or one with a
\* line that does not parse.
CleanFiles ==
    { [g \in {} |-> {}],
      [g \in {all} |-> {Saved(1, greet, 1), Saved(2, bobs, 0)}],
      [g \in {all, mums} |->
         IF g = all THEN {[Saved(1, greet, 0) EXCEPT !.expand = broken]} ELSE {}] }

\* Lines whose match holds a comma come back with the number atoi finds in the
\* expand text as their id: several lines can have the id 0.
ShiftedFiles ==
    { [g \in {all} |-> {Saved(1, greet, 0), Saved(2, bobs, 0)}],
      [g \in {all} |-> {Saved(1, greet, 0), Saved(2, greet, 1), Saved(3, bobs, 1)}] }
AnyFiles == CleanFiles \cup ShiftedFiles
============================================================================
