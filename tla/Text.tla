-------------------------------- MODULE Text --------------------------------
(***************************************************************************)
(* Text as the command line, the requests and the save files see it: a     *)
(* sequence of lexemes.  A lexeme is a character that means something to   *)
(* one of them, or a word of letters and digits.                           *)
(***************************************************************************)
EXTENDS Integers, Sequences, FiniteSets, SequencesExt

CONSTANT Numbers     \* the words that are written with digits alone

Space == " "
Comma == ","

Least(S) == CHOOSE k \in S : \A l \in S : k <= l

\* The numbers of a set from the least on
Ordered(S) == [n \in 1 .. Cardinality(S) |-> CHOOSE i \in S : Cardinality({j \in S : j <= i}) = n]

\* What stands at some places of a list, in its order
InOrder(places, list) == [n \in DOMAIN Ordered(places) |-> list[Ordered(places)[n]]]

\* What strtok_r finds between delimiters, one after the other (external: empty
\* tokens are no tokens)
Tokens(text, delimiter) ==
    LET begins == {i \in DOMAIN text : text[i] # delimiter /\ (i > 1 => text[i - 1] = delimiter)}
        end(i) == Least({j \in i .. Len(text) : j < Len(text) => text[j + 1] = delimiter})
    IN [n \in DOMAIN Ordered(begins) |->
           SubSeq(text, Ordered(begins)[n], end(Ordered(begins)[n]))]

Dashed(text) == text # <<>> /\ Head(text) = "-"

\* str_isnumber: digits, a minus sign before them or not
IsNumber(text) == \E n \in Numbers : text \in {<<n>>, <<"-", n>>}

\* str_isnumber of a text that atoi does not find negative
IsNatural(text) == \E n \in Numbers : text = <<n>> \/ (n = "0" /\ text = <<"-", n>>)
============================================================================
