----------------------------- MODULE MCKeyHook -----------------------------
(* Two expansions: ab for ba, which can be undone, and b with a tab tag for a, *)
(* which cannot.                                                               *)
EXTENDS KeyHook

CONSTANTS a, b, tab, enter

MCTable ==
    << [match |-> <<a, b>>, silent |-> TRUE, typed |-> <<b, a>>, counted |-> 2, plain |-> TRUE],
       [match |-> <<b, tab>>, silent |-> FALSE, typed |-> <<a>>, counted |-> 1, plain |-> TRUE] >>

\* One key matches, so that few keys are enough for expansions to meet.
MCShortTable ==
    << [match |-> <<a>>, silent |-> TRUE, typed |-> <<b>>, counted |-> 1, plain |-> TRUE] >>
============================================================================
