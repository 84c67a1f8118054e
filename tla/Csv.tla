-------------------------------- MODULE Csv --------------------------------
(***************************************************************************)
(* A line of a save file: how data_io.c writes an expansion, and how csv.h *)
(* reads the line and data_sql_row.c takes an expansion from it.           *)
(***************************************************************************)
EXTENDS Text

CONSTANT NumberOf    \* what the words of Numbers are as integers

Quote == "\""

ASSUME CsvAssumption ==
    /\ NumberOf \in [Numbers -> Nat] /\ {"-", Comma, Quote} \cap Numbers = {}
    /\ {"0", "1"} \subseteq Numbers /\ NumberOf["0"] = 0 /\ NumberOf["1"] = 1

WordOf(n) == CHOOSE w \in Numbers : NumberOf[w] = n

Digits(n) == IF n < 0 THEN <<"-", WordOf(-n)>> ELSE <<WordOf(n)>>

\* __expandtext_as_csv and data_io_expandtexts_as_csv: nothing is escaped.
Written(row) ==
    row.match \o <<Comma>> \o row.expand \o <<Comma>> \o Digits(row.id)
      \o <<Comma, IF row.enabled THEN "1" ELSE "0">>

Before == [fields |-> <<>>, field |-> <<>>, begun |-> FALSE, quoted |-> FALSE, doubled |-> FALSE]

Separates(state, c) == c = Comma /\ ~state.quoted

\* A character in the loop of csv_next_field, and the one behind it: a quote is
\* left out, and turns the quoting unless a second one follows, which is a
\* character.
CharRead(s, c, next) ==
    CASE c = Quote /\ ~s.doubled /\ next = Quote -> [s EXCEPT !.doubled = TRUE, !.begun = TRUE]
      [] c = Quote /\ ~s.doubled /\ next # Quote -> [s EXCEPT !.quoted = ~@, !.begun = TRUE]
      [] Separates(s, c) ->
           [s EXCEPT !.fields = Append(@, s.field), !.field = <<>>, !.begun = FALSE]
      [] OTHER -> [s EXCEPT !.field = Append(@, c), !.begun = TRUE, !.doubled = FALSE]

\* The loop over a line, from field to field
FieldsOf(line) ==
    LET state[i \in 0 .. Len(line)] ==
            IF i = 0 THEN Before
            ELSE CharRead(state[i - 1], line[i], IF i < Len(line) THEN line[i + 1] ELSE "")
        end == state[Len(line)]
    IN IF end.begun THEN Append(end.fields, end.field) ELSE end.fields

\* atoi: the number a text begins with, 0 without
Atoi(text) ==
    CASE text # <<>> /\ text[1] \in Numbers -> NumberOf[text[1]]
      [] Len(text) > 1 /\ text[1] = "-" /\ text[2] \in Numbers -> -NumberOf[text[2]]
      [] OTHER -> 0

\* csv_read gives a line the four fields of the header: what is too much is left
\* out, and data_sql_row_from_csv copies a string for each, there or not.
Readable(line) == Len(FieldsOf(line)) >= 4

\* data_sql_row_from_csv
RowOf(line) ==
    LET f == FieldsOf(line)
    IN [match |-> f[1], expand |-> f[2], id |-> Atoi(f[3]), enabled |-> Atoi(f[4]) # 0]
============================================================================
