-------------------------------- MODULE Url --------------------------------
(***************************************************************************)
(* A request on its way: how the client builds a url (url.h), and how the  *)
(* server takes it apart again (http_request.h).                           *)
(***************************************************************************)
EXTENDS Text

BlankLine == "crlf crlf"

CONSTANTS
    EscapeOf,    \* the escape of every character that is neither alphanumeric nor one of - _ . ~
    Unprintable  \* those of them outside 32 .. 126

ASSUME UrlAssumption ==
    /\ {"&", "=", "?", "/", "+"} \subseteq DOMAIN EscapeOf /\ Space \notin DOMAIN EscapeOf
    /\ Unprintable \subseteq DOMAIN EscapeOf
    /\ \A c, d \in DOMAIN EscapeOf : EscapeOf[c] = EscapeOf[d] => c = d
    /\ \A c \in DOMAIN EscapeOf :
          EscapeOf[c] \in STRING \ (DOMAIN EscapeOf \cup {Space, BlankLine})

\* What a text is made of before it is encoded: an escape is characters like any
\* others there, and a blank line is, too.
Characters == {c \in STRING : c # BlankLine /\ \A d \in DOMAIN EscapeOf : EscapeOf[d] # c}

\* What encoding leaves as it is
Words == Characters \ (DOMAIN EscapeOf \cup {Space})

\* Mutant: the character that stands for a space is left as it is.
EncodedLoose(text) ==
    [i \in DOMAIN text |-> CASE text[i] = Space -> "+"
                             [] text[i] \in DOMAIN EscapeOf \ {"+"} -> EscapeOf[text[i]]
                             [] OTHER -> text[i]]

\* url_encode
Encoded(text) ==
    [i \in DOMAIN text |-> CASE text[i] = Space -> "+"
                             [] text[i] \in DOMAIN EscapeOf -> EscapeOf[text[i]]
                             [] OTHER -> text[i]]

\* url_decode: an escape outside 32 .. 126 stands for nothing.
Decoded(text) ==
    LET standsFor(e) == {c \in DOMAIN EscapeOf : EscapeOf[c] = e}
        read == InOrder({i \in DOMAIN text : standsFor(text[i]) \cap Unprintable = {}}, text)
    IN [i \in DOMAIN read |-> CASE read[i] = "+" -> Space
                               [] standsFor(read[i]) # {} -> CHOOSE c \in standsFor(read[i]) : TRUE
                               [] OTHER -> read[i]]

Param(name, value) == [name |-> <<name>>, value |-> value]

\* url_builder_add_param and url_builder_prepare
Built(path, params) ==
    LET url[n \in 0 .. Len(params)] ==
            IF n = 0 THEN path
            ELSE url[n - 1] \o (IF n = 1 THEN <<"?">> ELSE <<"&">>)
                            \o Encoded(params[n].name) \o <<"=">> \o Encoded(params[n].value)
    IN url[Len(params)]

RequestOf(url) == <<"GET", Space>> \o url \o <<Space, "HTTP/1.1", BlankLine>>

-----------------------------------------------------------------------------
Refused == [path |-> <<>>, queries |-> <<>>]

\* The scan of __parse_queries: names and values take turns, escaped.
Scans(query) ==
    LET marks == InOrder({i \in DOMAIN query : query[i] \in DOMAIN EscapeOf \ {"+"}}, query)
    IN \A n \in DOMAIN marks : marks[n] = IF n % 2 = 1 THEN "=" ELSE "&"

\* __parse_queries.  A parameter without name or value takes the one before it
\* away too, and refuses the request when there is none.
Queries(tokens) ==
    LET parts(n) == Tokens(tokens[n], "=")
        taken[n \in 0 .. Len(tokens)] ==
            IF n = 0 THEN {<<>>}
            ELSE IF Len(parts(n)) < 2 THEN {Front(queries) : queries \in taken[n - 1] \ {<<>>}}
            ELSE {Append(queries, [name |-> Decoded(parts(n)[1]), value |-> Decoded(parts(n)[2])]) :
                     queries \in taken[n - 1]}
    IN taken[Len(tokens)]

\* request_parse
Parsed(text) ==
    LET words == Tokens(text, Space)
        parts == Tokens(words[2], "?")
        query == SubSeq(words[2], Len(parts[1]) + 2, Len(words[2]))
        taken == Queries(Tokens(query, "&"))
        ended == \E w \in 3 .. Len(words) : Contains(words[w], BlankLine)
    IN IF ~Contains(text, BlankLine) \/ ~ended \/ parts = <<>> THEN Refused
       ELSE IF Scans(query) /\ taken # {}
            THEN [path |-> Decoded(parts[1]), queries |-> CHOOSE queries \in taken : TRUE]
            ELSE Refused

\* request_get_query: the values the first query of that name has, none or one
Query(request, name) ==
    LET named == {i \in DOMAIN request.queries : request.queries[i].name = <<name>>}
    IN {request.queries[i].value : i \in {j \in named : \A k \in named : j <= k}}
============================================================================
