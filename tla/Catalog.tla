------------------------------ MODULE Catalog ------------------------------
(***************************************************************************)
(* What the store of text expansions promises to its clients, without the  *)
(* array of parsed expansions, the SQL table or the save files: a set of   *)
(* entries with distinct ids, and an answer to each request that says what *)
(* became of the entries it named.  Module Store implements it.  A name    *)
(* with an apostrophe is promised less, as the code splices it into SQL.   *)
(***************************************************************************)
EXTENDS Integers

CONSTANTS
    Matches,    \* match texts, as sources of tags
    Expands,    \* expand texts, as sources of tags
    Groups,     \* group names
    Ids,        \* integers an id can be
    Quoted      \* matches and groups with an apostrophe, which name no definite entries

VARIABLES
    entries,    \* the text expansions
    reply       \* the answer of the last request: what it asked, and how it ended

catalogVars == <<entries, reply>>

Entry == [match : Matches, expand : Expands, id : Ids, enabled : BOOLEAN, group : Groups]

Answer(op, what, ok) == [op |-> op, what |-> what, ok |-> ok]

NoAnswer == Answer("load", {}, TRUE)

Named(by, v) == {e \in entries : e[by] = v}

\* What a request can be taken to mean: the entries of that name, or any at all
\* when there is an apostrophe in it.
Meant(by, v) == IF v \in Quoted THEN SUBSET entries ELSE {Named(by, v)}

CatalogInit == entries = {} /\ reply = NoAnswer

\* An accepted entry joins the others under an id none of them has.
Include(e) ==
    /\ \A f \in entries : f.id # e.id
    /\ entries' = entries \cup {e}

\* Entries of the save files are taken in before the first request.
Recover == reply = NoAnswer /\ UNCHANGED reply /\ \E e \in Entry : Include(e)

Insert == reply' = Answer("add", {}, TRUE) /\ \E e \in Entry : e.id >= 0 /\ Include(e)

Refuse(op, what) == reply' = Answer(op, what, FALSE) /\ UNCHANGED entries

\* Everything the identifier means goes, and the answer says whether that was
\* anything; of one with an apostrophe it may be answered that it is done when
\* nothing was.
Remove(by, v) ==
    \E ok \in BOOLEAN :
        /\ reply' = Answer("remove", {<<by, v>>}, ok)
        /\ \/ \E gone \in Meant(by, v) : ok = (gone # {}) /\ entries' = entries \ gone
           \/ ok /\ v \in Quoted /\ UNCHANGED entries

\* Exactly the entries it means change, at least one, and only in what was asked.
SetEnabled(by, v, on) ==
    /\ reply' = Answer("config", {<<by, v>>}, TRUE)
    /\ \E some \in Meant(by, v) \ {{}} :
         entries' = (entries \ some) \cup {[e EXCEPT !.enabled = on] : e \in some}

CatalogNext ==
    \/ Recover \/ Insert
    \/ Refuse("add", {})
    \/ \E by \in {"match", "group", "id"} : \E v \in Matches \cup Groups \cup Ids :
          Remove(by, v) \/ Refuse("config", {<<by, v>>}) \/ \E on \in BOOLEAN : SetEnabled(by, v, on)

CatalogSpec == CatalogInit /\ [][CatalogNext]_catalogVars
=============================================================================
