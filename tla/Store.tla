------------------------------- MODULE Store -------------------------------
(***************************************************************************)
(* The text expansions of a running texc: the array data.exptexts of       *)
(* parsed expansions, the SQL table that indexes it, and the save files.   *)
(* Every handler runs under data.mutex, so each is one step.               *)
(***************************************************************************)
EXTENDS Integers, FiniteSets

CONSTANTS
    Matches,    \* match texts, as sources of tags
    Expands,    \* expand texts, as sources of tags
    Groups,     \* group names
    Ids,        \* integers an id can be
    BadSyntax,  \* texts that tag_parse or tagmap_validate refuses
    Quoted,     \* matches and groups with an apostrophe: it ends the SQL string early
    NoFile,     \* groups that no file can be opened for, such as a/b
    Limit,      \* how many integers data_sql_missing_int looks at (99999)
    MaxRowid,   \* bound: rowids above it are not modelled
    SavedFiles  \* the contents the matches directory can have when texc starts

ASSUME StoreAssumption ==
    /\ BadSyntax \subseteq Matches \cup Expands /\ NoFile \subseteq Groups
    /\ Limit \in Nat /\ Limit > 0 /\ MaxRowid \in Nat
    /\ Ids \subseteq Int /\ -1 .. Limit - 1 \subseteq Ids

VARIABLES
    phase,      \* "loading", "serving", "freed", or "crashed"
    slots,      \* data.exptexts, cells 0 .. cap - 1
    cap,        \* data.exptext_cap
    len,        \* data.exptext_len
    rows,       \* the table expandtexts, in insertion order of rowid
    todo,       \* lines of the save files not loaded yet
    files,      \* the save files: for each group file, its lines
    reply,      \* the answer of the last request
    fault       \* what crashed the program, "none" so far

vars == <<phase, slots, cap, len, rows, todo, files, reply, fault>>
array == <<slots, cap, len>>

Line == [at : Nat, match : Matches, expand : Expands, id : Ids, enabled : BOOLEAN]
Row == [rowid : 1 .. MaxRowid, index : Nat, match : Matches, expand : Expands, id : Ids,
        enabled : BOOLEAN, group : Groups]

\* Groups with a save file, and the lines of each file
SaveFiles(f) == DOMAIN f \subseteq Groups /\ \A g \in DOMAIN f : f[g] \subseteq Line

ASSUME SavedFilesAssumption == \A f \in SavedFiles : SaveFiles(f)

Uninit == [state |-> "uninit"]
Null == [state |-> "null"]
Object(match, expand) == [state |-> "live", match |-> match, expand |-> expand]
Slot == {Uninit, Null} \cup {Object(m, e) : m \in Matches, e \in Expands}

Live(i) == slots[i].state = "live"

Answer(op, what, ok) == [op |-> op, what |-> what, ok |-> ok]

-----------------------------------------------------------------------------
Smallest(S) == CHOOSE i \in S : \A j \in S : i <= j

\* Mutant: the largest integer no row holds.
MissingIntHigh(used) ==
    LET free == (0 .. Limit - 1) \ used
    IN IF free = {} THEN -1 ELSE CHOOSE i \in free : \A j \in free : i >= j

\* The smallest integer no row holds in that column, -1 when all are taken.
MissingInt(used) ==
    LET free == (0 .. Limit - 1) \ used
    IN IF free = {} THEN -1 ELSE Smallest(free)

FreeIndex == MissingInt({r.index : r \in rows})
FreeId == MissingInt({r.id : r \in rows})

\* SQLite numbers a row one above the largest rowid.
NextRowid == Smallest({n \in 1 .. MaxRowid + 1 : \A r \in rows : r.rowid < n})

\* Mutant: the array does not grow.
PlaceObjectInside(index, object) ==
    /\ cap' = cap /\ len' = len + 1
    /\ slots' = [i \in 0 .. cap - 1 |-> IF i = index THEN object ELSE slots[i]]

\* Mutant: the new cell is not counted.
PlaceObjectUncounted(index, object) ==
    /\ cap' = IF index >= cap THEN 2 * cap ELSE cap
    /\ slots' = [i \in 0 .. cap' - 1 |-> CASE i = index -> object
                                           [] i # index /\ i < cap -> slots[i]
                                           [] OTHER -> Uninit]
    /\ len' = len

\* __expandtext_add: one doubling makes room, then the cell is overwritten.
PlaceObject(index, object) ==
    /\ cap' = IF index >= cap THEN 2 * cap ELSE cap
    /\ slots' = [i \in 0 .. cap' - 1 |-> CASE i = index -> object
                                           [] i # index /\ i < cap -> slots[i]
                                           [] OTHER -> Uninit]
    /\ len' = len + 1

\* Mutant: the id is no primary key.
InsertRowAnyway(row) == rows' = rows \cup {row}

\* The INSERT of data_sql_add; a taken id only logs an error.
InsertRow(row) ==
    rows' = IF \E r \in rows : r.index = row.index \/ r.id = row.id
            THEN rows ELSE rows \cup {row}

\* expandtext_add once both texts are parsed and an index was found
AddExpandText(match, expand, id, enabled, group) ==
    /\ FreeIndex >= 0 /\ NextRowid <= MaxRowid
    /\ PlaceObject(FreeIndex, Object(match, expand))
    /\ InsertRow([rowid |-> NextRowid, index |-> FreeIndex, match |-> match,
                  expand |-> expand, id |-> id, enabled |-> enabled, group |-> group])

Parses(match, expand) == match \notin BadSyntax /\ expand \notin BadSyntax

GroupsOf(rs) == {r.group : r \in rs}

Lines(rs) ==
    {[at |-> r.rowid, match |-> r.match, expand |-> r.expand, id |-> r.id,
      enabled |-> r.enabled] : r \in rs}

\* What data_io_save_group can write. The group stands in the SELECT as it is:
\* after an apostrophe the rest of it is SQL, which may fail (nothing is
\* written) or select the rows of other groups too.
GroupFiles(rs, g) ==
    IF g \in Quoted THEN {Lines(some) : some \in SUBSET rs}
    ELSE {Lines({r \in rs : r.group = g})}

\* data_io_save: files of groups without rows go, the others are rewritten.
Saves(rs) ==
    {f \in [GroupsOf(rs) -> UNION {GroupFiles(rs, g) : g \in GroupsOf(rs)}] :
        \A g \in GroupsOf(rs) : f[g] \in GroupFiles(rs, g)}

\* Mutant: nothing is saved before texc closes.
SaveNothing == files' = files

Save == files' \in Saves(rows')

\* The program dies in the handler; what it had done to the store is lost.
Crash(cause) ==
    /\ phase' = "crashed" /\ fault' = cause
    /\ UNCHANGED <<array, rows, todo, files, reply>>

-----------------------------------------------------------------------------
Init ==
    /\ files \in SavedFiles
    /\ todo = files
    /\ phase = "loading" /\ fault = "none"
    /\ cap = 1 /\ slots = [i \in 0 .. 0 |-> Uninit] /\ len = 0
    /\ rows = {}
    /\ reply = Answer("load", {}, TRUE)

\* One line of one file; files are read one after the other, in any order.
NextLine(g, line) ==
    /\ phase = "loading"
    /\ g \in DOMAIN todo /\ line \in todo[g]
    /\ \A other \in todo[g] : line.at <= other.at
    /\ \A h \in DOMAIN todo \ {g} : todo[h] \in {files[h], {}}

Loading(g, line) == NextLine(g, line) /\ todo' = [todo EXCEPT ![g] = @ \ {line}]

LoadLine(g, line) ==
    /\ Loading(g, line)
    /\ Parses(line.match, line.expand)
    /\ AddExpandText(line.match, line.expand, line.id, line.enabled, g)
    /\ UNCHANGED <<phase, files, reply, fault>>

\* The error of expandtext_add is dropped, and with it the line.
LoadBadLine(g, line) ==
    /\ Loading(g, line)
    /\ ~Parses(line.match, line.expand)
    /\ UNCHANGED <<phase, array, rows, files, reply, fault>>

LoadDone ==
    /\ phase = "loading" /\ \A g \in DOMAIN todo : todo[g] = {}
    /\ phase' = "serving"
    /\ UNCHANGED <<array, rows, todo, files, reply, fault>>

-----------------------------------------------------------------------------
(* POST /add: __handle_add *)

\* The parameters data_sql_row_from_request accepts
Request == [match : Matches, expand : Expands, enabled : BOOLEAN, group : Groups]

\* It returns NULL for a missing text or an enabled that is no boolean, and the
\* handler frees the NULL row; without enabled it compares a NULL string.
AddUnreadable ==
    phase = "serving" /\ Crash("null")

AddRefused(q) ==
    /\ phase = "serving" /\ ~Parses(q.match, q.expand)
    /\ reply' = Answer("add", {}, FALSE)
    /\ UNCHANGED <<phase, array, rows, todo, files, fault>>

Added(q) ==
    /\ phase = "serving" /\ Parses(q.match, q.expand)
    /\ AddExpandText(q.match, q.expand, FreeId, q.enabled, q.group)

Add(q) ==
    /\ Added(q) /\ q.group \notin NoFile
    /\ Save
    /\ reply' = Answer("add", {}, TRUE)
    /\ UNCHANGED <<phase, todo, fault>>

\* data_io_save writes to the FILE that fopen could not open; the groups it
\* reached first are on disk, the new entry and the groups after it are not.
AddUnsaved(q) ==
    /\ phase = "serving" /\ Parses(q.match, q.expand) /\ FreeIndex >= 0
    /\ q.group \in NoFile
    /\ \E reached \in SUBSET GroupsOf(rows), saved \in Saves(rows) :
         files' = [g \in reached \cup (DOMAIN files \cap GroupsOf(rows)) |->
                     IF g \in reached THEN saved[g] ELSE files[g]]
    /\ phase' = "crashed" /\ fault' = "save_file"
    /\ UNCHANGED <<array, rows, todo, reply>>

\* With every index taken the index is -1, and the store goes before the array.
TableFull ==
    /\ FreeIndex = -1
    /\ \/ phase = "serving"
       \/ phase = "loading" /\ \E g \in DOMAIN todo :
            \E line \in todo[g] : NextLine(g, line) /\ Parses(line.match, line.expand)
    /\ Crash("index")

-----------------------------------------------------------------------------
(* POST /remove and /config: __handle_remove, __handle_config *)

Identifiers == ({"match"} \X Matches) \cup ({"group"} \X Groups)
                 \cup ({"id"} \X {n \in Ids : n >= 0})

\* The sets of rows the condition of an identifier can select. An id is digits
\* and a text is spliced in unescaped: after an apostrophe the rest is SQL of
\* its own, taken here to stay a condition, the same in SELECT, DELETE and UPDATE.
Selections(by, v) ==
    IF v \in Quoted THEN SUBSET rows ELSE {{r \in rows : r[by] = v}}

\* When the SELECT does not parse, expandtext_delete returns no error.
RemoveUnparsed(by, v) ==
    /\ phase = "serving" /\ v \in Quoted
    /\ reply' = Answer("remove", {<<by, v>>}, TRUE)
    /\ UNCHANGED <<phase, array, rows, todo, files, fault>>

Remove(by, v) ==
    /\ phase = "serving"
    /\ \E gone \in Selections(by, v) :
         /\ slots' = [i \in 0 .. cap - 1 |-> IF \E r \in gone : r.index = i THEN Null
                                                                       ELSE slots[i]]
         /\ len' = len - Cardinality(gone)
         /\ rows' = rows \ gone
         /\ reply' = Answer("remove", {<<by, v>>}, gone # {})
    /\ Save
    /\ UNCHANGED <<phase, cap, todo, fault>>

\* A value that is not a boolean, none at all (the UPDATE sets nothing and does
\* not parse), an identifier that does not parse or one that selects no row.
ConfigRefused(by, v, enabled) ==
    /\ phase = "serving"
    /\ enabled \notin {"true", "false"} \/ v \in Quoted \/ {} \in Selections(by, v)
    /\ reply' = Answer("config", {<<by, v>>}, FALSE)
    /\ UNCHANGED <<phase, array, rows, todo, files, fault>>

Config(by, v, enabled) ==
    /\ phase = "serving" /\ enabled \in {"true", "false"}
    /\ \E chosen \in Selections(by, v) \ {{}} :
         rows' = (rows \ chosen) \cup {[r EXCEPT !.enabled = (enabled = "true")] : r \in chosen}
    /\ Save
    /\ reply' = Answer("config", {<<by, v>>}, TRUE)
    /\ UNCHANGED <<phase, array, todo, fault>>

-----------------------------------------------------------------------------
(* data_free: counts len live cells from cell 0 on, whatever lies there *)

LiveCells == {j \in 0 .. cap - 1 : Live(j)}

LiveBelow(i) == Cardinality({j \in LiveCells : j < i})

\* The cells the loop reads; cell cap is the first one past the array.
Scanned == {i \in 0 .. cap : LiveBelow(i) < len}

ScanInside == \A i \in Scanned : i < cap /\ slots[i] # Uninit

\* Without saving only when server_init failed, before any request.
SavedOrNot ==
    \/ files' \in Saves(rows)
    \/ reply.op = "load" /\ files' = files

Free ==
    /\ phase = "serving" /\ ScanInside
    /\ phase' = "freed"
    /\ slots' = [i \in 0 .. cap - 1 |-> Null]
    /\ SavedOrNot
    /\ UNCHANGED <<cap, len, rows, todo, reply, fault>>

\* A cell never written, or past the array, is taken for an expansion.
FreeOverrun ==
    /\ phase = "serving" /\ ~ScanInside
    /\ phase' = "crashed" /\ fault' = "free"
    /\ SavedOrNot
    /\ UNCHANGED <<array, rows, todo, reply>>

Done == phase \in {"freed", "crashed"} /\ UNCHANGED vars

Next ==
    \/ \E g \in Groups : g \in DOMAIN todo /\
          \E line \in todo[g] : LoadLine(g, line) \/ LoadBadLine(g, line)
    \/ LoadDone
    \/ \E q \in Request : AddRefused(q) \/ Add(q) \/ AddUnsaved(q)
    \/ AddUnreadable
    \/ TableFull
    \/ \E i \in Identifiers : RemoveUnparsed(i[1], i[2]) \/ Remove(i[1], i[2])
    \/ \E i \in Identifiers, enabled \in {"true", "false", "bad", "absent"} :
          ConfigRefused(i[1], i[2], enabled) \/ Config(i[1], i[2], enabled)
    \/ Free \/ FreeOverrun \/ Done

Spec == Init /\ [][Next]_vars

-----------------------------------------------------------------------------
(* Every variable has its type: the array is as long as its capacity, the      *)
(* capacity is never 0, so that doubling it grows it.                          *)
TypeOK ==
    /\ phase \in {"loading", "serving", "freed", "crashed"}
    /\ cap \in Nat /\ cap > 0 /\ len \in Nat
    /\ slots \in [0 .. cap - 1 -> Slot]
    /\ rows \subseteq Row /\ IsFiniteSet(rows)
    /\ SaveFiles(todo) /\ SaveFiles(files)
    /\ fault \in {"none", "null", "save_file", "index", "free"}

(* keyhook_check_for_match and expandtext_delete follow the index of a row     *)
(* into data.exptexts without looking: the cell is inside the array, and holds *)
(* the parsed expansion of this row and of no other.                           *)
RowsBacked ==
    phase # "freed" =>
      \A r \in rows :
        /\ r.index \in 0 .. cap - 1
        /\ slots[r.index] = Object(r.match, r.expand)
        /\ \A s \in rows : s.index = r.index => s = r

(* The array has no gap of unwritten cells: indexes are handed out smallest    *)
(* first, so a cell is written only after every cell below it.                 *)
NoGap ==
    \A i, j \in 0 .. cap - 1 : i < j /\ slots[j] # Uninit => slots[i] # Uninit

(* data.exptext_len counts every row, and as long as it counts nothing else    *)
(* the loop of data_free stops inside the array, on written cells only.        *)
CountedScanInside ==
    phase \in {"loading", "serving"} =>
      /\ len >= Cardinality(rows)
      /\ len = Cardinality(rows) => ScanInside

\* Each group has a file of exactly its rows, groups with an apostrophe apart.
UpToDate(saved, rs) ==
    /\ DOMAIN saved = {r.group : r \in rs}
    /\ \A g \in DOMAIN saved \ Quoted : saved[g] = Lines({r \in rs : r.group = g})

(* Whatever a request changes in the table is on disk when it is answered,     *)
(* and the disk changes at no other time except to be brought up to date. Not  *)
(* promised of a group with an apostrophe in its name: data_io_save_group      *)
(* splices it into its SELECT (data_io.c:62), so that an entry added to it can *)
(* be answered "Sucess" and be missing from the file, which docs/info.md:22    *)
(* does not say.                                                               *)
ChangesSaved ==
    [][phase = "serving" /\ phase' = "serving" =>
         /\ rows' # rows => UpToDate(files', rows')
         /\ files' # files => UpToDate(files', rows')]_vars

Promise == INSTANCE Catalog WITH
    entries <- {[match |-> r.match, expand |-> r.expand, id |-> r.id,
                 enabled |-> r.enabled, group |-> r.group] : r \in rows}

(* The store keeps the promise of the catalog: ids are never reused while      *)
(* taken, an entry changes in nothing but what was asked, answers tell the     *)
(* truth, and without an apostrophe in the identifier a removal takes exactly  *)
(* what it names. With one, expandtext.c:91-97 and 158-165 splice it into the  *)
(* SQL, and Catalog promises no more than that the answer tells whether        *)
(* anything was selected; of a removal that does not parse not even that.      *)
KeepsPromise == Promise!CatalogSpec
=============================================================================
