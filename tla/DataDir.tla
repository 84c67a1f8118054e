------------------------------ MODULE DataDir ------------------------------
(***************************************************************************)
(* The data folder from one run of texc to the next: what a run leaves in  *)
(* settings.ini and in the save file of a group, and what the next one     *)
(* makes of it, with versions of texc that change in between, a user who   *)
(* edits the settings, and kills.  What a kill leaves of the save files is *)
(* in Lifecycle.                                                           *)
(***************************************************************************)
EXTENDS Csv

CONSTANTS
    Versions,   \* versions of texc the user installs
    Valid,      \* for each setting, the values its handler takes
    Invalid,    \* a value no handler takes
    Missing,    \* no value: the line is not there
    Default,    \* settings_default
    Texts,      \* matches and expands the user adds
    Changes     \* bound: how many edits of settings.ini and requests there are

Settings == DOMAIN Valid

ASSUME DataDirAssumption ==
    /\ DOMAIN Valid = {"log_level", "reset_on_enter", "repeat_key_delay"}
    /\ Default \in [Settings -> UNION {Valid[s] : s \in Settings}]
    /\ \A s \in Settings : Default[s] \in Valid[s] /\ {Invalid, Missing} \cap Valid[s] = {}
    /\ {"INFO", "WARN", "ERROR"} \subseteq Valid["log_level"]
    /\ Texts \subseteq Seq(STRING) /\ Changes \in Nat
    /\ \A n \in 0 .. Changes : n < Changes => \E w \in Numbers : NumberOf[w] = n

VARIABLES
    version,    \* the texc that is installed
    at,         \* where the process is, "off" when there is none
    ini,        \* settings.ini: the version and the values in it, or none
    settings,   \* data.settings of the process
    chosen,     \* what the user wants: the last values written by the user, or the defaults
    lines,      \* the save file
    todo,       \* the lines of it that are not loaded yet
    rows,       \* the expansions of the process, in the order they were inserted
    saved,      \* the expansions as they were when they were saved last
    left        \* changes left

vars == <<version, at, ini, settings, chosen, lines, todo, rows, saved, left>>
settingsSide == <<version, ini, settings, chosen>>
rowsSide == <<lines, todo, rows, saved>>

NoFile == {}
IniFile(v, values) == {[version |-> v, value |-> values]}

Nothing == [s \in Settings |-> Missing]

\* Mutant: the defaults are written.
WrittenDefault(values) == [s \in Settings |-> Default[s]]

\* settings_save, __get_log_level: the name of a level is not always the one
\* that is read.
WrittenAs(values) == [values EXCEPT !["log_level"] = IF @ = "WARN" THEN "WARNING" ELSE @]

\* What __handle_ini makes of the values in the file
Read(file) ==
    [s \in Settings |-> IF file.value[s] \in Valid[s] THEN file.value[s] ELSE Default[s]]

-----------------------------------------------------------------------------
(* Between two runs *)

Install(v) ==
    /\ at = "off" /\ v # version
    /\ version' = v
    /\ UNCHANGED <<at, ini, settings, chosen, rowsSide, left>>

\* The user changes a line of the file.
Edit(s, value) ==
    /\ at = "off" /\ left > 0
    /\ \E file \in ini : ini' = {[file EXCEPT !.value[s] = value]} /\ ini # ini'
    /\ chosen' = [chosen EXCEPT ![s] = IF value \in Valid[s] THEN value ELSE Default[s]]
    /\ left' = left - 1
    /\ UNCHANGED <<version, at, settings, rowsSide>>

-----------------------------------------------------------------------------
(* A start: data_init.  A process that is killed while settings.ini is open    *)
(* leaves it empty, because it is written when it is closed.                   *)

Goes(from, to) == at = from /\ at' = to

\* settings.ini is not there.
CreateSettings ==
    /\ Goes("off", "creating") /\ ini = NoFile
    /\ settings' = Default /\ ini' = IniFile(Missing, Nothing)
    /\ UNCHANGED <<version, chosen, rowsSide, left>>

\* settings_load up to the fopen of settings_save: a file without this version is
\* written anew.
LoadSettings ==
    /\ at = "off"
    /\ \E file \in ini :
         /\ settings' = Read(file)
         /\ IF file.version = version THEN at' = "loading" /\ UNCHANGED ini
            ELSE at' = "rewriting" /\ ini' = IniFile(Missing, Nothing)
    /\ UNCHANGED <<version, chosen, rowsSide, left>>

\* settings_save to its fclose
SaveSettings ==
    /\ Goes("creating", "loading") \/ Goes("rewriting", "loading")
    /\ ini' = IniFile(version, WrittenAs(settings))
    /\ UNCHANGED <<version, settings, chosen, rowsSide, left>>

\* csv_read
OpenLines ==
    /\ Goes("loading", "inserting")
    /\ todo' = lines /\ rows' = <<>>
    /\ UNCHANGED <<settingsSide, lines, saved, left>>

\* Mutant: a line whose id is taken takes the place of the one that has it.
InsertedOver(row) == Append(SelectSeq(rows, LAMBDA r : r.id # row.id), row)

\* An id that is taken makes the INSERT fail, which is logged.
Inserted(row) == IF \E i \in DOMAIN rows : rows[i].id = row.id THEN rows ELSE Append(rows, row)

\* __load_csv_table, line by line; a field that is not there is copied all the same.
LoadLine ==
    /\ at = "inserting" /\ todo # <<>>
    /\ IF Readable(Head(todo))
       THEN rows' = Inserted(RowOf(Head(todo))) /\ todo' = Tail(todo) /\ UNCHANGED at
       ELSE at' = "crashed" /\ UNCHANGED <<rows, todo>>
    /\ UNCHANGED <<settingsSide, lines, saved, left>>

Loaded ==
    /\ Goes("inserting", "loaded") /\ todo = <<>>
    /\ UNCHANGED <<settingsSide, rowsSide, left>>

-----------------------------------------------------------------------------
(* A texc that runs *)

Running == at \in {"loaded", "changed"}

FreeId == CHOOSE n \in 0 .. Len(rows) :
              /\ \A i \in DOMAIN rows : rows[i].id # n
              /\ \A m \in 0 .. n - 1 : \E i \in DOMAIN rows : rows[i].id = m

\* data_io_save: the file of the group is written from its rows, and deleted
\* when there are none.
Changed(list) ==
    /\ Running /\ left > 0
    /\ rows' = list /\ saved' = list /\ lines' = [i \in DOMAIN list |-> Written(list[i])]
    /\ at' = "changed" /\ left' = left - 1
    /\ UNCHANGED <<settingsSide, todo>>

Add(match, expand) ==
    Changed(Append(rows, [match |-> match, expand |-> expand, id |-> FreeId, enabled |-> TRUE]))

RemoveRow(i) == Changed(RemoveAt(rows, i))

Disable(i) == rows[i].enabled /\ Changed([rows EXCEPT ![i].enabled = FALSE])

\* data_free saves once more.
Exit ==
    /\ Running /\ at' = "off"
    /\ saved' = rows /\ lines' = [i \in DOMAIN rows |-> Written(rows[i])]
    /\ rows' = <<>>
    /\ UNCHANGED <<settingsSide, todo, left>>

\* A process ends, by a kill or because it has crashed.
Kill ==
    /\ at \notin {"off"} /\ at' = "off"
    /\ rows' = <<>> /\ todo' = <<>>
    /\ chosen' = IF at = "rewriting" THEN Default ELSE chosen
    /\ UNCHANGED <<version, ini, settings, lines, saved, left>>

Init ==
    /\ version \in Versions
    /\ at = "off" /\ ini = NoFile /\ settings = Default /\ chosen = Default
    /\ lines = <<>> /\ todo = <<>> /\ rows = <<>> /\ saved = <<>> /\ left = Changes

Next ==
    \/ \E v \in Versions : Install(v)
    \/ \E s \in Settings : \E value \in Valid[s] \cup {Invalid, Missing} : Edit(s, value)
    \/ CreateSettings \/ LoadSettings \/ SaveSettings \/ OpenLines \/ LoadLine \/ Loaded
    \/ \E match \in Texts, expand \in Texts : Add(match, expand)
    \/ \E i \in DOMAIN rows : RemoveRow(i) \/ Disable(i)
    \/ Exit \/ Kill

Spec == Init /\ [][Next]_vars

-----------------------------------------------------------------------------
Plain(row) == \A t \in {row.match, row.expand} : ~Contains(t, Comma) /\ ~Contains(t, Quote)

\* A line before this one that is read as another expansion with its id
Takes(j, i) ==
    j < i /\ ~Plain(saved[j]) /\ Readable(Written(saved[j]))
    /\ RowOf(Written(saved[j])).id = saved[i].id

(* The damage that an unescaped comma or quote does stays in its line: every   *)
(* expansion without them is there again after a start, with its id and in its *)
(* order, unless a damaged line before it has taken its id; and only a line    *)
(* with a quote can stop texc from starting.                                   *)
PlainRowsSurvive ==
    /\ at = "loaded" =>
         LET kept == {i \in DOMAIN saved : Plain(saved[i]) /\ \A j \in DOMAIN saved : ~Takes(j, i)}
             place(i) == {k \in DOMAIN rows : rows[k] = saved[i]}
         IN /\ \A i \in kept : place(i) # {}
            /\ \A i, j \in kept : i < j => \A k \in place(i), l \in place(j) : k < l
    /\ at = "crashed" =>
         \E i \in DOMAIN saved : Contains(saved[i].match \o saved[i].expand, Quote)

(* The settings in force are those the user has written, each with its default *)
(* where the value is not valid, through every change of the version: a new    *)
(* version keeps them when it writes the file anew.  Left out are WARN, which  *)
(* is written as WARNING and not read again, and a kill while the file is open *)
(* after which the defaults hold.                                              *)
SettingsKept ==
    Running => \A s \in Settings : settings[s] = chosen[s] \/ (s = "log_level" /\ chosen[s] = "WARN")

(* docs/info.md:22: "All text expansions are saved in the local app data       *)
(* folder."  What a run has saved is what the next one has.                    *)
SavedIsLoaded == at # "crashed" /\ (at = "loaded" => rows = saved)
============================================================================
