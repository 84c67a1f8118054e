# A specification of texc

texc expands text: it follows what the user types through a keyboard hook, and
when the end of it matches one of the configured text expansions it deletes
the match and types the expansion in its place.  One process runs the hook and
an HTTP server on localhost; further processes (`texc add`, `texc close`, ...)
are clients of that server.  This directory holds TLA+ modules that model the
program, TLC configurations that check them on small instances, and proofs that
hold for instances of every size.  Paths in this file are relative to the
repository's `src/` unless they start with `docs/`.

## The system

| Component | State it keeps | Operations | Talks to |
|---|---|---|---|
| Expansion store (`expandtext.c`, `texc_data/`) | `data.exptexts`, an array of parsed expansions with a capacity and a count; the SQL table `expandtexts`, whose column `_index` points into the array; `data.mutex` | add, delete, config, list, load, free | save files, tag parser, SQLite; used by API and hook |
| Save files (`texc_data/data_io.c`, `texc_utils/csv.h`) | one CSV file per group in the matches directory | save all groups, delete emptied ones, load all | store |
| Key buffer (`texc_match/keybuffer.c`) | the characters of the line typed so far and the caret's distance from its end | push, pop, move, clear | hook |
| Keyhook (`texc_keyhook/`) | what it waits for (`keyhook_try_expand`, `keyhook_try_undo`), the match, the last source, `keyhook_is_expanding` | key down, key up, empty key, arrows, clicks | X record stream in, XTest out; buffer, matcher, store |
| Matcher (`texc_match/match.c`, `texc_tags/match_tags.h`) | none | does a tag tree match the end of the buffer | hook |
| Typing of expansions (`texc_expand/`, `texc_tags/expand_tags.h`) | none (the X server's modifier state) | type a tag tree, count what it typed | hook |
| Tag parser (`texc_tags/`) | none | tokenize, minify, parse, validate against a tag map | store |
| HTTP server (`texc_http/server.c`, `texc_utils/thread.h`) | listening socket, accept thread, table of ten client threads | accept, compact the table, serve, stop | API |
| HTTP API (`texc_http/server_api.c`) | session token (in `data`) | check the token, dispatch | store, hook (`/close`) |
| Request, response, URL (`texc_utils/http_*.h`, `url.h`) | none | scan, code, decode | server, clients |
| Client and single instance (`texc_http/client.c`, `filelock.h`, `subcmds.c`) | the port file and the lock on it | probe, start, close, request | the other processes |
| Command line (`args.c`, `texc_utils/argparse.c`, `main.c`) | none | read the arguments, run a sub command | client |
| Settings (`settings.c`) | `settings.ini`, `data.settings` | create, load, write anew for another version | store's start, hook |
| Logger, strings, arrays, paths | the log | | all |

What makes it hard:

* *Two views of one thing.*  Array and table must agree about every expansion,
  and nothing checks an index before it is followed; the buffer must agree with
  a line of text texc cannot read.
* *The hook hears itself.*  texc's keys come back through the stream in which
  the user's keys arrive, interleaved with them; a flag flipped by an empty key
  tells them apart.
* *Deferred work.*  A match is found on key down and acted upon on some key up;
  an undo waits likewise.  The state they were decided on may be gone by then.
* *Silent failures.*  An INSERT, a SELECT or an fopen that fails leaves part
  of an operation done.
* *Threads and processes.*  A hook thread, an accept thread and up to ten client
  threads share the store, and stop while requests are under way; several
  processes share a port file.
* *Two keyboards in one.*  While texc types, it lets go of the modifiers the user
  holds and presses them again; the user goes on pressing and releasing them.
* *Text as a protocol.*  A value goes from the command line through an escaped
  url, a connection that may cut it, a scanner and a decoder to the store, and
  through a file that is written without escapes and read with them.

What makes each component correct: the **store** keeps each row backed by its
own live cell, never counts fewer expansions than it has, answers truthfully and
has on disk what it answered; the **buffer** makes the edit the key makes; the
**hook** tells its own keys from the user's, types each expansion whole and
once, undoes what it did and never touches a match that is gone; the
**matcher**, the **typing** and the **parsers** agree with the reading the docs
give of tags, and **typing** leaves the keyboard as the user holds it; the
**command line** and the **requests** carry every value whole and to its place, and
the exit code tells what happened; the **data folder** gives the next start what
this one left; the **server** answers every client and stops without one
running on freed data; there is **one instance** at a time, and `close` ends it.

## The modules

| Module | Models | Composes |
|---|---|---|
| `Catalog` | abstract: what clients are promised of the expansions | |
| `Store` | `expandtext.c`, `data.c`, `data_sql*.c`, `data_io.c`, the add, remove and config handlers | implements `Catalog` |
| `MCStore` | values for `Store`: texts, groups, contents of the matches directory | extends `Store` |
| `StoreProofs` | theorems about `Store`, and that it implements `Catalog` | extends `Store` |
| `TextLine` | abstract: the line of the application and its caret (external) | |
| `KeyBuffer` | `keybuffer.c`, as operators on a buffer and as a system of its own | instances `TextLine` |
| `KeyHook` | `keyhook.c` and the X backend, with the user and the application around it | extends `KeyBuffer`, instances `TextLine` |
| `MCKeyHook` | expansions for `KeyHook` | extends `KeyHook` |
| `KeyHookProofs` | theorems about `KeyBuffer`; about `KeyHook` with any user: flag and buffer; and with a user who waits: the line, and no crash | extends `KeyHook` |
| `Tags` | `tags.c`, `tagmap.c`: from a source text to its validated tree, as functions | |
| `Matcher` | `match.c`, `match_tags.h`, `expand.c`, `expand_tags.h`: what is done with the trees | extends `KeyBuffer` and `Tags` |
| `MCMatcher` | sources and phrases for `Matcher` | extends `Matcher` |
| `MatcherProofs` | theorems about `Matcher` and `Tags`: keys and counts of an expansion, joined lines, matches found, phrases read as they were written | extends `Matcher` |
| `Server` | `server.c`, `thread.h`, the API's dispatch, `/close`, `/list`, the end of `keyhook_raw_run` and of `subcmd_start_server` | |
| `ServerProofs` | theorems about `Server` | extends `Server` |
| `Lifecycle` | `client.c`, `filelock.h`, `server_init` and the end of `server.c`, `subcmds.c`, the file operations of `data_io.c`: several processes | |
| `MCLifecycle` | expansions and requests for `Lifecycle` | extends `Lifecycle` |
| `LifecycleProofs` | theorems about `Lifecycle` | extends `Lifecycle` |
| `Keyboard` | `_keyboard_raw.h`, `keyboard.c`, the modifier tags of `expand_tags.h`, the arrows of `keyhook_expand_matched`: each request to the X server a step, the user's keys in between | |
| `MCKeyboard` | keys and things to type for `Keyboard` | extends `Keyboard` |
| `KeyboardProofs` | theorems about `Keyboard` | extends `Keyboard` |
| `Text` | texts as sequences of lexemes, `strtok_r`, `str_isnumber` | |
| `CommandLine` | `args.c` and `argparse.c`, and the reading the arguments are meant to have | extends `Text` |
| `Url` | `url.h`, `http_request.h`: building, scanning and decoding a request | extends `Text` |
| `Command` | `main.c`, `subcmds.c`, `client_request`, `socket_recv_all`, `__handle_client`, what the handlers of `server_api.c` take from a request and answer, `http_response.h` | extends `CommandLine` and `Url` |
| `MCCommand` | argument lists and calls for `Command` | extends `Command` |
| `CommandProofs` | theorems about `Command`: arguments, request, answer, exit code | extends `Command` |
| `Csv` | `csv.h`, the line written by `data_io.c` and read by `data_sql_row.c` | extends `Text` |
| `DataDir` | `settings.c`, `data_init`, loading and saving of a group, from run to run | extends `Csv` |
| `MCDataDir` | texts and settings for `DataDir` | extends `DataDir` |
| `DataDirProofs` | theorems about `DataDir`: the settings, and what a line of a save file is read as | extends `DataDir` |

### Store

`slots`, `cap`, `len` are `data.exptexts`, `exptext_cap`, `exptext_len`; a cell
is never written ("uninit"), NULL, or holds a parsed expansion.  `rows` is the
SQL table with SQLite's rowid, which decides the order of lines in a save file.
`files` is the matches directory, `todo` what of it is still to load.  Every
handler holds `data.mutex` from its first access to its last, so each is one
action: `Add`, `AddRefused`, `AddUnsaved`, `AddUnreadable`, `Remove`,
`RemoveUnparsed`, `Config`, `ConfigRefused`, `TableFull`; loading is an action
per line (`LoadLine`, `LoadBadLine`, `LoadDone`); `Free` and `FreeOverrun` are
`data_free`.  What the code leaves unchecked stays unchecked: the INSERT that fails on a
taken id (`InsertRow`) after the cell was placed and counted (`PlaceObject`), the
file that cannot be opened (`NoFile`), and the texts with an apostrophe (`Quoted`), which are
spliced into SQL as they are: the condition they end up in may fail to parse
(`RemoveUnparsed`, `ConfigRefused`, an empty file) or select any rows whatever
(`Selections`, `GroupFiles`).  The text is taken to stay one condition that selects the same rows
wherever it is used; what else SQL lets follow an apostrophe (clauses, unions, further
statements) is not modelled.  Texts are model values; parsing is the set `BadSyntax`.

### KeyBuffer and KeyHook

`kb` has the characters of the buffer and its cursor, counted from the end as
in the code.  `PopIndex` and `PopCursor` include the signed/unsigned
comparison of `keybuffer_pop` and its clamp.  In `KeyHook`, `stream` is what
the X server has recorded and the hook has not yet been called with; `posts` is
what the running handler still has to send with XTest.  `Post` appends one
of its keys to the stream, and the user's `Press`, `Release`, `Excursion` append
theirs at any time in between.  The handlers `KeyDown`, `BackSpaceHeld`,
`BackSpaceDown`, `KeyUp`, `KeyUpIgnored`, `ToggleExpanding`, `Arrow`, `Reset`
take the head of the stream when the previous handler has sent everything, since
the record callback does not return before.  `text` is the line the application makes of
the same stream.  `ideal` is the line the user expects: the one a texc
without delays would have produced.  `Unload` is a client removing an expansion
that a pending match still points to; `KeyUp` and `KeyUpCrash` are then both
possible, the outcomes of reading freed memory.  `lost` records that the buffer
cannot know the line any more: an arrow left the text typed since the last reset, a
pop happened next to the left end (the finding below), or keys came between a
backspace and the undo it waits for; a reset takes it back.

### Tags and Matcher

A source is a sequence of lexemes: characters, and words where the code reads a
tag's name.  `Tags` has one operator per function of `tags.c`: `Stripped`,
`Minified` with `MinifyTurn` for a turn of its loop and the locals of the loop in a
record `Scan`, `CutAt` for `__tokenize`, `NameOf` for what `str_strip` leaves of a
name, and `Parsed`, `ChildrenBy`, `Named`, `Contained` for the parser.  `ChildrenBy` is a
turn of its loop; the parser is recursive in the number of turns still to come, which is
less than the number of characters.  The result is the set of the
tree, empty where the code returns NULL.  `Trees` are the trees by their depth, up
to `Nesting`, and what the code does recursively with a tree is a recursive function
over the depth: `Within` (what validation goes through), and in `Matcher` the
functions inside `InitializersOf`, `TagWalk`, `Expanded`.  Each has what it does at
one tag in an operator (`InitializersBy`, `WalkBy`, `ExpandedBy`), to which what it
does at the tags inside is given.  `Kind` is a look-up in the tables of `tagmap.c`,
`Valid` their validation.  `Matcher` takes a source and refuses it (`Refuse`), adds it as a
match (`AddMatch`: parse, validate, compute the column `__match_init`), or
types it as an expansion (`Expand`).  Sources with
deeper trees than `Nesting` are not received.  With a match in place the user types: each
`Type` pushes on the key buffer and does what `keyhook_check_for_match` does,
first the query on the last character, then the walk from right to left
(`TagWalk`).  `Expanded` gives the strokes of an expansion in order and what
was counted.  A look-up that finds nothing is a call of NULL (`fault`).

### Lifecycle

`path`, `content`, `holder`, `fd` are the port file: which inode the path names,
what is written in it, who has locked it.  Starts and clients run the same
`client_prepare`: `NoFile`, `SomeFile`, `TryLock`, `ReleaseLock`, `ReadPort`.  A start
goes on with `Load`, `Listen`, `LockPort`, `WritePort`, or `GiveUp`; a running texc
takes requests (`Serve`), whose save is an action per file operation (`Truncate`,
`Flush`, then `Saved`); it ends by a close request (`CloseRequest`, `Stop`,
a last save), a signal or a kill, with `Unlock`, `Unlink`, `Exit` for the two
halves of `__delete_port_file`, which a signal runs twice.  `promise` says of
each expansion what was last answered; a process killed while it has a file open
makes the promise of that group "open", and nothing else does.

### Keyboard

`down` is what the X server believes is down, `held` what the user's fingers
hold, `caps` and `num` the indicators.  `job` is what is to be typed, an item per
call: a character (`AskState`, `SuspendModifier` for each of the keys in `Order`,
`SetShift`, `StrikeKey`, `UnsetShift`, `RestoreModifier`), the two ends of a
modifier's tag (`PressTag`, `ReleaseTag`), or the arrows struck with num lock off
(`NumLockOff`, `StrikeArrow`, `NumLockBack`).  `keys`, `shifted`, `should` and
`numLock` are the locals of those functions, which is where state goes stale.
The user's `UserPresses`, `UserReleases`, `UserLocksCaps`, `UserLocksNum` come
between any two steps.  `struck` is the last key the application got with what
was down then; `calm` says whether the user kept still from the first question
to the stroke; `loose` are the modifiers that one of the three races below has
touched since the user last pressed or released them.  A character is the key it
is on and its level; `Level` is the keyboard map's part and external.

### CommandLine, Url and Command

A text is a sequence of lexemes (`Text`): a character that means something to one
of the parsers, or a word without any.  `CommandLine` reads an argument per step,
with the guards of `__parse_args` in their order: `ReadPositional`,
`ReadProtected` (after `--`), `ReadHelp`, `ReadFlag`, `ReadUnknown`, `EndParse`.
Beside it stands a reading of the whole line that knows no order
(`WellFormed`, `ValueOf`, `PositionalsOf`).  `Url` has `Encoded` and
`Decoded`, the scan of `__parse_queries` as what it lets through (`Scans`), and
`Queries` for its loop over parameters, which takes the previous one away when one
has no value.  `Command` puts a client and a server thread at the two ends of a
connection: `request` and `response` are channels that deliver a message in
`MaxPieces` pieces cut anywhere between lexemes.  `ClientPeek`/`ClientRead` and
`ServerPeek`/`ServerRead` are the two calls of `recv` in `socket_recv_all`, the
first of which sees up to `Block` bytes and the second reads one less; a message
longer than the buffer therefore takes several rounds, and the end is
recognised by a peek that was read whole.  Either side may find nothing for five
seconds (`ClientTimeout`, `ServerTimeout`).  A handler is a function from the parsed
request to what it asks of the store and what it may answer (`HandleAdd`,
`HandleRemove`, `HandleConfig`, `Handled`); what that does to the expansions is
module `Store`'s subject.  Calls of other programs (`CallApi`) send any path and
parameters.

### Csv and DataDir

`Written` is a line of a save file, `FieldsOf` the loop of `csv_next_field` and
`CharRead` a turn of it, with its quoting, `RowOf` what `data_sql_row_from_csv` makes of the fields.  `DataDir`
follows `settings.ini` and the save file of one group through runs of texc:
`Install` and `Edit` between runs; `CreateSettings` or `LoadSettings`,
`SaveSettings`, `OpenLines`, `LoadLine`, `Loaded` at a start; `Add`, `RemoveRow`,
`Disable` while it runs; `Exit`, or `Kill` at any step.  `saved` is what the
expansions were at the last save, `chosen` what the user has last written for
each setting.

### Server

`client[c]` follows one connection from the kernel's queue through its thread to
its end; `acceptor` is the accept thread in the middle of its loop, with the
indices of the loop that clears the table in place; `main` is the main thread
from the opening of the display through `server_stop` to the exit of the process.
The window between the start of a thread and its entry in the table is there
(`Create`, `Register`), and so is the one in which a thread has not set
its running flag yet.  The cancellation of the accept thread takes effect in
`accept` or in a waiting `pthread_join`, and nobody waits for it: `calm`
remembers whether it was idle.  Using what was freed is a `fault`: a Thread
joined twice ("thread"), the mutex and the table after `data_free` ("data"), the
display before it is opened or after it is closed ("display").  What handlers do under the mutex
is module Store's subject; here they take it and give it back.

## The runs

| Run | Asks | Bounds |
|---|---|---|
| `store` | do array, table, count and files stay consistent under every sequence of loads and requests, and is the catalog implemented | two indexes and ids, three rowids, two matches and three groups, one of each with an apostrophe, one group that cannot be a file; an expansion that does not parse; five initial directories |
| `matcher` | are sources read as they were written, is a match found exactly when it should be, do keys come up and count, is each operation of the buffer the line's | three characters, four in the buffer; 502 sources of up to three pieces, and 314 phrases of text and tags; trees of depth three |
| `keyhook_patient` | does the user get the intended text, no crash, every match expanded | seven keys, one held at a time, the next pressed when texc is idle; clicks and arrows; an undoable and a multi-character expansion |
| `keyhook_hasty` | do the flag and the buffer stay right when keys are typed into a running expansion | three presses, two held, repeats, clicks, arrows, a removal at any time |
| `keyhook_null_undo` | finding: a key between the backspace and its release | six keys, two held |
| `server` | is every client answered, does the table stay exact, does texc stop without using what it freed | three clients, a table of two |
| `lifecycle` | is a running texc found, does a lone start succeed, is what was answered kept, does no port file stay behind, does the probe exclude a second texc | two texcs, two clients, two ports, two groups; any subset of the expansions on disk at first; signals and kills at every step |
| `keyboard` | does the application get the character that was meant, and is every modifier and num lock as the user set it afterwards | two shifts and a control key, each held or not at first; two jobs of up to three items; three keys of the user's at any step |
| `command` | are arguments read as written, does the server do what was meant, do exit code and output tell the truth | 1 293 command lines of up to five words, 63 calls; a buffer of eight, messages in up to two pieces, lists of up to two rows |
| `config_subcommand` | finding: `texc config` sends its request to `/list` | same |
| `data_dir` | are settings kept, and what of the save file survives texts with separators in it | two versions, three settings; four changes; texts with a comma, a quote, both, and neither |
| `saved_is_loaded` | finding: what is saved is not what is loaded | same |

*Properties of the store.*  `RowsBacked`: a row's index always names a live cell
inside the array which holds that row's expansion and no other row's.  `NoGap`:
no unwritten cell lies below a written one, which is why one doubling suffices and
why the scan of `data_free` can be trusted.  `CountedScanInside`: the count covers
the rows, and while it is exact `data_free` stays inside.  `ChangesSaved`:
whatever a request changes is on disk when it is answered, in every group without
an apostrophe in its name.  `KeepsPromise`: refinement of `Catalog`, whose requests
take exactly what they name when there is no apostrophe in it.

*Properties of buffer and hook.*  `FollowsLine`: key by key the buffer edits as
the line does.  `FollowsText`: the same through the whole hook, with texc's own
keys in the stream.  `ExpandingIsBracketed`: the flag is on exactly between
the two empty keys, it never comes out inverted.  `TextAsIntended`: the line is
the one the user expects, with a backspace after an undoable expansion bringing the match
back, until the user asks for an undo that texc's own arrows have taken away (`astray`,
listed below).  `NeverCrashes`, `ExpandingEnds`, `MatchIsExpanded`:
see their comments.

*Properties of parser, matcher and typing.*  `ReadsAsWritten`: a phrase of text and
tags, written with `<<` and `>>` for brackets, is parsed back to itself;
`Readable` names what is not (listed below): a phrase is made of texts and of tags
between them whose names hold no bracket and no line break (`WellFormed`), a tag
ends where it should (`EndsItself`), no text is empty or begins with `>` right after a tag's
bracket, and the white space of a text next to a tag is of the kind that is kept
(`KeepsSpaces`).  `MinifiedFits`: joining lines never
writes past its block.  `MatchIsFound`: the query and the walk from the right
together accept exactly the lines that the match, read from left to right, stands
for, and allow undo exactly without key tags.  `KeysComeUp`: strokes are properly
nested.  `CountedIsTyped`: the number an undo will delete is what was typed.

*Properties of the keyboard.*  `TypedAsMeant`: while the user keeps still, the key
struck, its level and the absence of control, alt and super make the character
the code was called with, whatever was held and whether caps lock was on.
`ModifiersComeBack`: between two items every modifier is down exactly if the user
holds it or an open tag does, and num lock is as the user set it.  It leaves out
`loose` keys: one let go of while texc had suspended it comes back down and
stays; one pressed while texc was about to let go of shift is lost; a modifier
that both the user and a tag hold goes up with the tag.  `ArrowsMove`: arrows are
struck with num lock off.

*Properties of commands and requests.*  `ReadsArguments`: accepted exactly when
well formed, and every option and positional argument is then what stands for it in
the line.  `AskedAsMeant`: no value is cut, swapped or lost on its way to the
handler, whatever it holds, what arrives whole is never called unreadable, and the
server goes on, but for the requests `Fatal` names.  Empty values and the sub command
`config` are left out.
`ExitTellsTruth` and `ShownIsAnswered`: the same for the way back.

*Properties of the data folder.*  `SettingsKept`: through edits, versions and
kills the settings in force are those last written, or the defaults where they
are not valid.  `PlainRowsSurvive`: a separator inside a text damages its own
line, and another one only by taking its id.

*Properties of the life cycle.*  `ProbeExcludes`: no start gets past the probe
while a texc is up and its file is there.  `RunningIsFound`: the file of a texc that is up
stays, holds its own port and token, whatever a killed one left in it before.
`AloneStarts`: no leftover makes a lone start fail.  `AckedIsKept`: closes, signals
and kills lose nothing that was answered, but for the file being written.
`NoStaleFile`: only kills leave a port file.  The exceptions they name are
windows of the code, each needed: without `met`, a texc started while
another one is between unlock and remove loses its file; without `overlap`, a
texc that loaded before another one saved writes the old state back; a probing
client makes a start fail at the lock, or, over a leftover file, report a texc
that does not run.

*Properties of the server.*  `TableExact`: whenever the accept thread is
between clients the table holds exactly the threads started and not joined.
`StopsCleanly`: if the accept thread was idle, every thread is joined once, has
answered, and is gone before `data_free`.  `EveryoneAnswered`, `QuitEnds`: no
client and no close request waits for ever.  What happens when the accept thread
was *not* idle is in the model (faults "thread" and "data" are reachable then).

*Why the bounds are enough.*  With two indexes the array doubles once and the
numbers run out; with capacity 1 → 2, holes at either end, re-use of an index
and of an id, and a table-full all happen.  Files have up to three lines so that one more
is loaded than fits.  Five characters give the buffer every position of caret
against both ends, with two characters on each side.  The pieces of the parser's run are
all the single and doubled brackets, white space, opening and closing tags, names
that are no tags, and every pair of them and tag around each, which is every
local state of the scanners against every next one.  Their trees need the depth of
three, and none is deeper (`NothingIsDeeper` of `MCMatcher`).  A match, its expansion,
its undo and a following key take five keys of the patient user; seven let a
second expansion meet the first.  The hasty user's one-key match lets
two expansions be queued with three presses.  Three clients fill a table of two
and make the accept thread clear it with the threads in every pair of states,
running below ended and ended below running.  Two texcs meet in every pair
of steps of start, service and end, and one that was killed is followed by
another; the windows that need a third (a start that passes its probe while a
second one has taken a path just removed) were checked with three texcs and one
client as well, which takes three times as long.  Two items in a row with three
touches of the user let a key be pressed, released and pressed again around one
item, or be lost in one and found in the next.  Requests and lists are shorter
and longer than the eight lexemes of the buffer, equal to it, and one more; every
sub command gets every combination of its flags in either spelling with values before,
after and between them, with and without what is required.  Four changes add
an expansion, remove one that is not the last, and add one whose id is used
again, or edit a setting under a new version and after a kill.

*Fairness.*  `KeyHook` assumes weak fairness of the hook (the X record
context delivers what was recorded, and a handler's XTest calls return) and of
releasing keys (nobody holds a key for ever).  Nothing forces the user to press.
`Server` assumes weak fairness of every thread (the scheduler runs it; `recv`
has a timeout, so a silent client does not hold its thread) and strong fairness
of taking the mutex, which the hook holds only for a moment per key.  Nothing
forces clients to connect, keys to be pressed or a close to be requested.

## Findings

Each of the first three has a run whose counterexample shows it.

1. The sub command `config` is a copy of `list` (`subcmds.c:252`): it asks for the
   table, prints it, exits with 0, and configures nothing.  docs/info.md:43 gives
   it as the way to disable a group.
2. Nothing escapes what is saved (`texc_data/data_io.c:44`; `csv_to_field` is
   never called), but what is loaded is read as CSV.  A comma shifts the columns of
   its line, quotes vanish, and a quote that is left open takes the other fields:
   `strdup(NULL)`, and texc does not start any more until the file is edited.
3. An undo waits for a release (`texc_keyhook/keyhook.c:188`); a key or click in
   between frees the source, and NULL is typed.

The modules have these behaviours too, which the properties of the passing runs
name as their exceptions:

* An apostrophe in an identifier or a group is SQL (`expandtext.c:91-97` and `158-165`,
  `texc_data/data_io.c:62`).  A removal by such a text may be answered "Sucess" with
  nothing removed, or take entries it does not name; an expansion added to such
  a group may be answered "Sucess" and be missing from the file, against
  docs/info.md:22.  `ChangesSaved` says nothing of the files of such groups, and
  `KeepsPromise` not which entries such an identifier selects.

* `data_free` (`texc_data/data.c:115`) counts live cells up to `exptext_len`.
  `expandtext_add` counts an expansion before its INSERT, whose failure on a
  taken id is only logged.  Files with a repeated id, which texc writes itself
  when a match holds a comma, make the loop run past the array (`FreeOverrun`
  of `Store`, reached in the run `store`).
* `keybuffer_pop` (`texc_match/keybuffer.c:80`) moves the cursor although it is
  right when exactly one character is left of it: after `a b ← Backspace` the
  buffer believes the caret is at the end (`PopCursor`).
* What an expansion deletes is computed when a key comes *up*
  (`texc_keyhook/keyhook.c:110`), from a buffer in which other keys may have
  gone down since the match: with two keys held at once the wrong number of
  characters is deleted.  The patient user of `TextAsIntended` never does that.
* An expansion made with text to the right of the caret cannot be undone: the arrows texc
  itself sends to the end of the line (`texc_keyhook/keyhook.c:104`) come back as the
  user's and free the source (`texc_keyhook/keyhook.c:239`), and the backspace takes a
  character away.  docs/info.md:51 excepts only tags that cannot be undone.  The ideal line of
  `KeyHook` has the match come back; `astray` records that the user asked for it,
  and `TextAsIntended` claims nothing from there to the next click.
* An undo sends one backspace less than characters were typed, because the user's own
  has taken one (`texc_keyhook/keyhook.c:195`).  After an undoable expansion that
  types nothing it takes a character that was there before (excluded by
  `PlainCounts` of `KeyHookProofs`).
* A close request served before the record context is enabled
  (`texc_keyhook/_keyhook_raw.h:269`) is answered as done and has no effect.
* `<expand>` is valid inside a match (and `<match>` anywhere), because
  `__tagmap_validate` (`texc_tags/tagmap.c:108`) never looks the root names up; the
  matcher then calls the tag's enter function, which is NULL (`fault` of `Matcher`).
* A parameter without value takes the one before it away
  (`texc_utils/http_request.h:91`): `texc add a b -g ""` sends no `enabled` to
  the server, and `data_sql_row.c:24` compares the NULL it gets.  The same happens to
  any caller of `/add` that leaves `enabled` out or writes `enable`, as docs/api/add.md:15
  has it, with the default true (docs/api/config.md:21 for `/config`).  What is refused for another reason
  is freed through NULL (`server_api.c:62`).  `/config` without it writes one
  byte before its update text (`expandtext.c:152`), and `/list` copies a NULL when a column it
  was asked for has one (`texc_data/data_sql.c:154`).  `Fatal` of `Command` names these
  requests, and `AskedAsMeant` that no other stops the server.
* A request that arrives in two segments is refused after the first with status 504,
  which the client does not take for an error (`subcmds.c:39`): it prints "The
  request format is not correct" and exits with 0.
* The log level WARN is written as WARNING when a new version writes
  `settings.ini` anew (`settings.c:35`), and is then not understood.
* A modifier let go of while texc has suspended it comes back down
  (`texc_expand/_keyboard_raw.h:100`), and stays down until it is struck again.
* A `>` right after a tag is read into a name, white space right after a tag is
  dropped, the end of a tag inside its escaped text ends it, and so does one in the text
  after a tag that was meant to have no end (`Readable`); text
  inside a character tag is typed and not counted (`TextCounts`); a match that
  ends in an empty text reads the byte before it (`EndsEmpty`); `ReadPort` with
  the file just removed hands `strtok_r` an unset pointer.

## What is proved

Everything below holds for every value of the constants that satisfies the named
assumption of the component's module, and of nothing else, unless a hypothesis is
stated.  TLC has checked each inductive invariant on the run of its component
before.

### The store: `StoreProofs`

With no bound on texts, groups, ids, rows, directories or the limit of indexes, from
`StoreAssumption` and `SavedFilesAssumption`:

* `TypeCorrect`, `RowsAreBacked`, `NoGapEver`, `CountedScansInside`: the invariants
  `TypeOK`, `RowsBacked`, `NoGap`, `CountedScanInside`;
* `StoreInvariant`: their strengthening `StoreInv`;
* `PromiseIsKept`: `Store` implements `Catalog` (`KeepsPromise`);
* `ChangesAreSaved`: what a request changes is on disk when it is answered
  (`ChangesSaved`, with its exception of groups with an apostrophe).

None of the first four is inductive alone.  That a new cell lies inside the doubled
array needs that the smallest free index is at most the capacity (`FreeIndexFits`),
which needs every row to be backed; that it leaves no gap needs that all smaller
indexes are taken, by written cells; that `len` stays a natural number after a
removal needs `LiveCounted` (at most `len` cells are live), because a removal
subtracts as many as it empties, one per row, which again is the injectivity in
`RowsBacked` (`RowsHaveCells`).  `StoreInv` is the conjunction of `TypeOK`,
`RowsBacked`, `NoGap` and `LiveCounted`; `NextStoreInv` has a step per action, and
the three actions that change the tables have lemmas of their own
(`AddExpandTextKeepsTables`, `RemoveKeepsTables`, `ConfigKeepsTables`).
`CountedScanInside` then follows by counting.

The refinement maps the rows to what a client is shown of them (`Shown`).  It needs
`PromiseInv` besides: ids are distinct, indexes are below the limit, and nothing is
asked while files are loaded.  The interesting step is an add that is answered as
done: the code looks for a free index and for a free id apart, and only then is the
INSERT sure to succeed.  If an index is free there is an id left (`IdLeft`), because
as many ids as indexes are in use and distinct.  `AddShows`, `LeftIsShown` and
`ConfigShows` state each operation about `Shown`, `SelectedAreMeant` that what a
condition selects is what its identifier can mean, `CatalogSteps` says that they are
the catalog's, `Unshown` that all others stutter, `PromiseStep` puts them together.

### The buffer: first part of `KeyHookProofs`

For any characters and with `MaxKeys` any natural number, from
`KeyBufferAssumption`:

* `KbTypeCorrect`: the caret always lies on the buffer (`KbTypeOK`), and with it the place
  at which `keybuffer_push` inserts (`PushIndex`); the index of `keybuffer_pop` can be -1,
  which `PopIndex` has and the theorem leaves alone;
* `BufferFollowsLine`: `FollowsLine` holds of `KbSpec`, the buffer on its own. (Run
  `matcher` checks it in `Matcher`, whose steps drive the same operators.)

The argument sees a buffer as the two texts its cursor divides it into
(`PartsOfBuffer`, and back `BufferOfParts`).  `PushParts`, `PopParts` and
`MoveParts` say what the index arithmetic of each operation makes of the two,
`AcrossToRight` and `AcrossToLeft` that a character carried over the caret stays in
the text; each conjunct of `FollowsLine` is then one rewriting.  `KbTypeOK` is
inductive as it stands (`Proper` says the same of any buffer), and `PoppedIsProper`
covers the pops `PopFollows` excludes, too.  `PushedLine`, `PoppedLine`,
`MovedLeftLine`, `MovedRightLine` and `ClearedLine` are the same facts for the hook
to use.

### The hook with any user: second part of `KeyHookProofs`

For any table of expansions, any number of keys held, type-ahead or not, and
removals at any time, from `KeyHookAssumption`:

* `TypeCorrect`;
* `ExpandingBracketed`: the flag never comes out inverted, whatever the user types
  into a running expansion (`ExpandingIsBracketed`);
* `FollowsApplication`: where the buffer can know the line, a handled key leaves it
  on it (`FollowsText`).

The inductive invariant of types is `HookShape`: `TypeOK` with `Owned`, a match that
waits has a row of the table behind it.  It has a lemma per handler (`KeyDownShape`,
`BackSpaceShape`, `KeyUpShape`, `ArrowShape`) and one for the steps that only
lengthen the stream (`StreamShape`).  The flag is then a parity: handling an empty
key flips it and takes that key from the stream, and an expansion and an undo send
two (`ExpansionToggles`, `RestorationToggles`), so the flag always agrees with the
number of those to come.  The proofs count the empty keys of sequences: in a
concatenation (`TogglesOfConcat`), behind the head (`TogglesOfTail`), with one more
at the end (`TogglesOfAppend`).  `FollowsText` is inductive over `HookShape` by the
lemmas of the buffer.

### The hook with a user who waits: third part of `KeyHookProofs`

Under `Patient` (the next key is pressed when texc has answered, one key is held at
a time, nothing is removed meanwhile), with any characters and any table:

* `PatientNeverCrashes`: no released source, match or tag is ever used;
* `PatientGetsIntended`, under `PlainCounts` as well: the line is what the user
  expects (`TextAsIntended`), through any number of keys, expansions, undos, arrows
  and clicks.

Both hypotheses are needed.  With two keys held the first is finding 3, whose run
shows the crash.  `PlainCounts` says of every undoable expansion of the table that
it types at least a character and that as many are counted as are typed.  That
they are counted right is `CountIsRight` of `MatcherProofs`, about the code that makes
those numbers; the expansion that types nothing is in the list of findings.

The line changes long after it is decided what it will be: at a release texc sends
arrows, an empty key, backspaces, characters and another empty key, one at a time,
and each comes back through the stream before the line and the buffer follow.  So
the invariant goes through the six stages from a key to the next: the key is struck
(`StruckNow`), handled and still down (`TakenNow`), or an arrow or click is on its
way (`AwayNow`); texc's arrows are on their way (`MarkedNow`), then its keys
(`TypingNow`); nothing is (`RestingNow`).  A stage says what exactly is still to
come (`Coming`, one of `Marking` and `Erasing`) and what the line will be then:
`After` the key, what is `Due` at the release, or the present line with its end
`Replaced`.  `ErasedPart`, `TypedPart`, `ArrowPart` and `NothingLeft` are the single
steps of the replacement; `MarkedStep` and `TypingStep` use them for the handlers,
`TakenIsSound` for what a release decides.  That the buffer is the line at the
moment of decision is `FollowsApplication`; that a match lies at the end of the line
is `HitFacts`; that a pending undo never reaches past the left end is `IdealFits`.
What is said of the line depends on `Sure` (not `lost`, and `PlainCounts`), what is
said of the stages does not, so that `PatientNeverCrashes` asks nothing of the
table.

### The keyboard: `KeyboardProofs`

For any modifiers in any order of suspension, any characters and jobs, and however
often the user touches a key in between, from `KeyboardAssumption`:

* `TypeCorrect`, `ModifiersReturn` (`ModifiersComeBack`), `CharactersArrive`
  (`TypedAsMeant`), `ArrowsArrive` (`ArrowsMove`).

`ModifiersComeBack` is about the time between two items; its inductive form `Owed`
says for every step of an item how each modifier stands: one that texc has suspended
is meant to be down, one that it has not is as it is meant to be, except left shift
while texc itself holds it, and one it has come to again is down.  `ShiftUp` says that
a left shift that was up when texc came to it stays up or is loose; `NumOwed` is the same for
num lock, in one line.  `Prepared` says what texc may rely on at the stroke if the
user keeps still; `OwnLevel` gives the level of the character from it.

### The life cycle: `LifecycleProofs`

For any finite sets of texcs and clients, any expansions and groups, from
`LifecycleAssumption`:

* `TypeCorrect`, `RunningFound` (`RunningIsFound`), `NoneStale` (`NoStaleFile`),
  `ProbesExclude` (the action property `ProbeExcludes`), `NoneAloneRefused`
  (`AloneStarts`), `AnsweredIsKept` (`AckedIsKept`).

`ShapeInv` adds to the types that locks are held by those who have the file open
(`LocksHeld`), that a listener is a texc that has come so far (`ListenersOpen`), and
what a save is about (`SavesUp`, `SavesFor`).  Each of its parts has one lemma over
all actions (`NextFileShape`, `NextNetShape`, `NextStoreShape`).  The other
invariants are proved from what a step may do rather than from the thirty actions
again: `PcCaused`, `FileCaused` and `StoreCaused` say who can have moved a process,
the file, or the tables, and why (`NextCaused`, `NextFileCaused`,
`NextStoreCaused`).  `FileInv` adds `EndingMet` (while one texc ends every other
process there has met it) and `FileKept` (one that has not met another has the file
it locked still at the path, with its own content once it is up), the inductive form
of `RunningIsFound`; `ProbeExcludes` follows from it and from who holds the lock.
`AloneInv` says that a texc nobody has been with has nobody around it.  `AckInv`
adds, for as long as no two texcs have overlapped, that one at most is past its
probe (`OnePast`), that its table agrees with what was answered (`TableAgrees`), and
that a save that is done has the disk agree (`SavesDone`).

### The server: `ServerProofs`

For any set of clients and a table of any size, from `ServerAssumption`:

* `TypeCorrect`, `EveryThreadOnce` (`TableExact`), `StopIsClean` (`StopsCleanly`).

`ServerInv` has a part for each phase: `PlacesInv`, where the accept thread stands
in the loop that clears the table in place, and which client is in its hands;
`TableInv`, that before the stop the threads started and not joined are those in the
table, each once, but for the one about to be registered; `StopInv`, that after a
calm stop they are those from the place `server_stop` has come to on; `NoFault`,
that nothing freed was used.  The loop is the hard part: in the middle of it the
table is what was kept at its start and what is not looked at yet (`InUse`), and
`ScanStep`, `JoinStep` and `ScannedStep` show that no thread is lost between the two
and none is in both.

### From a command line to an exit code: `CommandProofs`

For any arguments and calls, any values with any characters in them, any number of
rows, any buffer of at least two lexemes, and however the network cuts messages:

* `ArgumentsAreRead`: a line is accepted exactly when it is well formed, and read as
  it stands there, whatever is where in it (`ReadsArguments`);
* `AskedIsAsMeant`: the server does what was meant, with every value in its place, or
  nothing, and stops only at the requests of `Fatal` (`AskedAsMeant`, which leaves out
  empty values and the sub command `config`);
* `AnswerIsShown`: what a command prints is the body of the answer from its
  beginning, and all of it when the answer came in one piece (`ShownIsAnswered`);
* `ExitIsTrue`: the exit code tells what was answered (`ExitTellsTruth`).

The assumptions are those of `CommandAssumption` and `UrlAssumption`.  The escapes of
two characters differ and are no characters of a text, which is what `%` and two
hexadecimal digits give once `%` itself is escaped (`EscapeOf`, `Characters`); the
token and the path of a call are words that need no escape (a token is 63 letters and
digits, the paths are those of `server_api.c`); a call of another program names each
parameter once, which no handler expects otherwise.  Arguments are any texts
without a blank line in them.

All four follow from `CommandInv`, a conjunction with a part for each leg of the way
(`CommandStarts`, `CommandStep`).

*The arguments* (`ArgumentsInv`).  `ReadUpTo` says of a place in the line that what is
before it was read as it is meant: every flag before it is of an option and has set
it, no other option is set, and the positional arguments are those before it, in
their order; and that the argument at the place does not belong to the one before
it (`Belongs`), which is where a parser that looks at one argument at a time and a
reading of the whole line could part.  Each action of the parser moves the place and
has a lemma (`PositionalRead`, `FlagRead`, `HelpRead`, `UnknownRead`, `EndRead`); that
a line is refused only when it is ill formed is `RefusedIsIllFormed`, that an accepted one
is not is `AcceptedIsWellFormed`.

*The request* (`ReadShape`, `RequestInv`).  What `url_builder_*` builds `request_parse`
reads back, for any parameters: `EncodedIs` and `DecodedEncoded` are the round trip of
a value, `UrlIs` says that the marks of a built url take turns and that nothing in it
ends a request early, `QueriesAre` and `ParsedIs` that its parameters come out again,
one by one.  They are about loops, and are shown by induction on how far the loop has
come: a set of naturals that is not empty has a least element (`LeastOfNat`, from the
library's well-founded induction), so what holds at first and goes on from each number to the
next holds up to any (`UpTo`), and a loop computes something (`LoopComputes`).
`Tokens`, which `strtok_r` is here, and `InOrder` are given such lemmas by what they do to the
concatenation of two texts (`MoreTokens`, `InOrderJoined`).  `RequestLooked` is for a
request what `Looked` is for an answer.

*What is asked* (`AskedInv`).  `ParametersAre` says what the client sends for a command,
`HandlersAsk` what each handler does with the parameters it finds, `ArgumentsMean` and
`CallMeans` what was meant, `HandlersSurvive` at which requests a handler does not come
back; `AskedIsMeant` puts them together (`ReadIsMeant` for the request as it is read).

*The answer* (`AnswerInv`).  `socket_recv_all` has no length to go by: it takes a
message for complete when the second `recv` has read all that the first one has seen.
`Looked` is what makes that right for a message that comes at once: a client that has
looked has had a piece of it, so that if it came in one piece all of it was seen, up
to the size of the buffer, and a full buffer is never taken for the end because the
second `recv` reads one less.  `AnswerSent` says that nothing is in the channel but the one answer,
`HandlersReply` that an answer is always one of a few words or a table, none of
which contains the blank line, and `BodyOfPart` that the body of what was read is
then a beginning of the answer's body.  `ExitInv` reads the exit code from it: what
arrives of an answer has its status or nothing of it (`StatusRead`).

### The data folder: `DataDirProofs`

For any valid and default values, any versions and any texts, and any number of edits,
requests, runs and kills, from `DataDirAssumption` and `CsvAssumption`:

* `SettingsStay`: `SettingsKept`, with its exception for WARN, the finding above;
* `PlainRowsStay`: `PlainRowsSurvive`, the damage a separator does stays in its line.

The two assumptions say that words of digits are numbers and no signs, that `0` and `1`
are among them, and that there is a word for every id that is given out in the bounded
number of requests.

`SettingsInv` says what may be in the file (`IniShape`), that what it is read as
agrees with what the user chose last or, while it is written anew, that it is the
file without values a kill would leave (`FileAgrees`), and that the running process
agrees with the user (`ProcessAgrees`).  `WrittenIsRead` is the round trip of a
setting through the file.

A line is read by a loop over its characters (`FieldsAreRead`).  As long as there is
no quote it only gathers characters and cuts at commas (`ReadsPlainly`, `RunIsRead`,
`CommaIsRead`), from which three things follow for any expansion: one without commas
and quotes is read as it was written (`PlainIsRead`), whatever stands in a line without
quotes it has its four fields (`QuoteFreeReadable`), and quotes come from the texts
alone (`WrittenQuoteFree`).  What a line is read as can always be written again
(`ReadIsRow`), which is why the argument goes on for any number of runs.

`LinesInv` says of the start under way how many lines are loaded (`LoadedUpTo`): each
row is what one of them is read as, each plain expansion among them whose id was not
taken is there, and in its order.  `IdIsFree` is the step that could fail: when the line
of a plain expansion is loaded no row has its id, because a row with that id would come
from a plain line, whose expansion had an id of its own, or from a damaged one, which
`Takes` names.  That ids are distinct at every save needs that a new expansion gets a
free one, which there is by counting (`FreeIdIs`).

### Parser, matcher and expansions: `MatcherProofs`

For any characters, any letters with two cases, any names of one-character tags, any
sources, any phrases and trees of any depth, from `TagsAssumption` (`Nesting` is a
number, the lexemes that mean something are strings), `MatcherAssumption` (sources are sequences of lexemes, phrases sequences of
tags without tags in them) and `KeyBufferAssumption`:

* `KeysReleased`: an expansion leaves no key down (`KeysComeUp`);
* `CountIsRight`: what is counted for an undo is what was typed (`CountedIsTyped`,
  with its exception `TextCounts`);
* `LinesFit`: joining lines never writes past the block (`MinifiedFits`);
* `MatchFound`: after any key a match is found exactly when what it stands for ends
  the buffer, and the walk then says how long it is and whether it can be undone
  (`MatchIsFound`, with its exception of matches that end in an empty text);
* `PhrasesRead`: a phrase that is written as `docs/info.md` asks for is read as it was
  meant (`ReadsAsWritten`, for what `Readable` says).

*Trees.*  A recursive function over trees is proved about like a loop over their
depth: what holds of trees of no tags and goes on from each depth to the next holds
of all (`UpTo`), and the function is there because each level can be made from the
one below (`LoopComputes`).  `TreesAre` says what a tree of some depth consists of;
`WithinIs`, `ExpandedGoes`, `PatternGoes`, `WalkGoes`, `InitializersGo`, `EndGoes`
give each function its equation, once.  What a sequence of tags comes to is a loop
again, from the left (`TagsTypedIs`, `FlattenIs`) or from the right (`TagsWalkIs`).

*What an expansion types.*  That no key stays down at the end cannot be shown tag by
tag; that strokes bring whatever is held back to itself (`Balanced`) can, since it
holds of both of two texts in a row (`ConcatIsBalanced`) and of strokes with a key
around them (`AroundIsBalanced`).  The count goes the same way, by the strokes that
show (`Downs`): `ExpandedByIs` is one tag, `ExpandedIs` the tree, `TypingInv` carries
both to the state.

*Joined lines.*  The loop writes a space that is not in the source; what makes it fit is
that the space is owed before it is written.  `Joins` is the invariant of the loop: what is
written, and one more if a space is owed (`Owed`), is no longer than what was read.
A space comes to be owed by a line break that is left out (`TurnFits`).

*The walk.*  `Fits` says of a pattern where in the buffer it ends.  `FitsTogether` is the
heart: two patterns in a row fit when the second does and the first does to the left of
it, which is why a walk from the right decides what is read from the left.
`TextWalkIs`, `EnteredIs`, `TagsWalkIs` are the ways through one tag, `WalkByIs` puts
them together for a tag that is valid (`Sound`), with the case it stands in and the
undo it allows (`Free`); `TagWalkIs` is the tree.  Where a name without functions is
called nothing is claimed, as in the property.

*The query.*  It looks at the last character alone, so it must let through every
character the match may end in.  `Covers` says so of a pattern, `QueryIs` of every
valid match that does not end in an empty text.  `MatchInv` keeps the column with its
match, `BufferInv` the caret on the buffer, and `ResultsAre` puts query and walk
together.

*Reading back.*  Every function of the parser goes through a source from one end to the
other; what it does with a source made of two parts is said once, for the first
character or the first two of them (`StrippedIs`, `CutIs`, over `DownComputes` and
`DownAgrees`: two such loops that take the same steps compute the same).  From there the
argument goes by what is written.  A text is written a character at a time
(`EscapedMore`); whatever follows it, it is stripped to itself, and the first bracket that
counts is behind it (`TextGoes`).  The opening of a tag begins with a bracket that counts,
and its name ends at the next, if that is not doubled by what follows (`OpeningGoes`).  So the
number of brackets that are not doubled (`Single`) is none for a text and at least one for a
phrase with a tag in it (`TagsAreSingle`), which is the test by which `tag_parse` tells
them apart.  Lines are joined first: `MinifiedStays` shows that what is written for a
readable phrase of more than a text comes out as it went in, because outside of
names the scan stays one of `Open`, and inside one of `InTag`, in both of which the next
character is copied; this is where `KeepsSpaces` is needed.  The end of a tag is the first
one after its text (`FirstEnd`), by `EndsItself` and because the only `<` of an end is its first
character: none begins inside a text and stops behind it.  `TagTurn` and `TextTurn` are the turns of the loop of
`__tag_parse` at a tag and at a text; `ChildrenAre` puts them together from the last tag of
the phrase to the first, with as many turns as are left; `PhraseIsRead` is the phrase,
and `ReadInv` says of the tree in memory that it came from the source.

### What is only model-checked, and why

* `FollowsLine` in `Matcher`: proved of `KbSpec`, whose operators `Matcher` drives.
* `EveryoneAnswered`, `QuitEnds`, `ExpandingEnds`, `MatchIsExpanded`: liveness under
  fairness, which the prover does not do.

## What is left out

Of the modelled parts: the Windows backend; keys without a keysym (which would look
like the empty key); the control key, asked for when an event is handled and not
when it happened; releases of keys texc presses itself (always ignored: they
lie between the empty keys); the text of messages; `/list`, which changes
nothing.
`PROJECT.json` lists every component with what is missing.

Of the parser: `<` and `>` in tag names beyond what the pieces make. `<enter>` in a
match stands for a line feed, which the X backend never delivers for the return key:
the run uses `<tab>`. Of the life cycle: Windows; two texcs that generate the same
token because they start in the same second; part of a file flushed before the rest;
a signal that interrupts `exit`; after a signal the main thread does no more than
finish a save it has begun.

Of the keyboard: the delay between equal characters, key codes, the Windows
branches; releases of the modifiers that come back through the record stream, which
`KeyHook` ignores like all releases between the empty keys.  Of commands: a
connection cuts messages between lexemes only; it is closed in order, never reset;
the wording of help, errors and progress.  `FlagMatches` keeps the code's
treatment of a list of flags as one argument (`-e,-g`), but the properties
leave such arguments out.  Of the data folder: the Debug build, which sets the
log level to INFO whatever the file says; groups other than the one followed;
the order of SQLite's rows, which is that of insertion here and modelled in `Store`;
line breaks inside texts.  Blocks of memory for texts have no size in the models: that the
block of `url_builder_prepare` (`texc_utils/url.h:127`) lacks the byte of the NUL is
not expressed.

Not modelled at all: the logger, strings, arrays and paths (helpers; what they do
is part of the operations that call them), and third-party code.

## What could come next

Every safety property that the passing runs check is proved.  A phrase is text and
tags with text in them; `ReadsAsWritten` could be stated for tags inside tags, where an
end tag is searched through what is nested and a tag inside one of its own name ends
the outer one.
Of the system, the stream of `KeyHook` could carry the state of control, which the
hook asks for later than the key was struck, and texts could have the size of the
blocks that hold them, for the builder of urls.
