------------------------------ MODULE Command ------------------------------
(***************************************************************************)
(* One command from its arguments to its exit code, or one call of the     *)
(* HTTP API by another program: the arguments are read, a request is built *)
(* and sent, comes to the server in pieces, is read, taken apart and       *)
(* handled, and the answer comes back the same way.  What handling a       *)
(* request does to the text expansions is in Store.                        *)
(***************************************************************************)
EXTENDS CommandLine, Url

CONSTANTS
    Argvs,     \* the argument lists a user gives
    Calls,     \* calls of other programs: a path and parameters
    Token,     \* the token of the session
    Block,     \* the buffer of socket_recv_all (1024)
    MaxPieces, \* bound: into how many pieces the network cuts a message
    MaxRows    \* bound: the rows /list has to show

ASSUME CommandAssumption ==
    /\ Argvs \subseteq Seq(Seq(Characters)) /\ Token \in Words
    /\ \A c \in Calls :
          /\ c.path = <<"/", c.path[2]>> /\ c.path[2] \in Words
          /\ c.params \in Seq([name : Seq(Words) \ {<<>>}, value : Seq(Characters)])
          /\ \A i, j \in DOMAIN c.params : c.params[i].name = c.params[j].name => i = j
    /\ {"token", "match", "expand", "enabled", "group", "id", "columns", "condition", "add",
         "remove", "close", "list", "true", "all"} \subseteq Words
    /\ Block \in Nat /\ Block > 1 /\ MaxPieces \in Nat /\ MaxPieces > 0 /\ MaxRows \in Nat

VARIABLES
    call,      \* the call of another program, none for a command
    running,   \* whether the probe finds a texc
    client,    \* where the client is
    shown,     \* the body it has printed, none yet
    exit,      \* its exit code, none yet
    sent,      \* the path and parameters it has sent, none yet
    request,   \* the channel to the server
    server,    \* where the thread of the server is
    asked,     \* what the server has been asked to do, none yet
    answer,    \* its answer: status and body, none yet
    response   \* the channel to the client

vars == <<arguments, call, running, client, shown, exit, sent, request, server, asked, answer,
          response>>

clientSide == <<arguments, call, running, client, shown, exit, sent>>
serverSide == <<call, server, asked, answer>>

-----------------------------------------------------------------------------
(* A connection in one direction: what was sent, and how much of it arrived,   *)
(* was seen by the last peek and was read; in how many pieces it came; whether *)
(* the sender has closed it.                                                   *)

Idle == [message |-> <<>>, arrived |-> 0, seen |-> 0, read |-> 0, pieces |-> 0, closed |-> FALSE]

Sent(text, closed) == [Idle EXCEPT !.message = text, !.closed = closed]

Smaller(m, n) == IF m < n THEN m ELSE n

Waiting(channel) == channel.arrived - channel.read

Delivered(channel) ==
    {[channel EXCEPT !.arrived = n, !.pieces = @ + 1] :
        n \in IF channel.pieces + 1 < MaxPieces THEN channel.arrived + 1 .. Len(channel.message)
              ELSE {Len(channel.message)} \ {channel.arrived}}

\* select: there is something to read, or nothing more to come
Readable(channel) ==
    Waiting(channel) > 0 \/ (channel.closed /\ channel.arrived = Len(channel.message))

\* The recv of socket_recv_all with MSG_PEEK, then the one of socket_recv, which
\* keeps a byte for the NUL.
Peeked(channel) == [channel EXCEPT !.seen = Smaller(Waiting(channel), Block)]

Fits(channel) == Smaller(Waiting(channel), Block - 1)

ReadOn(channel) == [channel EXCEPT !.read = @ + Fits(channel)]

\* Mutant: a full buffer is taken for the end.
AlwaysAll(channel) == TRUE

AllRead(channel) == channel.seen <= Fits(channel)

Received(channel) == SubSeq(channel.message, 1, channel.read)

-----------------------------------------------------------------------------
(* The client: main.c, subcmds.c and client.c *)

ClientGoes(from, to) == client = from /\ client' = to

ExitWith(code) == client' = "ended" /\ exit' = {code}

Parse == ReadArguments /\ UNCHANGED <<call, running, client, shown, exit, sent, request,
                                      serverSide, response>>

Refusal == status \notin {"start", "parsing", "args", "call"}

\* argparse_parse has printed the help or the error.
ArgumentsRefused ==
    /\ client = "arguments" /\ Refusal
    /\ ExitWith(1)
    /\ UNCHANGED <<arguments, running, shown, sent, request, serverSide, response>>

\* atoi of the port is above 0.
PortValid == \E port \in Get("port") : port # <<>> /\ port[1] \in Numbers \ {"0"}

\* subcmd_start_server up to data_init
StartTexc ==
    /\ client = "arguments" /\ status = "args" /\ command = "texc"
    /\ IF ~Found("version") /\ PortValid /\ ~running
       THEN client' = "server" /\ UNCHANGED exit
       ELSE ExitWith(1)
    /\ UNCHANGED <<arguments, running, shown, sent, request, serverSide, response>>

Given(name, values) == [i \in 1 .. Cardinality(values) |-> Param(name, CHOOSE v \in values : TRUE)]

\* __append_identifier
Identifier ==
    Param(CASE Found("id") -> "id" [] ~Found("id") /\ Found("group") -> "group" [] OTHER -> "match",
          positionals[1])

\* What each sub command sends; config sends its request to /list.
Parameters ==
    <<Param("token", <<Token>>)>> \o
    CASE command = "add" -> <<Param("match", positionals[1]), Param("expand", positionals[2])>>
                            \o Given("enabled", Get("enable")) \o Given("group", Get("group"))
      [] command = "remove" -> <<Identifier>>
      [] command = "list" -> Given("columns", Get("columns")) \o Given("condition", Get("where"))
      [] command = "config" -> <<Identifier>> \o Given("enabled", Get("enable"))
      [] OTHER -> <<>>

Path == <<"/", IF command = "config" THEN "list" ELSE command>>

\* client_request up to socket_send; texc may be gone since the probe.
Send(path, params) ==
    \/ /\ ClientGoes("arguments", "waiting")
       /\ request' = Sent(RequestOf(Built(path, params)), FALSE)
       /\ sent' = {[path |-> path, params |-> params]}
       /\ UNCHANGED <<arguments, running, shown, exit, serverSide, response>>
    \/ /\ client = "arguments" /\ ExitWith(1)
       /\ UNCHANGED <<arguments, running, shown, sent, request, serverSide, response>>

SubCommand ==
    /\ status = "args" /\ command # "texc"
    /\ IF running THEN Send(Path, Parameters)
       ELSE /\ client = "arguments" /\ ExitWith(1)
            /\ UNCHANGED <<arguments, running, shown, sent, request, serverSide, response>>

\* Another program builds its request the same way.
CallApi == \E c \in call : Send(c.path, c.params)

\* Nothing for 5 seconds
ClientTimeout ==
    /\ ClientGoes("waiting", "timed out") /\ ~Readable(response)
    /\ exit' = {1}
    /\ request' = [request EXCEPT !.closed = TRUE]
    /\ UNCHANGED <<arguments, running, shown, sent, serverSide, response>>

ClientPeek ==
    /\ ClientGoes("waiting", "peeked") /\ Readable(response)
    /\ response' = Peeked(response)
    /\ UNCHANGED <<arguments, running, shown, exit, sent, request, serverSide>>

ClientRead ==
    /\ ClientGoes("peeked", IF AllRead(response) THEN "answered" ELSE "waiting")
    /\ response' = ReadOn(response)
    /\ UNCHANGED <<arguments, running, shown, exit, sent, request, serverSide>>

Empty == <<"Empty!">>

\* Mutant: the blank line is not skipped.
BodyFrom(text) == SubSeq(text, CHOOSE i \in DOMAIN text : text[i] = BlankLine, Len(text))

BodyOf(text) == SubSeq(text, (CHOOSE i \in DOMAIN text : text[i] = BlankLine) + 1, Len(text))

RowsIn(body) == Len(SelectSeq(body, LAMBDA c : c = "newline"))

\* Mutant: what was refused is shown as an answer.
NoErrors(text) == {}

\* The status __execute_request makes an error of
Errors(text) == {text[1]} \cap {"400"}

\* response_from and __execute_request: without a blank line the body is read
\* from an address near NULL.
Show ==
    LET text == Received(response) body == BodyOf(text) IN
    /\ client = "answered"
    /\ CASE ~Contains(text, BlankLine) -> client' = "crashed" /\ UNCHANGED <<shown, exit>>
         [] Contains(text, BlankLine) /\ Errors(text) # {} -> ExitWith(1) /\ UNCHANGED shown
         [] OTHER -> /\ ExitWith(0)
                     /\ shown' = {IF command = "list" /\ RowsIn(body) = 1 THEN Empty ELSE body}
    /\ request' = [request EXCEPT !.closed = TRUE]
    /\ UNCHANGED <<arguments, running, sent, serverSide, response>>

Client ==
    \/ Parse \/ ArgumentsRefused \/ StartTexc \/ SubCommand \/ CallApi
    \/ ClientTimeout \/ ClientPeek \/ ClientRead \/ Show

-----------------------------------------------------------------------------
(* The server: __handle_client and the handlers of server_api.c *)

Reply(code, body) == [status |-> code, body |-> body]

BadRequest == Reply("400", <<"error">>)
BadFormat == Reply("504", <<"format">>)
Success == Reply("200", <<"Sucess">>)
NotFound == Reply("200", <<"Api not found">>)
Table(rows) ==
    Reply("200", [i \in 1 .. 2 * (rows + 1) |-> IF i % 2 = 1 THEN "row" ELSE "newline"])

Outcome(ask, replies) == {[asked |-> ask, answer |-> {reply}] : reply \in replies}
Rejected == Outcome({}, {BadRequest})
Crash == {[asked |-> {}, answer |-> {}]}

Booleans == {{<<"true">>}, {<<"false">>}}

\* data_sql_row_from_request: a row it does not return is freed all the same,
\* and enabled is compared without having been given.
HandleAdd(match, expand, enabled, group) ==
    IF match = {} \/ expand = {} \/ enabled \notin Booleans THEN Crash
    ELSE Outcome({<<"add", match, expand, enabled, IF group = {} THEN {<<"all">>} ELSE group>>},
                 {Success, BadRequest})

\* __handle_list: a row with a NULL in a column that was asked for is not
\* survived (strdup in data_sql_get_raw).
HandleList(columns, condition) ==
    Outcome({<<"list", columns, condition>>},
            {BadRequest} \cup {Table(rows) : rows \in 0 .. MaxRows})
      \cup {crash \in Crash : columns # {}}

\* __get_identifier_param: the one identifier given, with the way it identifies
Identifiers(parsed) ==
    UNION {{<<by, value>> : value \in Query(parsed, by)} : by \in {"match", "id", "group"}}

Identified(parsed) ==
    {i \in Identifiers(parsed) : Cardinality(Identifiers(parsed)) = 1
                                 /\ (i[1] = "id" => IsNatural(i[2]))}

HandleRemove(identified) ==
    IF identified = {} THEN Rejected
    ELSE Outcome({<<"remove", identified>>}, {Success, BadRequest})

\* Without enabled there is nothing to set, and the byte before the text of the
\* update is overwritten.
HandleConfig(identified, enabled) ==
    CASE identified = {} -> Rejected
      [] identified # {} /\ enabled = {} -> Rejected \cup Crash
      [] identified # {} /\ enabled # {} /\ enabled \notin Booleans -> Rejected
      [] OTHER -> Outcome({<<"config", identified, enabled>>}, {Success, BadRequest})

\* __server_handle_api
Handled(parsed) ==
    LET to(path) == parsed.path = <<"/", path>>
    IN CASE Query(parsed, "token") # {<<Token>>} -> Rejected
         [] to("add") -> HandleAdd(Query(parsed, "match"), Query(parsed, "expand"),
                                   Query(parsed, "enabled"), Query(parsed, "group"))
         [] to("remove") -> HandleRemove(Identified(parsed))
         [] to("list") -> HandleList(Query(parsed, "columns"), Query(parsed, "condition"))
         [] to("close") -> Outcome({<<"close">>}, {Success})
         [] to("config") -> HandleConfig(Identified(parsed), Query(parsed, "enabled"))
         [] to("version") -> Outcome({<<"version">>}, {Reply("200", <<"0.4.1">>)})
         [] OTHER -> Outcome({}, {NotFound})

ServerGoes(from, to) == server = from /\ server' = to /\ UNCHANGED clientSide

\* socket_accept and the thread that serves the client
ServerAccept ==
    /\ ServerGoes("accepting", "waiting") /\ sent # {}
    /\ UNCHANGED <<request, asked, answer, response>>

Answers(reply) ==
    /\ answer' = {reply}
    /\ response' = Sent(<<reply.status, BlankLine>> \o reply.body, TRUE)

ServerTimeout ==
    /\ ServerGoes("waiting", "ended") /\ ~Readable(request)
    /\ Answers(Reply("504", <<"Timeout">>))
    /\ UNCHANGED <<request, asked>>

ServerPeek ==
    /\ ServerGoes("waiting", "peeked") /\ Readable(request)
    /\ request' = Peeked(request)
    /\ UNCHANGED <<asked, answer, response>>

ServerRead ==
    /\ ServerGoes("peeked", IF AllRead(request) THEN "parsing" ELSE "waiting")
    /\ request' = ReadOn(request)
    /\ UNCHANGED <<asked, answer, response>>

RefuseFormat ==
    /\ ServerGoes("parsing", "ended") /\ Parsed(Received(request)) = Refused
    /\ Answers(BadFormat)
    /\ UNCHANGED <<request, asked>>

\* A crash of the handler closes the connection.
Handle ==
    LET parsed == Parsed(Received(request)) IN
    /\ parsed # Refused
    /\ \E outcome \in Handled(parsed) :
         /\ ServerGoes("parsing", IF outcome.answer = {} THEN "crashed" ELSE "ended")
         /\ asked' = outcome.asked
         /\ IF outcome.answer = {}
            THEN response' = [response EXCEPT !.closed = TRUE] /\ UNCHANGED answer
            ELSE \E reply \in outcome.answer : Answers(reply)
    /\ UNCHANGED request

Server ==
    ServerAccept \/ ServerTimeout \/ ServerPeek \/ ServerRead \/ RefuseFormat \/ Handle

Network ==
    \/ request' \in Delivered(request) /\ UNCHANGED <<clientSide, server, asked, answer, response>>
    \/ response' \in Delivered(response) /\ UNCHANGED <<clientSide, server, asked, answer, request>>

-----------------------------------------------------------------------------
Init ==
    /\ \/ ArgumentsInit(Argvs) /\ call = {} /\ running \in BOOLEAN
       \/ /\ argv = <<>> /\ command = "texc" /\ at = 1 /\ options = <<>> /\ positionals = <<>>
          /\ status = "call" /\ call \in {{c} : c \in Calls} /\ running = TRUE
    /\ client = "arguments" /\ shown = {} /\ exit = {} /\ sent = {}
    /\ request = Idle /\ response = Idle
    /\ server = "accepting" /\ asked = {} /\ answer = {}

Ended == client \in {"ended", "timed out", "crashed", "server"}

Over == Ended /\ server \in {"accepting", "ended", "crashed"}

Next == Client \/ Server \/ Network \/ (Over /\ UNCHANGED vars)

Spec == Init /\ [][Next]_vars

-----------------------------------------------------------------------------
(* What a command or a call wants, read from the arguments or the call itself  *)

Legible(values) ==
    {InOrder({i \in DOMAIN value : value[i] \notin Unprintable}, value) : value \in values}

\* docs/api/add.md:15 and docs/api/config.md:21 name it `enable`, and an added
\* expansion is enabled without it; texc itself sends it as enabled.
Switch(value) == IF value.enabled = {} THEN value.enable ELSE value.enabled

Otherwise(default, values) == IF values = {} THEN default ELSE values

Wanted(op, value) ==
    LET by == {<<n, v>> : n \in {"match", "id", "group"}, v \in UNION {value[m] : m \in DOMAIN value}}
        identifiers == {i \in by : i[2] \in value[i[1]]}
    IN CASE op = "add" -> <<"add", value.match, value.expand,
                            Otherwise({<<"true">>}, Switch(value)),
                            Otherwise({<<"all">>}, value.group)>>
         [] op = "remove" -> <<"remove", identifiers>>
         [] op = "config" -> <<"config", identifiers, Switch(value)>>
         [] op = "list" -> <<"list", value.columns, value.condition>>
         [] OTHER -> <<op>>

Names == {"match", "expand", "enabled", "enable", "group", "id", "columns", "condition"}

ValuesOfCall ==
    LET c == CHOOSE d \in call : TRUE
    IN [n \in Names |-> Legible({p.value : p \in {q \in ToSet(c.params) : q.name = <<n>>}})]

\* What the flags of remove and config say the identifier is
By(name, args) ==
    CASE GivenIn(name, 1, args) -> "id"
      [] ~GivenIn(name, 1, args) /\ GivenIn(name, 2, args) -> "group"
      [] OTHER -> "match"

ValuesOfArguments ==
    LET name == CommandOf(argv)
        args == Rest(argv)
        pos == InOrder(PositionalsOf(name, args), args)
        option(k) == ValueOf(name, k, args)
        given(n) ==
            CASE name = "add" /\ n = "match" -> {pos[1]}
              [] name = "add" /\ n = "expand" -> {pos[2]}
              [] name = "add" /\ n = "enabled" -> option(1)
              [] name = "add" /\ n = "group" -> option(2)
              [] name \in {"remove", "config"} /\ n = By(name, args) -> {pos[1]}
              [] name = "config" /\ n = "enabled" -> option(3)
              [] name = "list" /\ n = "columns" -> option(1)
              [] name = "list" /\ n = "condition" -> option(2)
              [] OTHER -> {}
    IN [n \in Names |-> Legible(given(n))]

OpMeant == IF call = {} THEN CommandOf(argv) ELSE (CHOOSE c \in call : TRUE).path[2]
ValuesMeant == IF call = {} THEN ValuesOfArguments ELSE ValuesOfCall
Meant == Wanted(OpMeant, ValuesMeant)

\* What the server does not survive; one that names enable as the documents do,
\* or leaves it out, is among them.
Fatal(op, value) ==
    \/ op = "add" /\ (value.match = {} \/ value.expand = {} \/ value.enabled \notin Booleans)
    \/ op = "config" /\ value.enabled = {}
    \/ op = "list" /\ value.columns # {}

AtOnce(channel) == channel.pieces = 1 /\ channel.arrived = Len(channel.message)

EmptySent == \E s \in sent : \E p \in ToSet(s.params) : p.value = <<>>

(* Arguments are accepted exactly when they are well formed, and every option  *)
(* and every positional argument is then what stands for it in the line,       *)
(* wherever the flags are put between the others and whatever is protected by  *)
(* dashes.                                                                     *)
ReadsArguments ==
    client = "arguments" /\ OneFlagEach /\ status \notin {"start", "parsing", "call"}
      => ReadAsWritten

(* What the server does is what the command or the call means, with every      *)
(* value in its place and every printable character in it, whatever special    *)
(* characters the values hold and however the request is cut on its way: one   *)
(* that does not arrive whole is not obeyed in part, and one that arrives at   *)
(* once is never taken for unreadable, longer than the buffer or not.  And     *)
(* the server goes on, but for the requests that Fatal names: an add without   *)
(* match, expand or a boolean `enabled`, a config without `enabled` (both with *)
(* the calls that follow docs/api/add.md:15 and docs/api/config.md:21, which   *)
(* write `enable`), a list of columns that may hold a NULL.  Left out are      *)
(* empty values, which take the parameter before them away, and the sub        *)
(* command config.                                                             *)
AskedAsMeant ==
    ~EmptySent =>
      /\ OneFlagEach /\ (command = "config" => call # {}) =>
           /\ \A ask \in asked : ask = Meant
           /\ server = "crashed" => Fatal(OpMeant, ValuesMeant)
      /\ AtOnce(request) => answer # {BadFormat}

(* A command exits with 0 only when the server has done what was asked, or has *)
(* answered that it could not read the request; it exits with 1 after an       *)
(* answer only when that was a refusal.                                        *)
ExitTellsTruth ==
    sent # {} /\ call = {} =>
      /\ exit = {0} =>
           \E reply \in answer : reply.status = "504" \/ (asked # {} /\ reply.status = "200")
      /\ client = "ended" /\ exit = {1} => answer = {BadRequest}

(* What a command prints is the body of the answer from its beginning; an      *)
(* answer that arrives at once, longer than the buffer or not, is printed to   *)
(* its end, and only a list without rows is printed as empty.                  *)
ShownIsAnswered ==
    \A body \in shown : \E reply \in answer :
      /\ body # Empty => IsPrefix(body, reply.body)
      /\ AtOnce(response) =>
           body = IF command = "list" /\ RowsIn(reply.body) = 1 THEN Empty ELSE reply.body

(* docs/info.md:43: "to disable all text expansion of a specific group do:     *)
(* `texc config --enable false --group {group}`".  A config command that was   *)
(* answered with success has configured what it named.                         *)
ConfigConfigures ==
    call = {} /\ command = "config" /\ ~EmptySent /\ OneFlagEach =>
      \A ask \in asked : ask = Meant
============================================================================
