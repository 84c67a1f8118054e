------------------------------- MODULE Server -------------------------------
(***************************************************************************)
(* The threads of a running texc: the main thread, which runs the keyhook  *)
(* and then stops the server; the thread that accepts clients; and one     *)
(* thread per client, kept in a table that is cleared of ended threads     *)
(* only when it is full.                                                   *)
(***************************************************************************)
EXTENDS Integers, FiniteSets

CONSTANTS
    Clients,    \* connections to the server, one request each
    MaxThreads, \* SERVER_MAX_THREADS
    Main,       \* the main thread
    Nobody      \* no thread

ASSUME ServerAssumption ==
    /\ MaxThreads \in Nat /\ MaxThreads > 0
    /\ Main \notin Clients /\ Nobody \notin Clients /\ Main # Nobody

VARIABLES
    main,       \* where the main thread is
    next,       \* main: the place in the table server_stop is at
    acceptor,   \* the accept thread: [at, i, nsize, client]
    cancelled,  \* whether server_stop has cancelled the accept thread
    calm,       \* whether it was waiting for a client then
    table,      \* __client_threads, places 1 .. MaxThreads
    len,        \* __client_thread_len
    client,     \* for each connection, where it or its thread is
    freed,      \* clients whose Thread was freed
    mutex,      \* who holds data.mutex
    quit,       \* whether the record context was disabled
    served,     \* clients whose close request was accepted
    fault       \* what went wrong, "none" so far

accepting == <<acceptor, table, len>>
stopping == <<main, next, cancelled, calm>>
vars == <<accepting, stopping, client, freed, mutex, quit, served, fault>>

Alive == main # "exited" /\ fault = "none"

Fault(cause) ==
    /\ fault' = cause
    /\ UNCHANGED <<accepting, stopping, client, freed, mutex, quit, served>>

\* Mutant: the flag is not cleared at the end.
IsRunningStill(c) == client[c] \notin {"new", "connected", "accepted", "created"}

\* thread_is_running: a thread that was created and has not started is not.
IsRunning(c) == client[c] \in {"reading", "locking", "working", "closing", "answering"}

Ended(c) == client[c] = "ended"

Goes(c, from, to) == client[c] = from /\ client' = [client EXCEPT ![c] = to]

-----------------------------------------------------------------------------
(* The accept thread: __server_start *)

AcceptorAt(at) == Alive /\ acceptor.at = at

\* Mutant: a thread that is kept is not moved down.
KeptInPlace(c) == table

Kept(c) == [table EXCEPT ![acceptor.nsize + 1] = c]

\* A cancelled thread gets no further than here.
Accept(c) ==
    /\ AcceptorAt("accept") /\ ~cancelled
    /\ Goes(c, "connected", "accepted")
    /\ acceptor' = [acceptor EXCEPT !.at = "full", !.client = c]
    /\ UNCHANGED <<table, len, stopping, freed, mutex, quit, served, fault>>

\* Mutant: the table is not cleared.
NeverFull == FALSE

Full == len = MaxThreads

CheckFull ==
    /\ AcceptorAt("full")
    /\ acceptor' = IF Full THEN [acceptor EXCEPT !.at = "scan", !.i = 1, !.nsize = 0]
                           ELSE [acceptor EXCEPT !.at = "create"]
    /\ UNCHANGED <<table, len, stopping, client, freed, mutex, quit, served, fault>>

Scan ==
    /\ AcceptorAt("scan") /\ acceptor.i <= len
    /\ LET c == table[acceptor.i] IN
         IF c \in freed THEN Fault("thread")
         ELSE /\ IF IsRunning(c)
                 THEN /\ table' = Kept(c)
                      /\ acceptor' = [acceptor EXCEPT !.i = @ + 1, !.nsize = @ + 1]
                 ELSE acceptor' = [acceptor EXCEPT !.at = "join"] /\ UNCHANGED table
              /\ UNCHANGED <<len, stopping, client, freed, mutex, quit, served, fault>>

\* thread_join waits for the thread to end, started or not, and frees its Thread.
Join ==
    /\ AcceptorAt("join")
    /\ LET c == table[acceptor.i] IN
         IF c \in freed THEN Fault("thread")
         ELSE /\ Ended(c)
              /\ freed' = freed \cup {c}
              /\ acceptor' = [acceptor EXCEPT !.at = "scan", !.i = @ + 1]
              /\ UNCHANGED <<table, len, stopping, client, mutex, quit, served, fault>>

Scanned ==
    /\ AcceptorAt("scan") /\ acceptor.i > len
    /\ len' = acceptor.nsize
    /\ acceptor' = [acceptor EXCEPT !.at = "full"]
    /\ UNCHANGED <<table, stopping, client, freed, mutex, quit, served, fault>>

Create ==
    /\ AcceptorAt("create")
    /\ Goes(acceptor.client, "accepted", "created")
    /\ acceptor' = [acceptor EXCEPT !.at = "register"]
    /\ UNCHANGED <<table, len, stopping, freed, mutex, quit, served, fault>>

\* The new thread may run before it is in the table.
Register ==
    /\ AcceptorAt("register")
    /\ table' = [table EXCEPT ![len + 1] = acceptor.client] /\ len' = len + 1
    /\ acceptor' = [acceptor EXCEPT !.at = "accept", !.client = Nobody]
    /\ UNCHANGED <<stopping, client, freed, mutex, quit, served, fault>>

\* A cancellation is acted upon in accept, and in pthread_join while it waits.
Die ==
    /\ cancelled /\ (AcceptorAt("accept") \/ AcceptorAt("join"))
    /\ acceptor' = [acceptor EXCEPT !.at = "dead"]
    /\ UNCHANGED <<table, len, stopping, client, freed, mutex, quit, served, fault>>

Acceptor ==
    \/ \E c \in Clients : Accept(c)
    \/ CheckFull \/ Scan \/ Join \/ Scanned \/ Create \/ Register \/ Die

-----------------------------------------------------------------------------
(* A client and its thread: __handle_client *)

Step(c, from, to) ==
    Alive /\ Goes(c, from, to) /\ UNCHANGED <<accepting, stopping, freed, served, fault>>

\* The kernel queues connections until server_stop has closed the socket.
Connect(c) ==
    /\ ~cancelled
    /\ Step(c, "new", "connected") /\ UNCHANGED <<mutex, quit>>

Start(c) == Step(c, "created", "reading") /\ UNCHANGED <<mutex, quit>>

\* No request within 5 seconds or none that parses, a bad token, a path nobody
\* handles, /version: the answer needs no data.
Read(c) == Step(c, "reading", "answering") /\ UNCHANGED <<mutex, quit>>

\* The handlers of /add, /remove, /config and /list work under data.mutex.
Dispatch(c) == Step(c, "reading", "locking") /\ UNCHANGED <<mutex, quit>>

Lock(c) ==
    /\ main # "freed"
    /\ mutex = Nobody /\ mutex' = c
    /\ Step(c, "locking", "working") /\ UNCHANGED quit

\* Mutant: the mutex stays locked.
WorkLocked(c) == Step(c, "working", "answering") /\ UNCHANGED <<mutex, quit>>

Work(c) ==
    /\ mutex' = Nobody
    /\ Step(c, "working", "answering") /\ UNCHANGED quit

UseFreed(c) == Alive /\ main = "freed" /\ client[c] = "locking" /\ Fault("data")

Close(c) == Step(c, "reading", "closing") /\ UNCHANGED <<mutex, quit>>

\* keyhook_raw_quit: a context that is not enabled yet stays as it is, and is
\* enabled later all the same; the display it is asked of must be open.
Quit(c) ==
    /\ Alive
    /\ IF main \in {"created", "hooked"}
       THEN /\ Goes(c, "closing", "answering")
            /\ quit' = (quit \/ main = "hooked")
            /\ served' = served \cup {c}
            /\ UNCHANGED <<accepting, stopping, freed, mutex, fault>>
       ELSE client[c] = "closing" /\ Fault("display")

\* The answer is sent, the connection closed and the thread's flag cleared.
Answer(c) == Step(c, "answering", "answered") /\ UNCHANGED <<mutex, quit>>

End(c) == Step(c, "answered", "ended") /\ UNCHANGED <<mutex, quit>>

Client(c) ==
    \/ Start(c) \/ Read(c) \/ Dispatch(c) \/ Lock(c) \/ Work(c) \/ UseFreed(c)
    \/ Close(c) \/ Quit(c) \/ Answer(c) \/ End(c)

-----------------------------------------------------------------------------
(* The main thread: subcmd_start_server after server_start *)

MainGoes(from, to) == Alive /\ main = from /\ main' = to

Others == <<accepting, client, freed, quit, served, fault>>

\* keyhook_raw_run: the display is opened and the context created, or not.
OpenDisplay ==
    /\ MainGoes("opening", "created") \/ MainGoes("opening", "unhooked")
    /\ UNCHANGED <<next, cancelled, calm, mutex, Others>>

EnableContext ==
    /\ MainGoes("created", "hooked")
    /\ UNCHANGED <<next, cancelled, calm, mutex, Others>>

\* The hook looks for a match, or types, under data.mutex.
KeyEvent ==
    /\ Alive /\ main = "hooked" /\ ~quit /\ mutex = Nobody /\ mutex' = Main
    /\ UNCHANGED <<stopping, Others>>

KeyHandled ==
    /\ Alive /\ mutex = Main /\ mutex' = Nobody
    /\ UNCHANGED <<stopping, Others>>

\* XRecordEnableContext returns once the context is disabled and no handler
\* runs; then the displays are closed.
Unhook ==
    /\ quit /\ mutex # Main
    /\ MainGoes("hooked", "unhooked")
    /\ UNCHANGED <<next, cancelled, calm, mutex, Others>>

\* Mutant: the first thread is not waited for.
FirstJoinedSecond == 2

FirstJoined == 1

\* thread_terminate does not wait for the accept thread to end.
StopServer ==
    /\ MainGoes("unhooked", "joining")
    /\ cancelled' = TRUE /\ calm' = (acceptor.at = "accept") /\ next' = FirstJoined
    /\ UNCHANGED <<mutex, Others>>

JoinClient ==
    /\ Alive /\ main = "joining" /\ next <= len
    /\ LET c == table[next] IN
         IF c \in freed THEN Fault("thread")
         ELSE /\ Ended(c)
              /\ freed' = freed \cup {c} /\ next' = next + 1
              /\ UNCHANGED <<accepting, main, cancelled, calm, client, mutex, quit, served, fault>>

DataFree ==
    /\ MainGoes("joining", "freed") /\ next > len
    /\ mutex = Nobody
    /\ UNCHANGED <<next, cancelled, calm, mutex, Others>>

Exit ==
    /\ MainGoes("freed", "exited")
    /\ UNCHANGED <<next, cancelled, calm, mutex, Others>>

MainThread ==
    \/ OpenDisplay \/ EnableContext \/ KeyEvent \/ KeyHandled \/ Unhook
    \/ StopServer \/ JoinClient \/ DataFree \/ Exit

-----------------------------------------------------------------------------
Init ==
    /\ main = "opening" /\ next = 1 /\ cancelled = FALSE /\ calm = TRUE
    /\ acceptor = [at |-> "accept", i |-> 1, nsize |-> 0, client |-> Nobody]
    /\ table = [i \in 1 .. MaxThreads |-> Nobody] /\ len = 0
    /\ client = [c \in Clients |-> "new"]
    /\ freed = {} /\ mutex = Nobody /\ quit = FALSE /\ served = {} /\ fault = "none"

Done == ~Alive /\ UNCHANGED vars

Next ==
    \/ Acceptor \/ MainThread
    \/ \E c \in Clients : Connect(c) \/ Client(c)
    \/ Done

\* Every thread runs.  The hook holds the mutex for a moment per key, so that a
\* thread that asks for it again and again gets it.
Fairness ==
    /\ WF_vars(Acceptor)
    /\ WF_vars(OpenDisplay \/ EnableContext \/ KeyHandled \/ Unhook \/ StopServer \/ JoinClient
                 \/ DataFree \/ Exit)
    /\ \A c \in Clients : WF_vars(Client(c)) /\ SF_vars(Lock(c))

Spec == Init /\ [][Next]_vars /\ Fairness

-----------------------------------------------------------------------------
(* Every variable has its type; the table is never written past its end.       *)
TypeOK ==
    /\ main \in {"opening", "created", "hooked", "unhooked", "joining", "freed", "exited"}
    /\ next \in 1 .. MaxThreads + 1
    /\ acceptor \in [at : {"accept", "full", "scan", "join", "create", "register", "dead"},
                     i : 1 .. MaxThreads + 1, nsize : 0 .. MaxThreads, client : Clients \cup {Nobody}]
    /\ acceptor.at = "register" => len < MaxThreads
    /\ cancelled \in BOOLEAN /\ calm \in BOOLEAN /\ quit \in BOOLEAN
    /\ table \in [1 .. MaxThreads -> Clients \cup {Nobody}] /\ len \in 0 .. MaxThreads
    /\ client \in [Clients -> {"new", "connected", "accepted", "created", "reading", "locking",
                               "working", "closing", "answering", "answered", "ended"}]
    /\ freed \subseteq Clients /\ served \subseteq Clients
    /\ mutex \in Clients \cup {Main, Nobody}
    /\ fault \in {"none", "thread", "data", "display"}

Started == {c \in Clients : client[c] \notin {"new", "connected", "accepted"}}
Registered == {table[i] : i \in 1 .. len}

(* Until texc stops, the table holds every thread that was started and not     *)
(* joined, once, and no other, however it was cleared while threads ended:     *)
(* none is joined twice or forgotten.                                          *)
TableExact ==
    ~cancelled /\ acceptor.at \in {"accept", "full", "create"} =>
      /\ Registered = Started \ freed
      /\ \A i, j \in 1 .. len : table[i] = table[j] => i = j

(* When the accept thread was waiting for a client as texc stopped, server_stop *)
(* waits for every thread, once: each has answered, the close request among    *)
(* them, before data_free takes its data away.                                 *)
StopsCleanly ==
    calm =>
      /\ fault \notin {"thread", "data"}
      /\ main \in {"freed", "exited"} =>
           \A c \in Clients : client[c] \in {"new", "connected", "ended"}

(* A client that connects is answered unless texc stops meanwhile, also when   *)
(* the table is full and the accept thread waits for one client to serve       *)
(* another.                                                                    *)
EveryoneAnswered ==
    \A c \in Clients :
      client[c] = "connected" ~> (client[c] \in {"answered", "ended"} \/ cancelled \/ ~Alive)

(* Once a close request has reached a running keyhook texc ends: the hook lets *)
(* go of the mutex, and no client keeps server_stop waiting.                   *)
QuitEnds == quit ~> ~Alive
=============================================================================
