----------------------------- MODULE Lifecycle -----------------------------
(***************************************************************************)
(* texc processes and their clients around what they share: the port file, *)
(* whose lock says that texc runs and whose contents say where, the ports, *)
(* and the save files.  A start probes the lock, loads, listens, locks and *)
(* writes the file; an end unlocks and removes it.  Processes are killed   *)
(* and signalled at any step.                                              *)
(***************************************************************************)
EXTENDS Integers, FiniteSets

CONSTANTS
    Texcs,      \* processes started as `texc`
    Clients,    \* processes started as `texc add`, `texc remove`, `texc close`
    Ports,      \* what --port may say
    GroupOf,    \* the text expansions there may be, and the group of each
    Requests,   \* what clients ask for: [kind |-> "add", entry |-> e], ...
    None        \* no process

Actors == Texcs \cup Clients
Entries == DOMAIN GroupOf

ASSUME LifecycleAssumption ==
    /\ Texcs \cap Clients = {} /\ None \notin Actors /\ IsFiniteSet(Actors)
    /\ Requests \subseteq [kind : {"add", "remove"}, entry : Entries] \cup [kind : {"close"}]

Groups == {GroupOf[e] : e \in Entries}
Of(group) == {e \in Entries : GroupOf[e] = group}
Inodes == 1 .. Cardinality(Actors) + 1

VARIABLES
    pc,         \* where each process is
    path,       \* the inode the path of the port file names, 0 for none
    content,    \* of each inode: the texc whose port and token it holds, or None
    holder,     \* of each inode: who has locked it, or None
    fd,         \* of each process: the inode it has locked, or 0
    port,       \* of each texc: its port, in a set that is empty before it is started
    listeners,  \* the texcs that listen
    key,        \* of each client: the texc whose port file it has read, or None
    request,    \* of each client: what it asks for, in a set empty before it starts
    table,      \* of each texc: the expansions it holds
    job,        \* of each texc: the save under way, in a set empty without one
    disk,       \* of each group: the expansions in its save file
    promise,    \* of each expansion: "in" or "out" as last answered, "open" in between
    alone,      \* texcs that no other process has been with since they were started
    met,        \* texcs that were there while another one was ending
    overlap     \* two texcs have been past their probe at once

vars == <<pc, path, content, holder, fd, port, listeners, key, request,
          table, job, disk, promise, alone, met, overlap>>
file == <<path, content, holder, fd>>
store == <<table, job, disk, promise>>
asked == <<port, key, request>>

Active(a) == pc[a] \notin {"idle", "refused", "ended", "killed", "failed", "done"}
Ending(t) == pc[t] \in {"unlinking", "unlocked"}
Up(t) == pc[t] \in {"running", "stopping", "saving"}
Past(t) == Up(t) \/ Ending(t) 
           \/ pc[t] \in {"loading", "listening", "locking", "writing", "ending", "signalled"}

Goes(a, to) == pc' = [pc EXCEPT ![a] = to]

-----------------------------------------------------------------------------
(* The port file *)

\* open(O_RDWR | O_CREAT)
Opened ==
    IF path # 0 THEN path ELSE CHOOSE i \in Inodes : \A a \in Actors : fd[a] # i

\* Mutant: a file with contents is taken for locked.
FreeUnlessWritten(i) == holder[i] = None /\ content[i] = None

\* Mutant: a file that is there can be locked.
FreeAlways(i) == TRUE

Free(i) == holder[i] = None

\* filelock_acquire
Acquire(a, locked, busy) ==
    LET i == Opened
    IN /\ path' = i
       /\ content' = IF path = 0 THEN [content EXCEPT ![i] = None] ELSE content
       /\ IF Free(i)
          THEN /\ holder' = [holder EXCEPT ![i] = a] /\ fd' = [fd EXCEPT ![a] = i]
               /\ Goes(a, locked)
          ELSE UNCHANGED <<holder, fd>> /\ Goes(a, busy)

\* filelock_close, and the end of a process
Unlocked(a) ==
    /\ holder' = [i \in Inodes |-> IF holder[i] = a THEN None ELSE holder[i]]
    /\ fd' = [fd EXCEPT ![a] = 0]

\* What client_prepare's error leads to.  A texc goes on unless one is running.
Prepared(a, running) ==
    /\ Goes(a, IF a \in Texcs THEN IF running THEN "refused" ELSE "loading"
               ELSE IF running THEN "asking" ELSE "failed")
    /\ overlap' = \/ overlap
                  \/ a \in Texcs /\ ~running /\ \E t \in Texcs \ {a} : Past(t)

-----------------------------------------------------------------------------
(* client_prepare *)

Begin(a) ==
    /\ pc[a] = "idle" /\ Goes(a, "probing")
    /\ LET others == {b \in Actors \ {a} : Active(b)}
       IN alone' = IF a \in Texcs /\ others = {} THEN alone \cup {a} ELSE alone \ others
    /\ met' = IF \E t \in Texcs : Ending(t) THEN met \cup ({a} \cap Texcs) ELSE met
    /\ UNCHANGED <<file, listeners, store, overlap>>

StartTexc(t, p) == Begin(t) /\ port' = [port EXCEPT ![t] = {p}] /\ UNCHANGED <<key, request>>
StartClient(c, r) ==
    Begin(c) /\ request' = [request EXCEPT ![c] = {r}] /\ UNCHANGED <<port, key>>

NoFile(a) ==
    /\ pc[a] = "probing" /\ path = 0 /\ Prepared(a, FALSE)
    /\ UNCHANGED <<file, listeners, store, asked, alone, met>>

SomeFile(a) ==
    /\ pc[a] = "probing" /\ path # 0 /\ Goes(a, "trying")
    /\ UNCHANGED <<file, listeners, store, asked, alone, met, overlap>>

TryLock(a) ==
    /\ pc[a] = "trying" /\ Acquire(a, "holding", "reading")
    /\ UNCHANGED <<listeners, store, asked, alone, met, overlap>>

\* Nobody held the lock: no texc runs.
ReleaseLock(a) ==
    /\ pc[a] = "holding" /\ Unlocked(a) /\ Prepared(a, FALSE)
    /\ UNCHANGED <<path, content, listeners, store, asked, alone, met>>

\* The file is opened again by its path.  When it is gone strtok_r gets NULL and a
\* pointer that was never set: a crash, or an error.
ReadPort(a) ==
    /\ pc[a] = "reading"
    /\ IF path = 0
       THEN /\ key' = key
            /\ Prepared(a, FALSE) \/ (Goes(a, IF a \in Texcs THEN "ended" ELSE "failed")
                                       /\ UNCHANGED overlap)
       ELSE /\ Prepared(a, content[path] # None)
            /\ key' = IF a \in Clients THEN [key EXCEPT ![a] = content[path]] ELSE key
    /\ UNCHANGED <<file, listeners, store, port, request, alone, met>>

-----------------------------------------------------------------------------
(* The start of texc *)

Load(t) ==
    /\ pc[t] = "loading" /\ Goes(t, "listening")
    /\ table' = [table EXCEPT ![t] = UNION {disk[g] : g \in Groups}]
    /\ UNCHANGED <<file, listeners, job, disk, promise, asked, alone, met, overlap>>

PortFree(t) == \A u \in listeners : port[u] # port[t]

Listen(t) ==
    /\ pc[t] = "listening" /\ PortFree(t)
    /\ Goes(t, "locking") /\ listeners' = listeners \cup {t}
    /\ UNCHANGED <<file, store, asked, alone, met, overlap>>

\* Mutant: what a killed texc left in the file stays.
WrittenOnce(t, old) == IF old = None THEN t ELSE old

\* filelock_write, over whatever the file holds.  It does not truncate: what an
\* older and longer line leaves behind comes after the 63 characters of the token,
\* and a client reads no further (strncpy in client_prepare).
Written(t, old) == t

\* server_init, after listen
LockPort(t) ==
    /\ pc[t] = "locking" /\ Acquire(t, "writing", "failing")
    /\ UNCHANGED <<listeners, store, asked, alone, met, overlap>>

WritePort(t) ==
    /\ pc[t] = "writing" /\ Goes(t, "running")
    /\ content' = [content EXCEPT ![fd[t]] = Written(t, @)]
    /\ UNCHANGED <<path, holder, fd, listeners, store, asked, alone, met, overlap>>

\* server_init fails: the process ends without a file.
GiveUp(t) ==
    /\ pc[t] = "failing" \/ (pc[t] = "listening" /\ ~PortFree(t))
    /\ Goes(t, "refused") /\ listeners' = listeners \ {t}
    /\ UNCHANGED <<file, store, asked, alone, met, overlap>>

-----------------------------------------------------------------------------
(* Requests and saves: all under data.mutex *)

\* Mutant: the loop over the groups starts one too late.
GroupsOfLess(held) ==
    LET all == {GroupOf[e] : e \in held} IN {g \in all : g # CHOOSE f \in all : TRUE}

GroupsOf(held) == {GroupOf[e] : e \in held}

Changed(held, r) ==
    CASE r.kind = "add" -> held \cup {r.entry} [] r.kind = "remove" -> held \ {r.entry}

\* data_io_save begins: the files of groups that are no more are removed.
Saving(t, client, held) ==
    /\ job' = [job EXCEPT ![t] = {[client |-> client, todo |-> GroupsOf(held), open |-> {}]}]
    /\ disk' = [g \in Groups |-> IF Of(g) \cap held = {} THEN {} ELSE disk[g]]

\* The accept thread serves until the socket is closed or the process ends.
Serving(t) == t \in listeners /\ (Up(t) \/ Ending(t) \/ pc[t] = "signalled")

Answerable(c) == pc[c] = "asking" /\ Serving(key[c])

Serve(c, r) ==
    /\ Answerable(c) /\ request[c] = {r} /\ r.kind # "close" /\ job[key[c]] = {}
    /\ LET held == Changed(table[key[c]], r)
       IN table' = [table EXCEPT ![key[c]] = held] /\ Saving(key[c], c, held)
    /\ promise' = [promise EXCEPT ![r.entry] = "open"]
    /\ Goes(c, "waiting")
    /\ UNCHANGED <<file, listeners, asked, alone, met, overlap>>

\* fopen(save_path, "w")
Truncate(t, g) ==
    /\ \E j \in job[t] :
         /\ j.open = {} /\ g \in j.todo
         /\ job' = [job EXCEPT ![t] = {[j EXCEPT !.todo = @ \ {g}, !.open = {g}]}]
    /\ disk' = [disk EXCEPT ![g] = {}]
    /\ UNCHANGED <<pc, file, listeners, table, promise, asked, alone, met, overlap>>

\* fclose writes what the file is to hold.
Flush(t, g) ==
    /\ \E j \in job[t] : g \in j.open /\ job' = [job EXCEPT ![t] = {[j EXCEPT !.open = {}]}]
    /\ disk' = [disk EXCEPT ![g] = table[t] \cap Of(g)]
    /\ UNCHANGED <<pc, file, listeners, table, promise, asked, alone, met, overlap>>

\* The save is done: the client is answered, or main goes on from data_free.
Saved(t) ==
    /\ \E j \in job[t] :
         /\ j.open = {} /\ j.todo = {}
         /\ \/ /\ j.client # None
               /\ pc' = IF pc[j.client] = "waiting" THEN [pc EXCEPT ![j.client] = "done"] ELSE pc
               /\ \E r \in request[j.client] :
                    promise' = [promise EXCEPT ![r.entry] = IF r.kind = "add" THEN "in" ELSE "out"]
            \/ /\ j.client = None
               /\ pc' = IF pc[t] = "saving" THEN [pc EXCEPT ![t] = "ending"] ELSE pc
               /\ promise' = promise
    /\ job' = [job EXCEPT ![t] = {}]
    /\ UNCHANGED <<file, listeners, table, disk, asked, alone, met, overlap>>

\* Connection refused, another texc's answer to an unknown token, or none at all
Unserved(c) ==
    /\ pc[c] = "asking" /\ ~Serving(key[c]) /\ Goes(c, "failed")
    /\ UNCHANGED <<file, listeners, store, asked, alone, met, overlap>>

\* Five seconds without an answer.  The request goes on.
TimedOut(c) ==
    /\ pc[c] = "waiting" /\ Goes(c, "failed")
    /\ UNCHANGED <<file, listeners, store, asked, alone, met, overlap>>

-----------------------------------------------------------------------------
(* The ends of texc *)

CloseRequest(c, r) ==
    /\ Answerable(c) /\ request[c] = {r} /\ r.kind = "close" /\ pc[key[c]] = "running"
    /\ pc' = [pc EXCEPT ![c] = "done", ![key[c]] = "stopping"]
    /\ UNCHANGED <<file, listeners, store, asked, alone, met, overlap>>

\* server_stop, and data_free begins
Stop(t) ==
    /\ pc[t] = "stopping" /\ job[t] = {} /\ Goes(t, "saving")
    /\ listeners' = listeners \ {t} /\ Saving(t, None, table[t])
    /\ UNCHANGED <<file, table, promise, asked, alone, met, overlap>>

\* SIGINT and SIGTERM
Signal(t) ==
    /\ (Up(t) \/ pc[t] = "ending") /\ Goes(t, "signalled")
    /\ UNCHANGED <<file, listeners, store, asked, alone, met, overlap>>

\* __delete_port_file, from atexit or from the signal handler
Unlock(t) ==
    /\ pc[t] \in {"ending", "signalled"} /\ Unlocked(t)
    /\ Goes(t, IF pc[t] = "ending" THEN "unlocked" ELSE "unlinking")
    /\ met' = met \cup {u \in Texcs \ {t} : Active(u)}
    /\ UNCHANGED <<path, content, listeners, store, asked, alone, overlap>>

\* What a process that ends leaves half done: the file it has open, a client
Gone(t) ==
    /\ listeners' = listeners \ {t} /\ job' = [job EXCEPT ![t] = {}]
    /\ promise' = [e \in Entries |->
                     IF \E j \in job[t] : GroupOf[e] \in j.open THEN "open" ELSE promise[e]]
    /\ UNCHANGED <<table, disk, asked, alone, met, overlap>>

Left(t, as) ==
    pc' = [a \in Actors |-> IF a = t THEN as
                            ELSE IF \E j \in job[t] : j.client = a THEN "failed" ELSE pc[a]]

\* Mutant: the file is only removed while it is ours.
RemovedIfLocked(t) == IF path # 0 /\ holder[path] = t THEN 0 ELSE path

\* remove(port_path), whatever is there by now
Removed(t) == 0

\* The handler calls exit, which runs __delete_port_file again.
Unlink(t) ==
    /\ pc[t] = "unlinking" /\ Goes(t, "unlocked") /\ path' = Removed(t)
    /\ UNCHANGED <<content, holder, fd, listeners, store, asked, alone, met, overlap>>

Exit(t) ==
    /\ pc[t] = "unlocked" /\ Left(t, "ended") /\ path' = Removed(t)
    /\ Gone(t) /\ UNCHANGED <<content, holder, fd>>

\* kill -9 or a crash: what has been written stays, since the system goes on.
Kill(t) ==
    /\ Active(t) /\ Left(t, "killed") /\ Unlocked(t) /\ Gone(t)
    /\ UNCHANGED <<path, content>>

-----------------------------------------------------------------------------
Init ==
    /\ pc = [a \in Actors |-> "idle"] /\ fd = [a \in Actors |-> 0]
    /\ path = 0 /\ content = [i \in Inodes |-> None] /\ holder = [i \in Inodes |-> None]
    /\ port = [t \in Texcs |-> {}] /\ listeners = {}
    /\ key = [c \in Clients |-> None] /\ request = [c \in Clients |-> {}]
    /\ table = [t \in Texcs |-> {}] /\ job = [t \in Texcs |-> {}]
    /\ \E S \in SUBSET Entries :
         /\ disk = [g \in Groups |-> S \cap Of(g)]
         /\ promise = [e \in Entries |-> IF e \in S THEN "in" ELSE "out"]
    /\ alone = {} /\ met = {} /\ overlap = FALSE

Next ==
    \/ \E a \in Actors :
         NoFile(a) \/ SomeFile(a) \/ TryLock(a) \/ ReleaseLock(a) \/ ReadPort(a)
    \/ \E t \in Texcs :
         \/ (\E p \in Ports : StartTexc(t, p)) \/ Load(t) \/ Listen(t) \/ LockPort(t)
         \/ WritePort(t) \/ GiveUp(t) \/ Stop(t) \/ Saved(t) \/ Signal(t) \/ Unlock(t)
         \/ Unlink(t) \/ Exit(t) \/ Kill(t)
         \/ \E g \in Groups : Truncate(t, g) \/ Flush(t, g)
    \/ \E c \in Clients :
         \/ \E r \in Requests : StartClient(c, r) \/ Serve(c, r) \/ CloseRequest(c, r)
         \/ Unserved(c) \/ TimedOut(c)

Spec == Init /\ [][Next]_vars

-----------------------------------------------------------------------------
Steps ==
    {"idle", "probing", "trying", "holding", "reading", "refused", "loading", "listening",
     "locking", "failing", "writing", "running", "stopping", "saving", "ending", "signalled",
     "unlinking", "unlocked", "ended", "killed", "asking", "waiting", "done", "failed"}

(* Types; a lock has one holder, who knows which file it is, and a texc that  *)
(* is up has one.                                                              *)
TypeOK ==
    /\ pc \in [Actors -> Steps] /\ path \in {0} \cup Inodes
    /\ content \in [Inodes -> Texcs \cup {None}] /\ holder \in [Inodes -> Actors \cup {None}]
    /\ fd \in [Actors -> {0} \cup Inodes]
    /\ \A a \in Actors, i \in Inodes : holder[i] = a <=> fd[a] = i
    /\ \A t \in Texcs : Up(t) => fd[t] # 0
    /\ port \in [Texcs -> SUBSET Ports]
    /\ \A t \in listeners : \A u \in listeners \ {t} : port[t] # port[u]
    /\ listeners \subseteq Texcs /\ alone \subseteq Texcs /\ met \subseteq Texcs
    /\ key \in [Clients -> Texcs \cup {None}]
    /\ request \in [Clients -> SUBSET Requests]
    /\ table \in [Texcs -> SUBSET Entries]
    /\ job \in [Texcs -> SUBSET [client : Clients \cup {None}, todo : SUBSET Groups,
                                 open : SUBSET Groups]]
    /\ \A t \in Texcs : \A j \in job[t] : job[t] = {j}
    /\ disk \in [Groups -> SUBSET Entries] /\ \A g \in Groups : disk[g] \subseteq Of(g)
    /\ promise \in [Entries -> {"in", "out", "open"}] /\ overlap \in BOOLEAN

FileOk(t) == path # 0 /\ fd[t] = path /\ content[path] = t

(* A texc that is up is found through the port file, with its own port and     *)
(* token in it, whatever starts, probes and kills came before: only a texc     *)
(* that was ending while it started or ran can have removed its file.          *)
RunningIsFound == \A t \in Texcs \ met : Up(t) => FileOk(t)

(* A texc that is started when no other process is about is not refused,      *)
(* whatever an earlier one left behind when it was killed.                     *)
AloneStarts == \A t \in alone : pc[t] # "refused"

(* Whatever was answered as added is in its save file, and what was answered   *)
(* as removed is not, through closes, signals and kills; but for the group     *)
(* whose file is being written, and as long as no texc got past its probe      *)
(* while another one was past it.                                              *)
AckedIsKept ==
    \A e \in Entries :
      \/ overlap \/ \E t \in Texcs : \E j \in job[t] : GroupOf[e] \in j.open
      \/ /\ promise[e] = "in" => e \in disk[GroupOf[e]]
         /\ promise[e] = "out" => e \notin disk[GroupOf[e]]

(* A texc that ended by itself or by a signal leaves no port file of its own.  *)
NoStaleFile == \A t \in Texcs : pc[t] = "ended" /\ path # 0 => content[path] # t

(* No start gets past its probe while a texc is up whose port file is there,   *)
(* unless one was ending meanwhile.                                            *)
ProbeExcludes ==
    [][\A t \in Texcs \ met : pc[t] # "loading" /\ pc'[t] = "loading" =>
         \A u \in Texcs : Up(u) => ~FileOk(u)]_vars
=============================================================================
