---------------------------- MODULE ServerProofs ----------------------------
(***************************************************************************)
(* Proofs about Server, for any number of clients and any size of the      *)
(* table of their threads.                                                 *)
(***************************************************************************)
EXTENDS Server, TLAPS

\* The places of the table that are in use: while it is cleared, those that were
\* kept so far and those that are still to be looked at.
InUse ==
    IF acceptor.at \in {"scan", "join"} THEN (1 .. acceptor.nsize) \cup (acceptor.i .. len)
    ELSE 1 .. len

At(places) == {table[k] : k \in places}
Distinct(places) == \A j, k \in places : table[j] = table[k] => j = k

Taken == {"full", "scan", "join", "create", "register"}

PlacesInv ==
    /\ \A k \in 1 .. len : table[k] \in Clients
    /\ acceptor.at \in {"scan", "join"} => acceptor.nsize < acceptor.i /\ acceptor.i <= len + 1
    /\ acceptor.at = "join" => acceptor.i <= len
    /\ acceptor.at \in {"create", "register"} => len < MaxThreads
    /\ acceptor.at \in Taken => acceptor.client \in Clients
    /\ acceptor.at = "accept" => \A c \in Clients : client[c] # "accepted"
    /\ acceptor.at \in {"full", "scan", "join", "create"} =>
         \A c \in Clients : client[c] = "accepted" <=> c = acceptor.client
    /\ acceptor.at = "register" => \A c \in Clients : client[c] # "accepted"
    /\ \A c \in freed : client[c] = "ended"
    /\ cancelled <=> main \in {"joining", "freed", "exited"}

\* Before texc stops: every thread that is there is in the table, once.
TableInv ==
    ~cancelled =>
      /\ acceptor.at # "dead" /\ Distinct(InUse)
      /\ Started \ freed = At(InUse) \cup IF acceptor.at = "register" THEN {acceptor.client} ELSE {}
      /\ acceptor.at = "register" => acceptor.client \notin At(InUse)

\* Once a texc whose accept thread was waiting stops: the threads that server_stop
\* has not joined are those from place next on.
StopInv ==
    cancelled /\ calm =>
      /\ acceptor.at \in {"accept", "dead"} /\ \A c \in Clients : client[c] # "accepted"
      /\ Distinct(1 .. len) /\ Started \ freed = At(next .. len)
      /\ main \in {"freed", "exited"} => next > len

NoFault == calm => fault \notin {"thread", "data"}

ServerInv == TypeOK /\ PlacesInv /\ TableInv /\ StopInv /\ NoFault
-----------------------------------------------------------------------------
(* The clients' threads leave the table alone.                                 *)

Begun == {"created", "reading", "locking", "working", "closing", "answering", "answered", "ended"}
AllSteps == Begun \cup {"new", "connected", "accepted"}

\* Neither what is in the table nor who was started changes.
LEMMA TableStays ==
    ASSUME PlacesInv, TableInv, StopInv, NoFault, UNCHANGED <<accepting, next, cancelled, calm, freed>>,
           Started' = Started,
           \A d \in Clients : client'[d] = "accepted" <=> client[d] = "accepted",
           \A d \in freed : client'[d] = "ended",
           cancelled <=> main' \in {"joining", "freed", "exited"},
           main' \in {"freed", "exited"} => next > len \/ main \in {"freed", "exited"},
           fault' \in {fault, "display"}
    PROVE  PlacesInv' /\ TableInv' /\ StopInv' /\ NoFault'
<1>1. /\ acceptor' = acceptor /\ table' = table /\ len' = len /\ next' = next
      /\ cancelled' = cancelled /\ calm' = calm /\ freed' = freed
  BY DEF accepting
<1>2. PlacesInv'
  BY <1>1 DEF PlacesInv
<1>3. TableInv'
  BY <1>1 DEF TableInv, InUse, At, Distinct
<1>4. StopInv'
  BY <1>1 DEF StopInv, At, Distinct
<1>5. NoFault'
  BY <1>1 DEF NoFault
<1> QED
  BY <1>2, <1>3, <1>4, <1>5

(* A step of one client's thread that starts or ends no thread changes nothing *)
(* the accept thread knows.                                                    *)
LEMMA StepStays ==
    ASSUME ServerInv, NEW c \in Clients, NEW from, NEW to,
           \/ from \in Begun \ {"ended"} /\ to \in Begun
           \/ from = "new" /\ to = "connected",
           Goes(c, from, to), UNCHANGED <<accepting, stopping, freed, fault>>,
           quit' \in BOOLEAN, served' \subseteq Clients, mutex' \in Clients \cup {Main, Nobody}
    PROVE  ServerInv'
<1>1. client[c] = from /\ client' = [client EXCEPT ![c] = to] /\ client \in [Clients -> AllSteps]
  BY DEF Goes, ServerInv, TypeOK, AllSteps, Begun
<1>2. client' \in [Clients -> AllSteps]
  BY <1>1 DEF AllSteps, Begun
<1>3. TypeOK'
  BY <1>2 DEF ServerInv, TypeOK, AllSteps, Begun, accepting, stopping
<1>4. /\ Started' = Started
      /\ \A d \in Clients : client'[d] = "accepted" <=> client[d] = "accepted"
      /\ \A d \in Clients : client[d] = "ended" => client'[d] = "ended"
  BY <1>1 DEF Begun, Started
<1>5. \A d \in freed : client'[d] = "ended"
  BY <1>4 DEF ServerInv, TypeOK, PlacesInv
<1> QED
  BY <1>3, <1>4, <1>5, TableStays DEF ServerInv, PlacesInv, stopping

(* A fault stops everything; if the stop found the accept thread idle it can   *)
(* only be of the display.                                                     *)
LEMMA FaultStays ==
    ASSUME ServerInv, NEW cause \in {"thread", "data", "display"}, Fault(cause),
           calm => cause = "display"
    PROVE  ServerInv'
<1>1. /\ UNCHANGED <<accepting, stopping, client, freed, mutex, quit, served>> /\ fault' = cause
  BY DEF Fault
<1>2. Started' = Started
  BY <1>1 DEF Started
<1>3. TypeOK'
  BY <1>1 DEF ServerInv, TypeOK, accepting, stopping
<1>4. PlacesInv'
  BY <1>1 DEF ServerInv, PlacesInv, accepting, stopping
<1>5. TableInv' /\ StopInv'
  BY <1>1, <1>2 DEF ServerInv, TableInv, StopInv, InUse, At, Distinct, accepting, stopping
<1>6. NoFault'
  BY <1>1 DEF NoFault, stopping
<1> QED
  BY <1>3, <1>4, <1>5, <1>6 DEF ServerInv

(* Every step of a client or its thread.                                       *)
LEMMA ClientStep ==
    ASSUME ServerInv, NEW c \in Clients, Connect(c) \/ Client(c)
    PROVE  ServerInv'
<1> USE DEF Begun
<1>0. quit \in BOOLEAN /\ served \subseteq Clients /\ mutex \in Clients \cup {Main, Nobody}
  BY DEF ServerInv, TypeOK
<1>1. CASE Connect(c)
  BY <1>0, <1>1, StepStays DEF Connect, Step
<1>2. CASE Start(c)
  BY <1>0, <1>2, StepStays DEF Start, Step
<1>3. CASE Read(c)
  BY <1>0, <1>3, StepStays DEF Read, Step
<1>4. CASE Dispatch(c)
  BY <1>0, <1>4, StepStays DEF Dispatch, Step
<1>5. CASE Lock(c)
  BY <1>0, <1>5, StepStays DEF Lock, Step
<1>6. CASE Work(c)
  BY <1>0, <1>6, StepStays DEF Work, Step
<1>7. CASE UseFreed(c)
  <2>1. main = "freed" /\ client[c] = "locking" /\ Fault("data")
    BY <1>7 DEF UseFreed
  <2>2. ~calm
    <3>1. SUFFICES ASSUME calm PROVE FALSE
      OBVIOUS
    <3>2. cancelled /\ next > len /\ Started \ freed = At(next .. len)
      BY <2>1, <3>1 DEF ServerInv, PlacesInv, StopInv
    <3>3. c \in Started /\ c \notin freed
      BY <2>1 DEF Started, ServerInv, PlacesInv
    <3> QED
      BY <3>2, <3>3 DEF At, ServerInv, TypeOK
  <2> QED
    BY <2>1, <2>2, FaultStays
<1>8. CASE Close(c)
  BY <1>0, <1>8, StepStays DEF Close, Step
<1>9. CASE Quit(c)
  <2>1. CASE main \in {"created", "hooked"}
    <3>1. /\ Goes(c, "closing", "answering") /\ quit' = (quit \/ main = "hooked")
          /\ served' = served \cup {c} /\ UNCHANGED <<accepting, stopping, freed, mutex, fault>>
      BY <1>9, <2>1 DEF Quit
    <3>2. quit' \in BOOLEAN /\ served' \subseteq Clients
      BY <1>0, <3>1
    <3> QED
      BY <1>0, <3>1, <3>2, StepStays
  <2>2. CASE main \notin {"created", "hooked"}
    BY <1>9, <2>2, FaultStays DEF Quit
  <2> QED
    BY <2>1, <2>2
<1>10. CASE Answer(c)
  BY <1>0, <1>10, StepStays DEF Answer, Step
<1>11. CASE End(c)
  BY <1>0, <1>11, StepStays DEF End, Step
<1> QED
  BY <1>1, <1>2, <1>3, <1>4, <1>5, <1>6, <1>7, <1>8, <1>9, <1>10, <1>11 DEF Client
-----------------------------------------------------------------------------
(* The main thread                                                             *)

(* Every step of the main thread: the hook, the stop, the joins, the end.      *)
LEMMA MainStep == ASSUME ServerInv, MainThread PROVE ServerInv'
<1> USE DEF Others
<1>0. main \in {"opening", "created", "hooked", "unhooked", "joining", "freed", "exited"}
  BY DEF ServerInv, TypeOK
<1>1. ASSUME UNCHANGED <<next, cancelled, calm, Others>>,
             main' \in {"opening", "created", "hooked", "unhooked", "joining", "freed", "exited"},
             mutex' \in Clients \cup {Main, Nobody},
             cancelled <=> main' \in {"joining", "freed", "exited"},
             main' \in {"freed", "exited"} => next > len \/ main \in {"freed", "exited"}
      PROVE  ServerInv'
  <2>1. TypeOK'
    BY <1>1 DEF ServerInv, TypeOK, accepting
  <2>2. Started' = Started /\ \A d \in freed : client'[d] = "ended"
    BY <1>1 DEF ServerInv, PlacesInv, Started
  <2> QED
    BY <1>1, <2>1, <2>2, TableStays DEF ServerInv
<1>2. /\ cancelled <=> main \in {"joining", "freed", "exited"}
      /\ mutex \in Clients \cup {Main, Nobody}
  BY DEF ServerInv, PlacesInv, TypeOK
<1>3. CASE OpenDisplay \/ EnableContext \/ Unhook
  BY <1>1, <1>2, <1>3 DEF OpenDisplay, EnableContext, Unhook, MainGoes
<1>4. CASE KeyEvent \/ KeyHandled
  BY <1>0, <1>1, <1>2, <1>4 DEF KeyEvent, KeyHandled, stopping
<1>5. CASE DataFree \/ Exit
  BY <1>1, <1>2, <1>5 DEF DataFree, Exit, MainGoes
<1>6. CASE StopServer
  <2>1. /\ main = "unhooked" /\ main' = "joining" /\ cancelled' = TRUE /\ next' = 1
        /\ calm' = (acceptor.at = "accept") /\ UNCHANGED <<mutex, Others>>
    BY <1>6 DEF StopServer, MainGoes, FirstJoined
  <2>2. ~cancelled /\ Started' = Started /\ UNCHANGED <<acceptor, table, len, freed, client, fault>>
    BY <1>2, <2>1 DEF Started, accepting
  <2>3. TypeOK'
    BY <2>1, <2>2, ServerAssumption DEF ServerInv, TypeOK
  <2>4. PlacesInv'
    BY <2>1, <2>2 DEF ServerInv, PlacesInv
  <2>5. StopInv'
    <3>1. ASSUME acceptor.at = "accept"
          PROVE  /\ \A c \in Clients : client[c] # "accepted"
                 /\ Distinct(1 .. len) /\ Started \ freed = At(1 .. len)
      BY <2>2, <3>1 DEF ServerInv, PlacesInv, TableInv, InUse
    <3> QED
      BY <2>1, <2>2, <3>1 DEF StopInv, At, Distinct
  <2>6. TableInv'
    BY <2>1 DEF TableInv
  <2>7. NoFault'
    BY <1>6, <2>2 DEF NoFault, StopServer, MainGoes, Alive
  <2> QED
    BY <2>3, <2>4, <2>5, <2>6, <2>7 DEF ServerInv
<1>7. CASE JoinClient
  <2> DEFINE c == table[next]
  <2>1. main = "joining" /\ next <= len /\ next \in 1 .. len /\ c \in Clients /\ cancelled
    BY <1>2, <1>7 DEF JoinClient, ServerInv, TypeOK, PlacesInv
  <2>2. CASE c \in freed
    <3>1. ~calm
      BY <2>1, <2>2 DEF ServerInv, StopInv, At, TypeOK
    <3> QED
      BY <1>7, <2>2, <3>1, FaultStays DEF JoinClient
  <2>3. CASE c \notin freed
    <3>1. /\ client[c] = "ended" /\ freed' = freed \cup {c} /\ next' = next + 1
          /\ UNCHANGED <<accepting, main, cancelled, calm, client, mutex, quit, served, fault>>
      BY <1>7, <2>3 DEF JoinClient, Ended
    <3>2. acceptor' = acceptor /\ table' = table /\ len' = len /\ Started' = Started
      BY <3>1 DEF accepting, Started
    <3>3. TypeOK'
      <4>1. next' \in 1 .. MaxThreads + 1 /\ freed' \subseteq Clients
        BY <2>1, <3>1, ServerAssumption DEF ServerInv, TypeOK
      <4> QED
        BY <3>1, <3>2, <4>1 DEF ServerInv, TypeOK
    <3>4. PlacesInv'
      BY <3>1, <3>2 DEF ServerInv, PlacesInv
    <3>5. TableInv'
      BY <2>1, <3>1 DEF TableInv
    <3>6. ASSUME calm PROVE Started' \ freed' = At(next' .. len)
      <4>1. Started \ freed = At(next .. len) /\ Distinct(1 .. len)
        BY <2>1, <3>6 DEF ServerInv, StopInv
      <4>2. \A k \in next + 1 .. len : table[k] # c
        BY <2>1, <4>1 DEF Distinct, ServerInv, TypeOK
      <4>3. next .. len = {next} \cup (next + 1 .. len)
        BY <2>1 DEF ServerInv, TypeOK
      <4>4. At(next .. len) = {c} \cup At(next + 1 .. len)
        BY <4>3 DEF At
      <4>5. c \notin At(next + 1 .. len)
        BY <4>2 DEF At
      <4> QED
        BY <3>1, <3>2, <4>1, <4>4, <4>5
    <3>7. StopInv'
      BY <2>1, <3>1, <3>2, <3>6 DEF ServerInv, StopInv, At, Distinct
    <3>8. NoFault'
      BY <3>1 DEF ServerInv, NoFault
    <3> QED
      BY <3>3, <3>4, <3>5, <3>7, <3>8 DEF ServerInv
  <2> QED
    BY <2>2, <2>3
<1> QED
  BY <1>3, <1>4, <1>5, <1>6, <1>7 DEF MainThread
-----------------------------------------------------------------------------
(* The accept thread                                                           *)

(* Where it is not waiting in accept, a calm stop has not happened.             *)
LEMMA Busy == ASSUME ServerInv, acceptor.at \notin {"accept", "dead"} PROVE ~(cancelled /\ calm)
BY DEF ServerInv, StopInv

(* The accept thread takes a client and goes on to the table.                  *)
LEMMA AcceptStep == ASSUME ServerInv, NEW c \in Clients, Accept(c) PROVE ServerInv'
<1>1. /\ acceptor.at = "accept" /\ ~cancelled /\ client[c] = "connected"
      /\ client' = [client EXCEPT ![c] = "accepted"]
      /\ acceptor' = [acceptor EXCEPT !.at = "full", !.client = c]
      /\ UNCHANGED <<table, len, main, next, cancelled, calm, freed, mutex, quit, served, fault>>
  BY DEF Accept, AcceptorAt, Goes, stopping
<1>2. /\ acceptor'.at = "full" /\ acceptor'.client = c
      /\ client \in [Clients -> AllSteps] /\ client' \in [Clients -> AllSteps]
  BY <1>1 DEF ServerInv, TypeOK, AllSteps, Begun
<1>3. TypeOK'
  BY <1>1, <1>2 DEF ServerInv, TypeOK, AllSteps, Begun
<1>4. Started' = Started
  BY <1>1, <1>2 DEF Started
<1>5. PlacesInv'
  BY <1>1, <1>2 DEF ServerInv, PlacesInv, Taken, TypeOK
<1>6. TableInv'
  <2>1. InUse' = InUse /\ InUse = 1 .. len
    BY <1>1, <1>2 DEF InUse
  <2> QED
    BY <1>1, <1>2, <1>4, <2>1 DEF ServerInv, TableInv, At, Distinct
<1>7. StopInv' /\ NoFault'
  BY <1>1 DEF ServerInv, StopInv, NoFault
<1> QED
  BY <1>3, <1>5, <1>6, <1>7 DEF ServerInv

\* Steps of the clearing of the table, which no client takes part in.
LEMMA ClearingStays ==
    ASSUME ServerInv, acceptor.at \notin {"accept", "dead"}, TypeOK', PlacesInv',
           UNCHANGED <<main, cancelled, calm, fault>>, acceptor'.at # "dead",
           ~cancelled =>
             /\ Distinct(InUse)'
             /\ (Started \ freed)' = At(InUse)' \cup IF acceptor'.at = "register"
                                                     THEN {acceptor'.client} ELSE {}
             /\ acceptor'.at = "register" => acceptor'.client \notin At(InUse)'
    PROVE  ServerInv'
<1>1. TableInv'
  BY DEF TableInv
<1>2. StopInv'
  BY Busy DEF StopInv
<1> QED
  BY <1>1, <1>2 DEF ServerInv, NoFault

(* A full table is scanned first, any other has room.                          *)
LEMMA CheckFullStep == ASSUME ServerInv, CheckFull PROVE ServerInv'
<1>1. /\ acceptor.at = "full"
      /\ acceptor' = IF len = MaxThreads THEN [acceptor EXCEPT !.at = "scan", !.i = 1, !.nsize = 0]
                                         ELSE [acceptor EXCEPT !.at = "create"]
      /\ UNCHANGED <<table, len, main, next, cancelled, calm, client, freed, mutex, quit, served, fault>>
  BY DEF CheckFull, AcceptorAt, Full, stopping
<1>2. /\ len = MaxThreads => acceptor'.at = "scan" /\ acceptor'.i = 1 /\ acceptor'.nsize = 0
      /\ len # MaxThreads => acceptor'.at = "create"
      /\ acceptor'.client = acceptor.client
  BY <1>1 DEF ServerInv, TypeOK
<1>3. TypeOK'
  <2>1. 1 \in 1 .. MaxThreads + 1 /\ 0 \in 0 .. MaxThreads
    BY ServerAssumption
  <2>2. acceptor' \in [at : {"accept", "full", "scan", "join", "create", "register", "dead"},
                       i : 1 .. MaxThreads + 1, nsize : 0 .. MaxThreads,
                       client : Clients \cup {Nobody}]
    BY <1>1, <2>1 DEF ServerInv, TypeOK
  <2> QED
    BY <1>1, <1>2, <2>2 DEF ServerInv, TypeOK
<1>4. len # MaxThreads => len < MaxThreads
  BY ServerAssumption DEF ServerInv, TypeOK
<1>5. PlacesInv'
  BY <1>1, <1>2, <1>4 DEF ServerInv, TypeOK, PlacesInv, Taken
<1>6. InUse' = InUse
  <2>1. InUse = 1 .. len
    BY <1>1 DEF InUse
  <2>2. (1 .. 0) \cup (1 .. len) = 1 .. len
    OBVIOUS
  <2> QED
    BY <1>1, <1>2, <2>1, <2>2 DEF InUse
<1>7. Started' = Started
  BY <1>1 DEF Started
<1> QED
  BY <1>1, <1>2, <1>3, <1>5, <1>6, <1>7, ClearingStays DEF ServerInv, TableInv, At, Distinct

(* The scan keeps a thread that runs, in the first free place below it.        *)
LEMMA ScanStep == ASSUME ServerInv, Scan PROVE ServerInv'
<1> DEFINE c == table[acceptor.i]
           n == acceptor.nsize
<1>1. /\ acceptor.at = "scan" /\ acceptor.i \in 1 .. len /\ n \in 0 .. MaxThreads /\ n < acceptor.i
      /\ len \in 0 .. MaxThreads /\ MaxThreads \in Nat /\ c \in Clients
  BY ServerAssumption DEF Scan, AcceptorAt, ServerInv, TypeOK, PlacesInv
<1>2. CASE c \in freed
  <2>1. cancelled
    <3>1. SUFFICES ASSUME ~cancelled PROVE FALSE
      OBVIOUS
    <3> QED
      BY <1>1, <1>2, <3>1 DEF ServerInv, TableInv, InUse, At
  <2>2. ~calm
    BY <1>1, <2>1, Busy
  <2> QED
    BY <1>2, <2>2, FaultStays DEF Scan
<1>3. CASE c \notin freed /\ IsRunning(c)
  <2>1. /\ table' = [table EXCEPT ![n + 1] = c]
        /\ acceptor' = [acceptor EXCEPT !.i = @ + 1, !.nsize = @ + 1]
        /\ UNCHANGED <<len, main, next, cancelled, calm, client, freed, mutex, quit, served, fault>>
    BY <1>3 DEF Scan, Kept, stopping
  <2>2. /\ acceptor'.at = "scan" /\ acceptor'.i = acceptor.i + 1 /\ acceptor'.nsize = n + 1
        /\ acceptor'.client = acceptor.client
    BY <1>1, <2>1 DEF ServerInv, TypeOK
  <2>3. /\ table \in [1 .. MaxThreads -> Clients \cup {Nobody}] /\ n + 1 \in 1 .. MaxThreads
        /\ \A k \in 1 .. MaxThreads : table'[k] = IF k = n + 1 THEN c ELSE table[k]
    BY <1>1, <2>1 DEF ServerInv, TypeOK
  <2>4. TypeOK'
    <3>1. acceptor' \in [at : {"accept", "full", "scan", "join", "create", "register", "dead"},
                         i : 1 .. MaxThreads + 1, nsize : 0 .. MaxThreads,
                         client : Clients \cup {Nobody}]
      <4>1. acceptor.i + 1 \in 1 .. MaxThreads + 1 /\ n + 1 \in 0 .. MaxThreads
        BY <1>1
      <4> QED
        BY <2>1, <4>1 DEF ServerInv, TypeOK
    <3>2. table' \in [1 .. MaxThreads -> Clients \cup {Nobody}]
      BY <1>1, <2>1, <2>3
    <3> QED
      BY <2>1, <2>2, <3>1, <3>2 DEF ServerInv, TypeOK
  <2>5. PlacesInv'
    BY <1>1, <2>1, <2>2, <2>3 DEF ServerInv, PlacesInv, Taken
  <2>6. ASSUME ~cancelled PROVE Distinct(InUse)' /\ (Started \ freed)' = At(InUse)'
    <3>1. Distinct(InUse) /\ Started \ freed = At(InUse)
      BY <1>1, <2>6 DEF ServerInv, TableInv
    <3>2. /\ InUse = (1 .. n) \cup (acceptor.i .. len)
          /\ InUse' = (1 .. n + 1) \cup (acceptor.i + 1 .. len)
      BY <1>1, <2>1, <2>2 DEF InUse
    <3>3. \A k \in InUse' : \/ k = n + 1 /\ table'[k] = c
                            \/ k # n + 1 /\ k \in InUse \ {acceptor.i} /\ table'[k] = table[k]
      BY <1>1, <2>3, <3>2
    <3>4. \A k \in InUse : \/ k = acceptor.i /\ table[k] = c
                           \/ k # acceptor.i /\ k \in InUse' \ {n + 1} /\ table'[k] = table[k]
      BY <1>1, <2>3, <3>2
    <3>5. acceptor.i \in InUse /\ n + 1 \in InUse' /\ table'[n + 1] = c
      BY <1>1, <2>3, <3>2
    <3>6. Distinct(InUse)'
      BY <3>1, <3>3, <3>5 DEF Distinct
    <3>7. At(InUse)' = At(InUse)
      BY <3>3, <3>4, <3>5 DEF At
    <3>8. (Started \ freed)' = Started \ freed
      BY <2>1 DEF Started
    <3> QED
      BY <3>1, <3>6, <3>7, <3>8
  <2> QED
    BY <1>1, <2>1, <2>2, <2>4, <2>5, <2>6, ClearingStays
<1>4. CASE c \notin freed /\ ~IsRunning(c)
  <2>1. /\ acceptor' = [acceptor EXCEPT !.at = "join"]
        /\ UNCHANGED <<table, len, main, next, cancelled, calm, client, freed, mutex, quit, served, fault>>
    BY <1>4 DEF Scan, stopping
  <2>2. /\ acceptor'.at = "join" /\ acceptor'.i = acceptor.i /\ acceptor'.nsize = n
        /\ acceptor'.client = acceptor.client
    BY <2>1 DEF ServerInv, TypeOK
  <2>3. TypeOK'
    BY <2>1 DEF ServerInv, TypeOK
  <2>4. PlacesInv'
    BY <1>1, <2>1, <2>2 DEF ServerInv, PlacesInv, Taken
  <2>5. InUse' = InUse /\ Started' = Started
    BY <1>1, <2>1, <2>2 DEF InUse, Started
  <2> QED
    BY <1>1, <2>1, <2>2, <2>3, <2>4, <2>5, ClearingStays DEF ServerInv, TableInv, At, Distinct
<1> QED
  BY <1>2, <1>3, <1>4

(* The scan joins a thread that has ended, and forgets it.                     *)
LEMMA JoinStep == ASSUME ServerInv, Join PROVE ServerInv'
<1> DEFINE c == table[acceptor.i]
           n == acceptor.nsize
<1>1. /\ acceptor.at = "join" /\ acceptor.i \in 1 .. len /\ n \in 0 .. MaxThreads /\ n < acceptor.i
      /\ len \in 0 .. MaxThreads /\ MaxThreads \in Nat /\ c \in Clients
  BY ServerAssumption DEF Join, AcceptorAt, ServerInv, TypeOK, PlacesInv
<1>2. CASE c \in freed
  <2>1. cancelled
    <3>1. SUFFICES ASSUME ~cancelled PROVE FALSE
      OBVIOUS
    <3> QED
      BY <1>1, <1>2, <3>1 DEF ServerInv, TableInv, InUse, At
  <2>2. ~calm
    BY <1>1, <2>1, Busy
  <2> QED
    BY <1>2, <2>2, FaultStays DEF Join
<1>3. CASE c \notin freed
  <2>1. /\ client[c] = "ended" /\ freed' = freed \cup {c}
        /\ acceptor' = [acceptor EXCEPT !.at = "scan", !.i = @ + 1]
        /\ UNCHANGED <<table, len, main, next, cancelled, calm, client, mutex, quit, served, fault>>
    BY <1>3 DEF Join, Ended, stopping
  <2>2. /\ acceptor'.at = "scan" /\ acceptor'.i = acceptor.i + 1 /\ acceptor'.nsize = n
        /\ acceptor'.client = acceptor.client
    BY <1>1, <2>1 DEF ServerInv, TypeOK
  <2>3. TypeOK'
    <3>1. acceptor.i + 1 \in 1 .. MaxThreads + 1
      BY <1>1
    <3>2. acceptor' \in [at : {"accept", "full", "scan", "join", "create", "register", "dead"},
                         i : 1 .. MaxThreads + 1, nsize : 0 .. MaxThreads,
                         client : Clients \cup {Nobody}]
      BY <2>1, <3>1 DEF ServerInv, TypeOK
    <3> QED
      BY <1>1, <2>1, <2>2, <3>2 DEF ServerInv, TypeOK
  <2>4. PlacesInv'
    BY <1>1, <2>1, <2>2 DEF ServerInv, PlacesInv, Taken
  <2>5. ASSUME ~cancelled PROVE Distinct(InUse)' /\ (Started \ freed)' = At(InUse)'
    <3>1. Distinct(InUse) /\ Started \ freed = At(InUse)
      BY <1>1, <2>5 DEF ServerInv, TableInv
    <3>2. /\ InUse = (1 .. n) \cup (acceptor.i .. len)
          /\ InUse' = (1 .. n) \cup (acceptor.i + 1 .. len)
      BY <1>1, <2>1, <2>2 DEF InUse
    <3>3. InUse = InUse' \cup {acceptor.i} /\ acceptor.i \notin InUse'
      BY <1>1, <3>2
    <3>4. Distinct(InUse)'
      BY <2>1, <3>1, <3>3 DEF Distinct
    <3>5. At(InUse) = At(InUse)' \cup {c} /\ c \notin At(InUse)'
      BY <2>1, <3>1, <3>3 DEF At, Distinct
    <3>6. (Started \ freed)' = (Started \ freed) \ {c}
      BY <2>1 DEF Started
    <3> QED
      BY <3>1, <3>4, <3>5, <3>6
  <2> QED
    BY <1>1, <2>1, <2>2, <2>3, <2>4, <2>5, ClearingStays
<1> QED
  BY <1>2, <1>3

(* After the scan the table is as long as what was kept.                       *)
LEMMA ScannedStep == ASSUME ServerInv, Scanned PROVE ServerInv'
<1>1. /\ acceptor.at = "scan" /\ acceptor.i > len /\ len' = acceptor.nsize
      /\ acceptor' = [acceptor EXCEPT !.at = "full"]
      /\ UNCHANGED <<table, main, next, cancelled, calm, client, freed, mutex, quit, served, fault>>
  BY DEF Scanned, AcceptorAt, stopping
<1>2. /\ acceptor'.at = "full" /\ acceptor'.client = acceptor.client
      /\ len \in 0 .. MaxThreads /\ len' \in 0 .. MaxThreads /\ MaxThreads \in Nat
      /\ acceptor.i \in Nat
  BY <1>1, ServerAssumption DEF ServerInv, TypeOK
<1>3. TypeOK'
  BY <1>1, <1>2 DEF ServerInv, TypeOK
<1>4. PlacesInv'
  <2>1. \A k \in 1 .. len' : table[k] \in Clients
    BY <1>1, <1>2 DEF ServerInv, TypeOK, PlacesInv
  <2> QED
    BY <1>1, <1>2, <2>1 DEF ServerInv, PlacesInv, Taken
<1>5. InUse' = InUse
  <2>1. acceptor.i .. len = {}
    BY <1>1, <1>2
  <2> QED
    BY <1>1, <1>2, <2>1 DEF InUse
<1>6. Started' = Started
  BY <1>1 DEF Started
<1> QED
  BY <1>1, <1>2, <1>3, <1>4, <1>5, <1>6, ClearingStays DEF ServerInv, TableInv, At, Distinct

(* A thread is started before it is in the table.                              *)
LEMMA CreateStep == ASSUME ServerInv, Create PROVE ServerInv'
<1> DEFINE c == acceptor.client
<1>1. /\ acceptor.at = "create" /\ client[c] = "accepted" /\ client' = [client EXCEPT ![c] = "created"]
      /\ acceptor' = [acceptor EXCEPT !.at = "register"]
      /\ UNCHANGED <<table, len, main, next, cancelled, calm, freed, mutex, quit, served, fault>>
  BY DEF Create, AcceptorAt, Goes, stopping
<1>2. /\ acceptor'.at = "register" /\ acceptor'.client = c /\ c \in Clients
      /\ client \in [Clients -> AllSteps] /\ client' \in [Clients -> AllSteps]
  BY <1>1 DEF ServerInv, TypeOK, PlacesInv, Taken, AllSteps, Begun
<1>3. TypeOK'
  BY <1>1, <1>2 DEF ServerInv, TypeOK, PlacesInv, AllSteps, Begun
<1>4. PlacesInv'
  BY <1>1, <1>2 DEF ServerInv, PlacesInv, Taken, TypeOK
<1>5. InUse' = InUse /\ InUse = 1 .. len
  BY <1>1, <1>2 DEF InUse
<1>6. Started' = Started \cup {c} /\ c \notin Started /\ c \notin freed
  BY <1>1, <1>2 DEF Started, ServerInv, PlacesInv
<1>7. ~cancelled => (Started \ freed)' = At(InUse)' \cup {c} /\ c \notin At(InUse)'
  BY <1>1, <1>5, <1>6 DEF ServerInv, TableInv, At
<1>8. ~cancelled => Distinct(InUse)'
  BY <1>1, <1>5 DEF ServerInv, TableInv, Distinct
<1> QED
  BY <1>1, <1>2, <1>3, <1>4, <1>7, <1>8, ClearingStays

(* Then it is in the table, once, and the accept thread is between clients     *)
(* again.                                                                      *)
LEMMA RegisterStep == ASSUME ServerInv, Register PROVE ServerInv'
<1> DEFINE c == acceptor.client
<1>1. /\ acceptor.at = "register" /\ table' = [table EXCEPT ![len + 1] = c] /\ len' = len + 1
      /\ acceptor' = [acceptor EXCEPT !.at = "accept", !.client = Nobody]
      /\ UNCHANGED <<main, next, cancelled, calm, client, freed, mutex, quit, served, fault>>
  BY DEF Register, AcceptorAt, stopping
<1>2. /\ acceptor'.at = "accept" /\ c \in Clients /\ len \in Nat /\ len + 1 \in 1 .. MaxThreads
      /\ table \in [1 .. MaxThreads -> Clients \cup {Nobody}]
  BY <1>1, ServerAssumption DEF ServerInv, TypeOK, PlacesInv, Taken
<1>3. /\ table' \in [1 .. MaxThreads -> Clients \cup {Nobody}]
      /\ table'[len + 1] = c /\ \A k \in 1 .. len : table'[k] = table[k]
  BY <1>1, <1>2
<1>4. TypeOK'
  <2>1. acceptor' \in [at : {"accept", "full", "scan", "join", "create", "register", "dead"},
                       i : 1 .. MaxThreads + 1, nsize : 0 .. MaxThreads,
                       client : Clients \cup {Nobody}]
    BY <1>1 DEF ServerInv, TypeOK
  <2> QED
    BY <1>1, <1>2, <1>3, <2>1 DEF ServerInv, TypeOK
<1>5. 1 .. len' = (1 .. len) \cup {len + 1} /\ len + 1 \notin 1 .. len
  BY <1>1, <1>2
<1>6. PlacesInv'
  BY <1>1, <1>2, <1>3, <1>5 DEF ServerInv, PlacesInv, Taken
<1>7. InUse = 1 .. len /\ InUse' = 1 .. len'
  BY <1>1, <1>2 DEF InUse
<1>8. ASSUME ~cancelled PROVE Distinct(InUse)' /\ (Started \ freed)' = At(InUse)'
  <2>1. Distinct(1 .. len) /\ Started \ freed = At(1 .. len) \cup {c} /\ c \notin At(1 .. len)
    BY <1>1, <1>7, <1>8 DEF ServerInv, TableInv
  <2>2. At(InUse)' = At(1 .. len) \cup {c}
    BY <1>3, <1>5, <1>7 DEF At
  <2>3. Distinct(InUse)'
    BY <1>3, <1>5, <1>7, <2>1 DEF Distinct, At
  <2>4. (Started \ freed)' = Started \ freed
    BY <1>1 DEF Started
  <2> QED
    BY <2>1, <2>2, <2>3, <2>4
<1> QED
  BY <1>1, <1>2, <1>4, <1>6, <1>8, ClearingStays

(* A stop ends the accept thread, waiting or joining, and leaves the table to  *)
(* server_stop.                                                                *)
LEMMA DieStep == ASSUME ServerInv, Die PROVE ServerInv'
<1>1. /\ cancelled /\ acceptor.at \in {"accept", "join"} /\ acceptor' = [acceptor EXCEPT !.at = "dead"]
      /\ UNCHANGED <<table, len, main, next, cancelled, calm, client, freed, mutex, quit, served, fault>>
  BY DEF Die, AcceptorAt, stopping
<1>2. acceptor'.at = "dead"
  BY <1>1 DEF ServerInv, TypeOK
<1>3. TypeOK'
  BY <1>1 DEF ServerInv, TypeOK
<1>4. PlacesInv'
  BY <1>1, <1>2 DEF ServerInv, PlacesInv, Taken
<1>5. TableInv'
  BY <1>1 DEF TableInv
<1>6. StopInv' /\ NoFault'
  BY <1>1, <1>2 DEF ServerInv, StopInv, NoFault, Started, At, Distinct
<1> QED
  BY <1>3, <1>4, <1>5, <1>6 DEF ServerInv
-----------------------------------------------------------------------------
(* The invariant holds in the first state.                                     *)
LEMMA ServerInit == Init => ServerInv
<1> SUFFICES ASSUME Init PROVE ServerInv
  OBVIOUS
<1>1. TypeOK
  <2>1. 1 \in 1 .. MaxThreads + 1 /\ 0 \in 0 .. MaxThreads
    BY ServerAssumption
  <2> QED
    BY <2>1 DEF Init, TypeOK
<1>2. PlacesInv
  BY DEF Init, PlacesInv, Taken
<1>3. TableInv
  BY DEF Init, TableInv, InUse, At, Distinct, Started
<1>4. StopInv /\ NoFault
  BY DEF Init, StopInv, NoFault
<1> QED
  BY <1>1, <1>2, <1>3, <1>4 DEF ServerInv

(* Every step keeps it.                                                        *)
LEMMA ServerStep == ServerInv /\ [Next]_vars => ServerInv'
<1> SUFFICES ASSUME ServerInv, [Next]_vars PROVE ServerInv'
  OBVIOUS
<1>1. CASE UNCHANGED vars
  BY <1>1 DEF vars, accepting, stopping, ServerInv, TypeOK, PlacesInv, TableInv, StopInv, NoFault,
              InUse, At, Distinct, Started
<1>2. CASE Acceptor
  BY <1>2, AcceptStep, CheckFullStep, ScanStep, JoinStep, ScannedStep, CreateStep, RegisterStep,
     DieStep DEF Acceptor
<1>3. CASE MainThread
  BY <1>3, MainStep
<1>4. CASE \E c \in Clients : Connect(c) \/ Client(c)
  BY <1>4, ClientStep
<1> QED
  BY <1>1, <1>2, <1>3, <1>4 DEF Next, Done

(* It always holds.                                                            *)
LEMMA ServerAlways == Spec => []ServerInv
BY ServerInit, ServerStep, PTL DEF Spec

(* Every value of the constants keeps the types, and no step writes the table  *)
(* past its end (__server_start).                                              *)
THEOREM TypeCorrect == Spec => []TypeOK
BY ServerAlways, PTL DEF ServerInv

(* Until texc stops, the table holds every thread that was started and not     *)
(* joined, once, and no other (__server_start).                                *)
THEOREM EveryThreadOnce == Spec => []TableExact
<1>1. ServerInv => TableExact
  BY DEF ServerInv, TableInv, InUse, At, Distinct, TableExact, Registered
<1> QED
  BY <1>1, ServerAlways, PTL

(* A texc whose accept thread was waiting as it stopped joins every thread     *)
(* once, and each has answered before data_free (server_stop, main).           *)
THEOREM StopIsClean == Spec => []StopsCleanly
<1>1. ServerInv => StopsCleanly
  <2> SUFFICES ASSUME ServerInv, calm PROVE StopsCleanly
    BY DEF StopsCleanly
  <2>1. fault \notin {"thread", "data"}
    BY DEF ServerInv, NoFault
  <2>2. ASSUME main \in {"freed", "exited"}, NEW c \in Clients
        PROVE  client[c] \in {"new", "connected", "ended"}
    <3>1. /\ client[c] # "accepted" /\ next > len /\ Started \ freed = At(next .. len)
          /\ \A d \in freed : client[d] = "ended"
      BY <2>2 DEF ServerInv, PlacesInv, StopInv
    <3>2. next .. len = {}
      BY <3>1 DEF ServerInv, TypeOK
    <3>3. At(next .. len) = {}
      BY <3>2 DEF At
    <3> QED
      BY <3>1, <3>3 DEF Started
  <2> QED
    BY <2>1, <2>2 DEF StopsCleanly
<1> QED
  BY <1>1, ServerAlways, PTL
=============================================================================
