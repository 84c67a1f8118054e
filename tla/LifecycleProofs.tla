-------------------------- MODULE LifecycleProofs --------------------------
(***************************************************************************)
(* Proofs about Lifecycle, for any number of texcs, clients, ports, text   *)
(* expansions and requests.                                                *)
(***************************************************************************)
EXTENDS Lifecycle, FiniteSetTheorems, TLAPS

\* Where a process holds a lock, and where a texc listens
Locked == {"holding", "writing", "running", "stopping", "saving", "ending", "signalled"}
Open == {"locking", "failing", "writing", "running", "stopping", "signalled", "unlinking",
         "unlocked"}

LocksHeld == \A a \in Actors : fd[a] # 0 <=> pc[a] \in Locked

ListenersOpen == \A t \in listeners : pc[t] \in Open

\* A save goes on while its texc is there; the one client it is for waits or has given up.
SavesUp == \A t \in Texcs : job[t] # {} => Up(t) \/ Ending(t) \/ pc[t] = "signalled"

SavesFor ==
    \A t \in Texcs : \A j \in job[t] : j.client # None =>
      /\ pc[j.client] \in {"waiting", "failed"}
      /\ \E r \in Requests : request[j.client] = {r} /\ r.kind # "close"
      /\ \A u \in Texcs \ {t} : \A k \in job[u] : k.client # j.client

ShapeInv == TypeOK /\ LocksHeld /\ ListenersOpen /\ SavesUp /\ SavesFor

-----------------------------------------------------------------------------
\* A texc that has not met one that was ending knows which file it has locked.
FileKept ==
    \A t \in Texcs \ met :
      /\ pc[t] \in {"holding", "writing"} => fd[t] = path
      /\ Up(t) => FileOk(t)

\* While one texc ends every other process that is there has met it.
EndingMet == \A t, u \in Texcs : Ending(u) /\ t # u /\ Active(t) => t \in met

\* A texc that no other has been with has nobody around it, and got every lock.
AloneInv ==
    \A t \in alone :
      /\ Active(t) => \A b \in Actors \ {t} : ~Active(b)
      /\ pc[t] \notin {"idle", "reading", "failing", "refused"}

-----------------------------------------------------------------------------
\* What was answered agrees with what is held.
Agrees(e, held) == (promise[e] = "in" => e \in held) /\ (promise[e] = "out" => e \notin held)

OnePast == \A t, u \in Texcs : Past(t) /\ Past(u) => t = u

\* Where a texc is once it has loaded its expansions
Held == {"listening", "locking", "writing", "running", "stopping", "saving", "ending",
         "signalled", "unlinking", "unlocked"}
Loaded(t) == pc[t] \in Held

TableAgrees == \A t \in Texcs : Loaded(t) => \A e \in Entries : Agrees(e, table[t])

\* A save has written the groups it is done with, and is for the change it was begun by.
SavesDone ==
    \A t \in Texcs : \A j \in job[t] :
      /\ \A g \in Groups \ (j.todo \cup j.open) : disk[g] = table[t] \cap Of(g)
      /\ \A f, g \in j.open : f = g
      /\ \A r \in Requests : j.client # None /\ request[j.client] = {r} =>
           (r.entry \in table[t] <=> r.kind = "add")

AckInv == AckedIsKept /\ (~overlap => OnePast /\ TableAgrees /\ SavesDone)
-----------------------------------------------------------------------------
(* The port file, its lock, and where the processes are                        *)

FileShape ==
    /\ pc \in [Actors -> Steps] /\ path \in {0} \cup Inodes
    /\ content \in [Inodes -> Texcs \cup {None}] /\ holder \in [Inodes -> Actors \cup {None}]
    /\ fd \in [Actors -> {0} \cup Inodes]
    /\ \A a \in Actors, i \in Inodes : holder[i] = a <=> fd[a] = i
    /\ LocksHeld

(* There is always an inode nobody has open for the file that is created.      *)
LEMMA FreshInode ==
    ASSUME fd \in [Actors -> {0} \cup Inodes]
    PROVE  \E i \in Inodes : \A a \in Actors : fd[a] # i
<1> DEFINE n == Cardinality(Actors)
           used == {fd[a] : a \in Actors}
<1>1. IsFiniteSet(Actors) /\ n \in Nat
  BY LifecycleAssumption, FS_CardinalityType
<1>2. fd \in Surjection(Actors, used)
  BY DEF Surjection
<1>3. IsFiniteSet(used) /\ Cardinality(used) <= n
  <2> HIDE DEF used
  <2> QED
    BY <1>1, <1>2, FS_Surjection
<1>4. Cardinality(Inodes) = n + 1
  BY <1>1, FS_Interval DEF Inodes
<1>5. ~(Inodes \subseteq used)
  <2>1. SUFFICES ASSUME Inodes \subseteq used PROVE FALSE
    OBVIOUS
  <2>2. Cardinality(Inodes) <= Cardinality(used) /\ Cardinality(used) \in Nat
    BY <1>3, <2>1, FS_Subset, FS_CardinalityType
  <2> QED
    BY <1>1, <1>3, <1>4, <2>2
<1> QED
  BY <1>5

(* filelock_acquire opens the file the path names, or one nobody has open.     *)
LEMMA OpenedInode ==
    ASSUME FileShape
    PROVE  /\ Opened \in Inodes /\ Opened # 0
           /\ path # 0 => Opened = path
           /\ path = 0 => \A a \in Actors : fd[a] # Opened
<1>1. Cardinality(Actors) \in Nat
  BY LifecycleAssumption, FS_CardinalityType
<1>2. 0 \notin Inodes
  BY <1>1 DEF Inodes
<1>3. CASE path = 0
  <2>1. \E i \in Inodes : \A a \in Actors : fd[a] # i
    BY FreshInode DEF FileShape
  <2>2. Opened \in Inodes /\ \A a \in Actors : fd[a] # Opened
    BY <1>3, <2>1 DEF Opened
  <2> QED
    BY <1>2, <1>3, <2>2
<1>4. CASE path # 0
  BY <1>2, <1>4 DEF Opened, FileShape
<1> QED
  BY <1>3, <1>4

(* The ways a step can touch the file: filelock_acquire, the end of a lock, or *)
(* a process that goes on as it is.                                            *)
LEMMA AcquireShape ==
    ASSUME FileShape, NEW a \in Actors, pc[a] \notin Locked,
           NEW locked \in Steps \cap Locked, NEW busy \in Steps \ Locked,
           Acquire(a, locked, busy)
    PROVE  FileShape'
<1> DEFINE i == Opened
<1>1. i \in Inodes /\ 0 \notin Inodes /\ fd[a] = 0 /\ None \notin Actors
  BY OpenedInode, LifecycleAssumption, FS_CardinalityType DEF FileShape, LocksHeld, Inodes
<1>2. path' = i /\ content' = IF path = 0 THEN [content EXCEPT ![i] = None] ELSE content
  BY Zenon DEF Acquire
<1>3. path' \in Inodes /\ content' \in [Inodes -> Texcs \cup {None}]
  BY <1>1, <1>2 DEF FileShape
<1>4. CASE Free(i)
  <2>1. holder' = [holder EXCEPT ![i] = a] /\ fd' = [fd EXCEPT ![a] = i]
        /\ pc' = [pc EXCEPT ![a] = locked]
    BY <1>4, Zenon DEF Acquire, Goes
  <2> HIDE DEF i
  <2> QED
    BY <1>1, <1>3, <1>4, <2>1 DEF FileShape, Free, LocksHeld
<1>5. CASE ~Free(i)
  <2>1. UNCHANGED <<holder, fd>> /\ pc' = [pc EXCEPT ![a] = busy]
    BY <1>5, Zenon DEF Acquire, Goes
  <2> QED
    BY <1>1, <1>3, <2>1 DEF FileShape, LocksHeld
<1> QED
  BY <1>4, <1>5

(* filelock_release: the lock goes with the last one who had the file open.    *)
LEMMA UnlockShape ==
    ASSUME FileShape, NEW a \in Actors, Unlocked(a),
           path' \in {0} \cup Inodes, UNCHANGED content,
           pc' \in [Actors -> Steps], pc'[a] \notin Locked,
           \A b \in Actors \ {a} : pc'[b] \in Locked <=> pc[b] \in Locked
    PROVE  FileShape'
<1>1. 0 \notin Inodes /\ None \notin Actors
  BY LifecycleAssumption, FS_CardinalityType DEF Inodes
<1>2. fd' = [fd EXCEPT ![a] = 0]
      /\ holder' = [i \in Inodes |-> IF holder[i] = a THEN None ELSE holder[i]]
  BY DEF Unlocked
<1>3. fd' \in [Actors -> {0} \cup Inodes] /\ holder' \in [Inodes -> Actors \cup {None}]
  BY <1>2 DEF FileShape
<1>4. \A b \in Actors, i \in Inodes : holder'[i] = b <=> fd'[b] = i
  BY <1>1, <1>2 DEF FileShape
<1>5. LocksHeld'
  BY <1>2 DEF FileShape, LocksHeld
<1> QED
  BY <1>3, <1>4, <1>5 DEF FileShape

(* A step that locks and unlocks nothing leaves locks and places in step.      *)
LEMMA StayShape ==
    ASSUME FileShape, UNCHANGED <<holder, fd>>,
           path' \in {0} \cup Inodes, content' \in [Inodes -> Texcs \cup {None}],
           pc' \in [Actors -> Steps],
           \A b \in Actors : pc'[b] \in Locked <=> pc[b] \in Locked
    PROVE  FileShape'
BY DEF FileShape, LocksHeld

(* So does a process that goes on without touching the file.                   *)
LEMMA GoesShape ==
    ASSUME FileShape, UNCHANGED file, NEW a \in Actors, NEW to \in Steps, Goes(a, to),
           to \in Locked <=> pc[a] \in Locked
    PROVE  FileShape'
<1>1. pc' \in [Actors -> Steps] /\ \A b \in Actors : pc'[b] \in Locked <=> pc[b] \in Locked
  BY DEF FileShape, Goes
<1> QED
  BY <1>1, StayShape DEF FileShape, file
-----------------------------------------------------------------------------
(* The other two parts of the shape: the network and the store                 *)

NetShape ==
    /\ port \in [Texcs -> SUBSET Ports]
    /\ \A t \in listeners : \A u \in listeners \ {t} : port[t] # port[u]
    /\ listeners \subseteq Texcs /\ alone \subseteq Texcs /\ met \subseteq Texcs
    /\ key \in [Clients -> Texcs \cup {None}]
    /\ request \in [Clients -> SUBSET Requests]
    /\ overlap \in BOOLEAN
    /\ ListenersOpen

Save == [client : Clients \cup {None}, todo : SUBSET Groups, open : SUBSET Groups]

StoreShape ==
    /\ table \in [Texcs -> SUBSET Entries]
    /\ job \in [Texcs -> SUBSET Save]
    /\ \A t \in Texcs : \A j \in job[t] : job[t] = {j}
    /\ disk \in [Groups -> SUBSET Entries] /\ \A g \in Groups : disk[g] \subseteq Of(g)
    /\ promise \in [Entries -> {"in", "out", "open"}]
    /\ SavesUp /\ SavesFor

(* The three parts together are the shape.                                     *)
LEMMA ShapeParts == ShapeInv <=> FileShape /\ NetShape /\ StoreShape
<1>1. FileShape => \A t \in Texcs : Up(t) => fd[t] # 0
  BY DEF FileShape, LocksHeld, Locked, Up, Actors
<1> QED
  BY <1>1 DEF ShapeInv, TypeOK, FileShape, NetShape, StoreShape, Save

(* Where a process goes from client_prepare                                    *)
LEMMA PreparedGoes ==
    ASSUME NEW a \in Actors, NEW running \in BOOLEAN, Prepared(a, running)
    PROVE  \E to \in {"refused", "loading", "asking", "failed"} :
             /\ Goes(a, to)
             /\ a \in Texcs => to = IF running THEN "refused" ELSE "loading"
             /\ a \notin Texcs => to \in {"asking", "failed"}
<1>1. CASE a \in Texcs
  BY <1>1 DEF Prepared
<1>2. CASE a \notin Texcs
  BY <1>2 DEF Prepared
<1> QED
  BY <1>1, <1>2

(* The end of a texc takes the client it was to answer with it, and no other.  *)
LEMMA LeftMoves ==
    ASSUME FileShape, StoreShape, NEW t \in Texcs, NEW as \in Steps, Left(t, as)
    PROVE  /\ pc' \in [Actors -> Steps] /\ pc'[t] = as
           /\ \A b \in Actors \ {t} :
                \/ pc'[b] = pc[b]
                \/ b \in Clients /\ pc[b] \in {"waiting", "failed"} /\ pc'[b] = "failed"
           /\ \A b \in Texcs \ {t} : pc'[b] = pc[b]
<1>1. ASSUME NEW b \in Actors, NEW j \in job[t], j.client = b
      PROVE  b \in Clients /\ pc[b] \in {"waiting", "failed"}
  <2>1. j \in Save
    BY DEF StoreShape
  <2>2. b # None /\ j.client \in Clients \cup {None}
    BY <2>1, LifecycleAssumption DEF Save
  <2> QED
    BY <1>1, <2>2 DEF StoreShape, SavesFor
<1>2. pc' = [a \in Actors |-> IF a = t THEN as
                              ELSE IF \E j \in job[t] : j.client = a THEN "failed" ELSE pc[a]]
  BY DEF Left
<1>3. pc' \in [Actors -> Steps]
  BY <1>2 DEF FileShape, Steps
<1> QED
  BY <1>1, <1>2, <1>3, LifecycleAssumption DEF Actors

(* Every step keeps the shape of the port file, its lock and the places.       *)
LEMMA NextFileShape == FileShape /\ StoreShape /\ [Next]_vars => FileShape'
<1> SUFFICES ASSUME FileShape, StoreShape, [Next]_vars
             PROVE  FileShape'
  OBVIOUS
<1> USE DEF Steps, Locked
<1>0. /\ Texcs \subseteq Actors /\ Clients \subseteq Actors
      /\ pc \in [Actors -> Steps] /\ path \in {0} \cup Inodes
  BY DEF Actors, FileShape
<1>1. ASSUME NEW a \in Actors, NoFile(a) \/ ReadPort(a) PROVE FileShape'
  <2>1. UNCHANGED file /\ pc[a] \notin Locked
    BY <1>1 DEF NoFile, ReadPort
  <2>2. \E to \in Steps \ Locked : Goes(a, to)
    <3>1. CASE NoFile(a)
      BY <3>1, PreparedGoes DEF NoFile
    <3>2. CASE ReadPort(a) /\ path = 0
      <4>1. Prepared(a, FALSE) \/ Goes(a, IF a \in Texcs THEN "ended" ELSE "failed")
        BY <3>2 DEF ReadPort
      <4> QED
        BY <4>1, PreparedGoes
    <3>3. CASE ReadPort(a) /\ path # 0
      <4>1. Prepared(a, content[path] # None) /\ (content[path] # None) \in BOOLEAN
        BY <3>3 DEF ReadPort
      <4> QED
        BY <4>1, PreparedGoes
    <3> QED
      BY <1>1, <3>1, <3>2, <3>3
  <2> QED
    BY <2>1, <2>2, GoesShape
<1>2. ASSUME NEW a \in Actors, SomeFile(a) PROVE FileShape'
  BY <1>2, GoesShape DEF SomeFile
<1>3. ASSUME NEW a \in Actors, TryLock(a) PROVE FileShape'
  BY <1>3, AcquireShape DEF TryLock
<1>4. ASSUME NEW a \in Actors, ReleaseLock(a) PROVE FileShape'
  <2>1. Unlocked(a) /\ UNCHANGED <<path, content>> /\ Prepared(a, FALSE)
    BY <1>4 DEF ReleaseLock
  <2>2. \E to \in Steps \ Locked : Goes(a, to)
    BY <2>1, PreparedGoes
  <2>3. pc' \in [Actors -> Steps] /\ pc'[a] \notin Locked /\ \A b \in Actors \ {a} : pc'[b] = pc[b]
    BY <1>0, <2>2 DEF Goes
  <2> QED
    BY <1>0, <2>1, <2>3, UnlockShape
<1>5. ASSUME NEW a \in Actors, Begin(a) PROVE FileShape'
  BY <1>5, GoesShape DEF Begin
<1>6. ASSUME NEW t \in Texcs, Load(t) \/ Listen(t) \/ GiveUp(t) \/ Stop(t) \/ Signal(t)
      PROVE  FileShape'
  <2>1. UNCHANGED file /\ \E to \in Steps : Goes(t, to) /\ (to \in Locked <=> pc[t] \in Locked)
    BY <1>6 DEF Load, Listen, GiveUp, Stop, Signal, Up
  <2> QED
    BY <1>0, <2>1, GoesShape
<1>7. ASSUME NEW t \in Texcs, LockPort(t) PROVE FileShape'
  BY <1>0, <1>7, AcquireShape DEF LockPort
<1>8. ASSUME NEW t \in Texcs, WritePort(t) PROVE FileShape'
  <2>1. /\ pc' = [pc EXCEPT ![t] = "running"] /\ pc[t] = "writing"
        /\ content' = [content EXCEPT ![fd[t]] = t] /\ UNCHANGED <<path, holder, fd>>
    BY <1>8 DEF WritePort, Goes, Written
  <2>2. content' \in [Inodes -> Texcs \cup {None}]
    BY <2>1 DEF FileShape
  <2>3. pc' \in [Actors -> Steps] /\ \A b \in Actors : pc'[b] \in Locked <=> pc[b] \in Locked
    BY <1>0, <2>1
  <2> QED
    BY <1>0, <2>1, <2>2, <2>3, StayShape
<1>9. ASSUME NEW t \in Texcs, Saved(t) PROVE FileShape'
  <2>1. UNCHANGED file
    BY <1>9 DEF Saved
  <2>2. /\ pc' \in [Actors -> Steps]
        /\ \A b \in Actors : pc'[b] \in Locked <=> pc[b] \in Locked
    <3>1. PICK j \in job[t] :
            \/ /\ j.client # None
               /\ pc' = IF pc[j.client] = "waiting" THEN [pc EXCEPT ![j.client] = "done"] ELSE pc
            \/ pc' = IF pc[t] = "saving" THEN [pc EXCEPT ![t] = "ending"] ELSE pc
      BY <1>9 DEF Saved
    <3> QED
      BY <1>0, <3>1
  <2> QED
    BY <1>0, <2>1, <2>2, StayShape DEF file, FileShape
<1>10. ASSUME NEW t \in Texcs, Unlock(t) PROVE FileShape'
  <2>1. /\ Unlocked(t) /\ UNCHANGED <<path, content>>
        /\ \E to \in Steps \ Locked : Goes(t, to)
    BY <1>10 DEF Unlock
  <2>2. pc' \in [Actors -> Steps] /\ pc'[t] \notin Locked /\ \A b \in Actors \ {t} : pc'[b] = pc[b]
    BY <1>0, <2>1 DEF Goes
  <2> QED
    BY <1>0, <2>1, <2>2, UnlockShape
<1>11. ASSUME NEW t \in Texcs, Unlink(t) PROVE FileShape'
  <2>1. /\ path' = 0 /\ UNCHANGED <<content, holder, fd>>
        /\ pc[t] = "unlinking" /\ pc' = [pc EXCEPT ![t] = "unlocked"]
    BY <1>11 DEF Unlink, Removed, Goes
  <2>2. pc' \in [Actors -> Steps] /\ \A b \in Actors : pc'[b] \in Locked <=> pc[b] \in Locked
    BY <1>0, <2>1
  <2> QED
    BY <2>1, <2>2, StayShape DEF FileShape
<1>12. ASSUME NEW t \in Texcs, Exit(t) PROVE FileShape'
  <2>1. path' = 0 /\ UNCHANGED <<content, holder, fd>> /\ pc[t] = "unlocked" /\ Left(t, "ended")
    BY <1>12 DEF Exit, Removed
  <2>2. pc' \in [Actors -> Steps] /\ \A b \in Actors : pc'[b] \in Locked <=> pc[b] \in Locked
    BY <2>1, LeftMoves
  <2> QED
    BY <2>1, <2>2, StayShape DEF FileShape
<1>13. ASSUME NEW t \in Texcs, Kill(t) PROVE FileShape'
  <2>1. Left(t, "killed") /\ Unlocked(t) /\ UNCHANGED <<path, content>>
    BY <1>13 DEF Kill
  <2>2. /\ pc' \in [Actors -> Steps] /\ pc'[t] \notin Locked
        /\ \A b \in Actors \ {t} : pc'[b] \in Locked <=> pc[b] \in Locked
    BY <2>1, LeftMoves
  <2> QED
    BY <1>0, <2>1, <2>2, UnlockShape
<1>14. ASSUME NEW c \in Clients, NEW r \in Requests, Serve(c, r) PROVE FileShape'
  BY <1>0, <1>14, GoesShape DEF Serve, Answerable
<1>15. ASSUME NEW c \in Clients, NEW r \in Requests, CloseRequest(c, r) PROVE FileShape'
  <2>1. /\ UNCHANGED file /\ pc[c] = "asking" /\ pc[key[c]] = "running"
        /\ pc' = [pc EXCEPT ![c] = "done", ![key[c]] = "stopping"]
    BY <1>15 DEF CloseRequest, Answerable
  <2>2. pc' \in [Actors -> Steps] /\ \A b \in Actors : pc'[b] \in Locked <=> pc[b] \in Locked
    BY <1>0, <2>1
  <2> QED
    BY <1>0, <2>1, <2>2, StayShape DEF file, FileShape
<1>16. ASSUME NEW c \in Clients, Unserved(c) \/ TimedOut(c) PROVE FileShape'
  BY <1>0, <1>16, GoesShape DEF Unserved, TimedOut
<1>17. ASSUME UNCHANGED <<pc, file>> PROVE FileShape'
  BY <1>0, <1>17, StayShape DEF file, FileShape
<1>18. ASSUME NEW t \in Texcs, NEW g \in Groups, Truncate(t, g) \/ Flush(t, g) PROVE FileShape'
  BY <1>17, <1>18 DEF Truncate, Flush
<1>19. ASSUME UNCHANGED vars PROVE FileShape'
  BY <1>17, <1>19 DEF vars, file
<1> QED
  BY <1>0, <1>1, <1>2, <1>3, <1>4, <1>5, <1>6, <1>7, <1>8, <1>9, <1>10, <1>11, <1>12, <1>13,
     <1>14, <1>15, <1>16, <1>18, <1>19 DEF Next, StartTexc, StartClient
-----------------------------------------------------------------------------
(* A step that closes listeners and opens none keeps the shape of the network. *)
LEMMA NetStays ==
    ASSUME NetShape, UNCHANGED <<port, request>>, key' \in [Clients -> Texcs \cup {None}],
           listeners' \subseteq listeners, \A t \in listeners' : pc'[t] \in Open,
           alone' \subseteq alone, met' \subseteq Texcs, overlap' \in BOOLEAN
    PROVE  NetShape'
BY DEF NetShape, ListenersOpen

(* Every step keeps the shape of the network.                                  *)
LEMMA NextNetShape == FileShape /\ NetShape /\ StoreShape /\ [Next]_vars => NetShape'
<1> SUFFICES ASSUME FileShape, NetShape, StoreShape, [Next]_vars
             PROVE  NetShape'
  OBVIOUS
<1> USE DEF Open, file, store, asked
<1>0. /\ Texcs \subseteq Actors /\ Clients \subseteq Actors /\ Texcs \cap Clients = {}
      /\ None \notin Texcs /\ pc \in [Actors -> Steps]
  BY LifecycleAssumption DEF Actors, FileShape
<1>1. /\ listeners \subseteq Texcs /\ alone \subseteq Texcs /\ met \subseteq Texcs
      /\ \A t \in listeners : pc[t] \in Open
      /\ key \in [Clients -> Texcs \cup {None}] /\ overlap \in BOOLEAN
  BY DEF NetShape, ListenersOpen
<1>2. ASSUME NEW a \in Actors, NoFile(a) \/ SomeFile(a) \/ ReleaseLock(a) PROVE NetShape'
  <2>1. UNCHANGED <<listeners, asked, alone, met>> /\ pc[a] \notin Open
        /\ overlap' \in BOOLEAN /\ \E to : Goes(a, to)
    BY <1>1, <1>2 DEF NoFile, SomeFile, ReleaseLock, Prepared
  <2>2. \A t \in listeners : pc'[t] \in Open
    BY <1>0, <1>1, <2>1 DEF Goes
  <2> QED
    BY <1>1, <2>1, <2>2, NetStays
<1>3. ASSUME NEW a \in Actors, ReadPort(a) PROVE NetShape'
  <2>1. UNCHANGED <<listeners, port, request, alone, met>> /\ pc[a] \notin Open
    BY <1>3 DEF ReadPort
  <2>2. overlap' \in BOOLEAN /\ \E to : Goes(a, to)
    BY <1>1, <1>3 DEF ReadPort, Prepared
  <2>3. key' \in [Clients -> Texcs \cup {None}]
    <3>1. CASE path = 0
      BY <1>1, <1>3, <3>1 DEF ReadPort
    <3>2. CASE path # 0
      <4>1. content[path] \in Texcs \cup {None}
        BY <3>2 DEF FileShape
      <4>2. key' = IF a \in Clients THEN [key EXCEPT ![a] = content[path]] ELSE key
        BY <1>3, <3>2 DEF ReadPort
      <4> QED
        BY <1>1, <4>1, <4>2
    <3> QED
      BY <3>1, <3>2
  <2>4. \A t \in listeners : pc'[t] \in Open
    BY <1>0, <1>1, <2>1, <2>2 DEF Goes
  <2> QED
    BY <1>1, <2>1, <2>2, <2>3, <2>4, NetStays
<1>4. ASSUME NEW a \in Actors, NEW from, NEW locked, NEW busy,
             pc[a] = from, Acquire(a, locked, busy),
             UNCHANGED <<listeners, asked, alone, met, overlap>>,
             from \in Open => locked \in Open /\ busy \in Open
      PROVE  NetShape'
  <2>1. Goes(a, locked) \/ Goes(a, busy)
    BY <1>4 DEF Acquire
  <2>2. \A t \in listeners : pc'[t] \in Open
    BY <1>0, <1>1, <1>4, <2>1 DEF Goes
  <2> QED
    BY <1>1, <1>4, <2>2, NetStays
<1>5. ASSUME NEW a \in Actors, TryLock(a) PROVE NetShape'
  <2>1. "trying" \notin Open
    OBVIOUS
  <2> QED
    BY <1>4, <1>5, <2>1 DEF TryLock
<1>6. ASSUME NEW t \in Texcs, LockPort(t) PROVE NetShape'
  BY <1>0, <1>4, <1>6 DEF LockPort
<1>7. ASSUME NEW t \in Texcs, NEW p \in Ports, StartTexc(t, p) PROVE NetShape'
  <2>1. /\ pc[t] = "idle" /\ Goes(t, "probing") /\ UNCHANGED <<listeners, overlap, key, request>>
        /\ port' = [port EXCEPT ![t] = {p}]
    BY <1>7 DEF StartTexc, Begin
  <2>2. t \notin listeners
    BY <1>1, <2>1
  <2>3. alone' \subseteq Texcs /\ met' \subseteq Texcs
    BY <1>1, <1>7 DEF StartTexc, Begin
  <2>4. \A u \in listeners : pc'[u] \in Open
    BY <1>0, <1>1, <2>1, <2>2 DEF Goes
  <2>5. port' \in [Texcs -> SUBSET Ports] /\ \A u \in listeners : port'[u] = port[u]
    BY <1>1, <2>1, <2>2 DEF NetShape
  <2> QED
    BY <2>1, <2>3, <2>4, <2>5 DEF NetShape, ListenersOpen
<1>8. ASSUME NEW c \in Clients, NEW r \in Requests, StartClient(c, r) PROVE NetShape'
  <2>1. /\ Goes(c, "probing") /\ UNCHANGED <<listeners, overlap, key, port>>
        /\ request' = [request EXCEPT ![c] = {r}]
    BY <1>8 DEF StartClient, Begin
  <2>2. alone' \subseteq Texcs /\ met' \subseteq Texcs
    BY <1>1, <1>8 DEF StartClient, Begin
  <2>3. \A u \in listeners : pc'[u] \in Open
    BY <1>0, <1>1, <2>1 DEF Goes
  <2>4. request' \in [Clients -> SUBSET Requests]
    BY <2>1 DEF NetShape
  <2> QED
    BY <2>1, <2>2, <2>3, <2>4 DEF NetShape, ListenersOpen
<1>9. ASSUME NEW t \in Texcs, Listen(t) PROVE NetShape'
  <2>1. /\ listeners' = listeners \cup {t} /\ PortFree(t) /\ pc' = [pc EXCEPT ![t] = "locking"]
        /\ UNCHANGED <<asked, alone, met, overlap>>
    BY <1>9 DEF Listen, Goes
  <2>2. \A u \in listeners' : pc'[u] \in Open
    BY <1>0, <1>1, <2>1
  <2> QED
    BY <2>1, <2>2 DEF NetShape, ListenersOpen, PortFree
<1>10. ASSUME NEW t \in Texcs, Load(t) \/ WritePort(t) \/ Signal(t) \/ Unlock(t) \/ Unlink(t)
       PROVE  NetShape'
  <2>1. UNCHANGED <<listeners, asked, alone, overlap>> /\ met' \subseteq Texcs
    BY <1>1, <1>10 DEF Load, WritePort, Signal, Unlock, Unlink
  <2>2. \E to : Goes(t, to) /\ (pc[t] \in Open => to \in Open)
    BY <1>10 DEF Load, WritePort, Signal, Unlock, Unlink, Up
  <2>3. \A u \in listeners : pc'[u] \in Open
    BY <1>0, <1>1, <2>2 DEF Goes
  <2> QED
    BY <1>1, <2>1, <2>3, NetStays
<1>11. ASSUME NEW t \in Texcs, GiveUp(t) \/ Stop(t) PROVE NetShape'
  <2>1. UNCHANGED <<asked, alone, met, overlap>> /\ listeners' = listeners \ {t} /\ \E to : Goes(t, to)
    BY <1>11 DEF GiveUp, Stop
  <2>2. \A u \in listeners' : pc'[u] \in Open
    BY <1>0, <1>1, <2>1 DEF Goes
  <2> QED
    BY <1>1, <2>1, <2>2, NetStays
<1>12. ASSUME NEW t \in Texcs, Saved(t) PROVE NetShape'
  <2>1. UNCHANGED <<listeners, asked, alone, met, overlap>>
    BY <1>12 DEF Saved
  <2>2. PICK j \in job[t] :
          \/ /\ j.client # None
             /\ pc' = IF pc[j.client] = "waiting" THEN [pc EXCEPT ![j.client] = "done"] ELSE pc
          \/ pc' = IF pc[t] = "saving" THEN [pc EXCEPT ![t] = "ending"] ELSE pc
    BY <1>12 DEF Saved
  <2>3. \A u \in listeners : pc'[u] \in Open
    BY <1>0, <1>1, <2>2
  <2> QED
    BY <1>1, <2>1, <2>3, NetStays
<1>13. ASSUME NEW t \in Texcs, NEW as \in Steps, Left(t, as), Gone(t) PROVE NetShape'
  <2>1. UNCHANGED <<asked, alone, met, overlap>> /\ listeners' = listeners \ {t}
    BY <1>13 DEF Gone
  <2>2. \A u \in listeners' : pc'[u] \in Open
    BY <1>1, <1>13, <2>1, LeftMoves
  <2> QED
    BY <1>1, <2>1, <2>2, NetStays
<1>14. ASSUME NEW t \in Texcs, Exit(t) \/ Kill(t) PROVE NetShape'
  BY <1>13, <1>14 DEF Exit, Kill, Steps
<1>15. ASSUME NEW c \in Clients, NEW r \in Requests, CloseRequest(c, r) PROVE NetShape'
  <2>1. /\ UNCHANGED <<listeners, asked, alone, met, overlap>> /\ pc[key[c]] = "running"
        /\ pc' = [pc EXCEPT ![c] = "done", ![key[c]] = "stopping"]
    BY <1>15 DEF CloseRequest
  <2>2. \A u \in listeners : pc'[u] \in Open
    BY <1>0, <1>1, <2>1
  <2> QED
    BY <1>1, <2>1, <2>2, NetStays
<1>16. ASSUME NEW c \in Clients, (\E r \in Requests : Serve(c, r)) \/ Unserved(c) \/ TimedOut(c)
       PROVE  NetShape'
  <2>1. UNCHANGED <<listeners, asked, alone, met, overlap>> /\ \E to : Goes(c, to)
    BY <1>16 DEF Serve, Unserved, TimedOut
  <2>2. \A u \in listeners : pc'[u] \in Open
    BY <1>0, <1>1, <2>1 DEF Goes
  <2> QED
    BY <1>1, <2>1, <2>2, NetStays
<1>17. ASSUME UNCHANGED <<pc, listeners, asked, alone, met, overlap>> PROVE NetShape'
  BY <1>1, <1>17, NetStays
<1>18. ASSUME NEW t \in Texcs, NEW g \in Groups, Truncate(t, g) \/ Flush(t, g) PROVE NetShape'
  BY <1>17, <1>18 DEF Truncate, Flush
<1>19. ASSUME UNCHANGED vars PROVE NetShape'
  BY <1>17, <1>19 DEF vars
<1> QED
  BY <1>2, <1>3, <1>5, <1>6, <1>7, <1>8, <1>9, <1>10, <1>11, <1>12, <1>14, <1>15, <1>16, <1>18,
     <1>19 DEF Next
-----------------------------------------------------------------------------
\* Where a texc may be while a save of its goes on, and a client that is to be answered
Savers == {"running", "stopping", "saving", "unlinking", "unlocked", "signalled"}
Served == {"waiting", "failed"}

(* A step away from the store keeps its shape, if no texc leaves a save and no *)
(* client leaves one that is for it.                                           *)
LEMMA StoreStays ==
    ASSUME StoreShape, UNCHANGED store,
           \A t \in Texcs : pc[t] \in Savers => pc'[t] \in Savers,
           \A c \in Clients : pc[c] \in Served => pc'[c] \in Served /\ request'[c] = request[c]
    PROVE  StoreShape'
<1>1. SavesUp'
  BY DEF StoreShape, store, SavesUp, Savers, Up, Ending
<1>2. \A t \in Texcs : \A j \in job[t] : j.client # None => j.client \in Clients
  BY DEF StoreShape, Save
<1>3. job' = job
  BY DEF store
<1>4. SavesFor'
  BY <1>2, <1>3 DEF StoreShape, SavesFor, Served
<1> QED
  BY <1>1, <1>4 DEF StoreShape, store

(* So does a process that goes on to such a place.                             *)
LEMMA StoreGoes ==
    ASSUME FileShape, StoreShape, UNCHANGED <<store, request>>, NEW a \in Actors, NEW to, Goes(a, to),
           a \in Texcs /\ pc[a] \in Savers => to \in Savers,
           a \in Clients /\ pc[a] \in Served => to \in Served
    PROVE  StoreShape'
<1>1. pc' = [pc EXCEPT ![a] = to] /\ pc \in [Actors -> Steps]
  BY DEF FileShape, Goes
<1> QED
  BY <1>1, StoreStays DEF Actors

(* data_io_save begins with a save of what is held, and no group's file has an *)
(* expansion of another group.                                                  *)
LEMMA SavingShape ==
    ASSUME StoreShape, NEW t \in Texcs, NEW client \in Clients \cup {None},
           NEW held \in SUBSET Entries, Saving(t, client, held)
    PROVE  /\ job' \in [Texcs -> SUBSET Save]
           /\ \A u \in Texcs : \A j \in job'[u] : job'[u] = {j}
           /\ disk' \in [Groups -> SUBSET Entries] /\ \A g \in Groups : disk'[g] \subseteq Of(g)
           /\ \A u \in Texcs \ {t} : job'[u] = job[u]
           /\ \E j \in job'[t] : job'[t] = {j} /\ j.client = client
<1> DEFINE new == [client |-> client, todo |-> GroupsOf(held), open |-> {}]
<1>1. new \in Save /\ new.client = client
  BY DEF Save, GroupsOf, Groups
<1>2. job' = [job EXCEPT ![t] = {new}]
      /\ disk' = [g \in Groups |-> IF Of(g) \cap held = {} THEN {} ELSE disk[g]]
  BY DEF Saving
<1> HIDE DEF new
<1>3. job \in [Texcs -> SUBSET Save] /\ \A u \in Texcs : \A j \in job[u] : job[u] = {j}
  BY DEF StoreShape
<1>4. disk \in [Groups -> SUBSET Entries] /\ \A g \in Groups : disk[g] \subseteq Of(g)
  BY DEF StoreShape
<1>5. job' \in [Texcs -> SUBSET Save] /\ job'[t] = {new} /\ \A u \in Texcs \ {t} : job'[u] = job[u]
  BY <1>1, <1>2, <1>3
<1>6. disk' \in [Groups -> SUBSET Entries] /\ \A g \in Groups : disk'[g] \subseteq Of(g)
  BY <1>2, <1>4
<1> QED
  BY <1>1, <1>3, <1>5, <1>6

(* A request that is no close adds or removes an expansion there may be.       *)
LEMMA AddOrRemove ==
    ASSUME NEW r \in Requests, r.kind # "close"
    PROVE  r.entry \in Entries /\ r.kind \in {"add", "remove"}
BY LifecycleAssumption

(* Every step keeps the shape of the store.                                    *)
LEMMA NextStoreShape == FileShape /\ NetShape /\ StoreShape /\ [Next]_vars => StoreShape'
<1> SUFFICES ASSUME FileShape, NetShape, StoreShape, [Next]_vars
             PROVE  StoreShape'
  OBVIOUS
<1> USE DEF Savers, Served, asked
<1>0. /\ Texcs \subseteq Actors /\ Clients \subseteq Actors /\ Texcs \cap Clients = {}
      /\ None \notin Clients /\ pc \in [Actors -> Steps]
  BY LifecycleAssumption DEF Actors, FileShape
<1>1. ASSUME NEW a \in Actors,
             NoFile(a) \/ SomeFile(a) \/ TryLock(a) \/ ReleaseLock(a) \/ ReadPort(a)
      PROVE  StoreShape'
  <2>1. UNCHANGED <<store, request>> /\ pc[a] \notin Savers \cup Served
    BY <1>1 DEF NoFile, SomeFile, TryLock, ReleaseLock, ReadPort
  <2>2. \E to : Goes(a, to)
    BY <1>1 DEF NoFile, SomeFile, TryLock, ReleaseLock, ReadPort, Prepared, Acquire
  <2> QED
    BY <2>1, <2>2, StoreGoes
<1>2. ASSUME NEW t \in Texcs, NEW p \in Ports, StartTexc(t, p) PROVE StoreShape'
  BY <1>0, <1>2, StoreGoes DEF StartTexc, Begin
<1>3. ASSUME NEW c \in Clients, NEW r \in Requests, StartClient(c, r) PROVE StoreShape'
  <2>1. /\ UNCHANGED store /\ pc[c] = "idle" /\ pc' = [pc EXCEPT ![c] = "probing"]
        /\ request' = [request EXCEPT ![c] = {r}]
    BY <1>3 DEF StartClient, Begin, Goes
  <2> QED
    BY <1>0, <2>1, StoreStays DEF NetShape
<1>4. ASSUME NEW t \in Texcs,
             Listen(t) \/ LockPort(t) \/ WritePort(t) \/ GiveUp(t) \/ Signal(t) \/ Unlock(t) \/ Unlink(t)
      PROVE  StoreShape'
  <2>1. UNCHANGED <<store, request>>
    BY <1>4 DEF Listen, LockPort, WritePort, GiveUp, Signal, Unlock, Unlink
  <2>2. \E to : Goes(t, to) /\ (pc[t] \in Savers => to \in Savers)
    BY <1>4 DEF Listen, LockPort, WritePort, GiveUp, Signal, Unlock, Unlink, Acquire, Up
  <2> QED
    BY <1>0, <2>1, <2>2, StoreGoes
<1>5. ASSUME NEW t \in Texcs, Load(t) PROVE StoreShape'
  <2>1. /\ UNCHANGED <<job, disk, promise, request>> /\ pc[t] = "loading" /\ pc' = [pc EXCEPT ![t] = "listening"]
        /\ table' = [table EXCEPT ![t] = UNION {disk[g] : g \in Groups}]
    BY <1>5 DEF Load, Goes
  <2>2. table' \in [Texcs -> SUBSET Entries]
    BY <2>1 DEF StoreShape
  <2>3. SavesUp'
    BY <1>0, <2>1 DEF StoreShape, SavesUp, Up, Ending
  <2>4. SavesFor'
    BY <1>0, <2>1 DEF StoreShape, SavesFor, Save
  <2> QED
    BY <2>1, <2>2, <2>3, <2>4 DEF StoreShape
<1>6. ASSUME NEW c \in Clients, NEW r \in Requests, Serve(c, r) PROVE StoreShape'
  <2> DEFINE t == key[c]
             held == Changed(table[t], r)
  <2>1. /\ pc[c] = "asking" /\ Serving(t) /\ request[c] = {r} /\ r.kind # "close" /\ job[t] = {}
        /\ table' = [table EXCEPT ![t] = held] /\ Saving(t, c, held)
        /\ promise' = [promise EXCEPT ![r.entry] = "open"]
        /\ pc' = [pc EXCEPT ![c] = "waiting"] /\ UNCHANGED request
    BY <1>6 DEF Serve, Answerable, Goes
  <2>2. t \in Texcs /\ pc[t] \in Savers
    BY <2>1 DEF Serving, Up, Ending, NetShape
  <2>3. held \in SUBSET Entries
    BY <2>1, <2>2, AddOrRemove DEF Changed, StoreShape
  <2> HIDE DEF held, t
  <2>4. /\ job' \in [Texcs -> SUBSET Save]
        /\ \A u \in Texcs : \A j \in job'[u] : job'[u] = {j}
        /\ disk' \in [Groups -> SUBSET Entries] /\ \A g \in Groups : disk'[g] \subseteq Of(g)
        /\ \A u \in Texcs \ {t} : job'[u] = job[u]
        /\ \E j \in job'[t] : job'[t] = {j} /\ j.client = c
    BY <2>1, <2>2, <2>3, SavingShape
  <2>5. table' \in [Texcs -> SUBSET Entries] /\ promise' \in [Entries -> {"in", "out", "open"}]
    BY <2>1, <2>2, <2>3, AddOrRemove DEF StoreShape
  <2>6. SavesUp'
    BY <1>0, <2>1, <2>2, <2>4 DEF StoreShape, SavesUp, Up, Ending
  <2>7. SavesFor'
    <3>1. \A u \in Texcs \ {t} : \A j \in job[u] : j.client # c
      BY <1>0, <2>1 DEF StoreShape, SavesFor
    <3>2. ASSUME NEW u \in Texcs, NEW j \in job'[u], j.client # None
          PROVE  /\ pc'[j.client] \in {"waiting", "failed"}
                 /\ \E q \in Requests : request'[j.client] = {q} /\ q.kind # "close"
                 /\ \A v \in Texcs \ {u} : \A k \in job'[v] : k.client # j.client
      <4>1. CASE u = t
        BY <1>0, <2>1, <2>4, <3>1, <4>1
      <4>2. CASE u # t
        BY <1>0, <2>1, <2>4, <3>1, <3>2, <4>2 DEF StoreShape, SavesFor
      <4> QED
        BY <4>1, <4>2
    <3> QED
      BY <3>2 DEF SavesFor
  <2> QED
    BY <2>4, <2>5, <2>6, <2>7 DEF StoreShape
<1>7. ASSUME NEW t \in Texcs, Stop(t) PROVE StoreShape'
  <2>1. /\ pc' = [pc EXCEPT ![t] = "saving"] /\ Saving(t, None, table[t])
        /\ UNCHANGED <<table, promise, request>>
    BY <1>7 DEF Stop, Goes
  <2>2. /\ job' \in [Texcs -> SUBSET Save]
        /\ \A u \in Texcs : \A j \in job'[u] : job'[u] = {j}
        /\ disk' \in [Groups -> SUBSET Entries] /\ \A g \in Groups : disk'[g] \subseteq Of(g)
        /\ \A u \in Texcs \ {t} : job'[u] = job[u]
        /\ \E j \in job'[t] : job'[t] = {j} /\ j.client = None
    <3>1. table[t] \in SUBSET Entries
      BY DEF StoreShape
    <3> QED
      BY <2>1, <3>1, SavingShape
  <2>3. SavesUp'
    BY <1>0, <2>1, <2>2 DEF StoreShape, SavesUp, Up, Ending
  <2>4. SavesFor'
    <3>1. ASSUME NEW u \in Texcs, NEW j \in job'[u], j.client # None
          PROVE  /\ pc'[j.client] \in {"waiting", "failed"}
                 /\ \E q \in Requests : request'[j.client] = {q} /\ q.kind # "close"
                 /\ \A v \in Texcs \ {u} : \A k \in job'[v] : k.client # j.client
      <4>1. u # t /\ job'[u] = job[u]
        BY <2>2, <3>1
      <4>2. j.client \in Clients
        BY <3>1, <4>1 DEF StoreShape, Save
      <4>3. /\ pc[j.client] \in {"waiting", "failed"}
            /\ \E q \in Requests : request[j.client] = {q} /\ q.kind # "close"
            /\ \A v \in Texcs \ {u} : \A k \in job[v] : k.client # j.client
        BY <3>1, <4>1 DEF StoreShape, SavesFor
      <4>4. \A v \in Texcs \ {u} : \A k \in job'[v] : k.client # j.client
        BY <2>2, <3>1, <4>3
      <4> QED
        BY <1>0, <2>1, <4>2, <4>3, <4>4
    <3> QED
      BY <3>1 DEF SavesFor
  <2> QED
    BY <2>1, <2>2, <2>3, <2>4 DEF StoreShape
<1>8. ASSUME NEW t \in Texcs, NEW g \in Groups, Truncate(t, g) \/ Flush(t, g) PROVE StoreShape'
  <2>1. UNCHANGED <<pc, table, promise, request>>
    BY <1>8 DEF Truncate, Flush
  <2>2. PICK j \in job[t] :
            \/ job' = [job EXCEPT ![t] = {[j EXCEPT !.todo = @ \ {g}, !.open = {g}]}]
            \/ job' = [job EXCEPT ![t] = {[j EXCEPT !.open = {}]}]
    BY <1>8 DEF Truncate, Flush
  <2>3. PICK new \in Save : job' = [job EXCEPT ![t] = {new}] /\ new.client = j.client
    <3>1. j \in Save
      BY DEF StoreShape
    <3>2. /\ [j EXCEPT !.todo = @ \ {g}, !.open = {g}] \in Save
          /\ [j EXCEPT !.open = {}] \in Save
      BY <3>1 DEF Save
    <3> QED
      BY <2>2, <3>1, <3>2 DEF Save
  <2>4. disk' \in [Groups -> SUBSET Entries] /\ \A f \in Groups : disk'[f] \subseteq Of(f)
    <3>1. disk' = [disk EXCEPT ![g] = {}] \/ disk' = [disk EXCEPT ![g] = table[t] \cap Of(g)]
      BY <1>8 DEF Truncate, Flush
    <3> QED
      BY <3>1 DEF StoreShape, Of
  <2>5. job' \in [Texcs -> SUBSET Save] /\ \A u \in Texcs : \A k \in job'[u] : job'[u] = {k}
    BY <2>3 DEF StoreShape
  <2>6. SavesUp'
    BY <2>1, <2>3 DEF StoreShape, SavesUp, Up, Ending
  <2>7. SavesFor'
    <3>1. ASSUME NEW u \in Texcs, NEW k \in job'[u]
          PROVE  \E l \in job[u] : k.client = l.client
      BY <2>3, <3>1 DEF StoreShape
    <3>2. ASSUME NEW u \in Texcs, NEW k \in job'[u], k.client # None
          PROVE  /\ pc'[k.client] \in {"waiting", "failed"}
                 /\ \E q \in Requests : request'[k.client] = {q} /\ q.kind # "close"
                 /\ \A v \in Texcs \ {u} : \A m \in job'[v] : m.client # k.client
      <4>1. PICK l \in job[u] : k.client = l.client
        BY <3>1
      <4>2. /\ pc[l.client] \in {"waiting", "failed"}
            /\ \E q \in Requests : request[l.client] = {q} /\ q.kind # "close"
            /\ \A v \in Texcs \ {u} : \A m \in job[v] : m.client # l.client
        BY <3>2, <4>1 DEF StoreShape, SavesFor
      <4> QED
        BY <2>1, <3>1, <4>1, <4>2
    <3> QED
      BY <3>2 DEF SavesFor
  <2> QED
    BY <2>1, <2>4, <2>5, <2>6, <2>7 DEF StoreShape
<1>9. ASSUME NEW t \in Texcs, Saved(t) PROVE StoreShape'
  <2>1. job' = [job EXCEPT ![t] = {}] /\ UNCHANGED <<table, disk, request>>
    BY <1>9 DEF Saved
  <2>2. PICK j \in job[t] :
         \/ /\ j.client # None
            /\ pc' = IF pc[j.client] = "waiting" THEN [pc EXCEPT ![j.client] = "done"] ELSE pc
            /\ \E r \in request[j.client] :
                 promise' = [promise EXCEPT ![r.entry] = IF r.kind = "add" THEN "in" ELSE "out"]
         \/ /\ j.client = None
            /\ pc' = IF pc[t] = "saving" THEN [pc EXCEPT ![t] = "ending"] ELSE pc
            /\ promise' = promise
    BY <1>9 DEF Saved
  <2>3. promise' \in [Entries -> {"in", "out", "open"}]
    BY <2>2 DEF StoreShape
  <2>4. j.client \in Clients \cup {None}
    BY DEF StoreShape, Save
  <2>5. SavesUp'
    BY <1>0, <2>1, <2>2, <2>4 DEF StoreShape, SavesUp, Up, Ending
  <2>6. ASSUME NEW u \in Texcs, NEW k \in job'[u], k.client # None
        PROVE  /\ pc'[k.client] \in {"waiting", "failed"}
               /\ \E q \in Requests : request'[k.client] = {q} /\ q.kind # "close"
               /\ \A v \in Texcs \ {u} : \A l \in job'[v] : l.client # k.client
    <3>1. u # t /\ job'[u] = job[u]
      BY <2>1 DEF StoreShape
    <3>2. k.client # j.client /\ k.client \in Clients
      BY <2>6, <3>1 DEF StoreShape, SavesFor, Save
    <3>3. pc'[k.client] = pc[k.client]
      BY <1>0, <2>2, <3>2
    <3> QED
      BY <2>1, <2>6, <3>1, <3>3 DEF StoreShape, SavesFor
  <2>7. SavesFor'
    BY <2>6 DEF SavesFor
  <2> QED
    BY <2>1, <2>3, <2>5, <2>7 DEF StoreShape
<1>10. ASSUME NEW t \in Texcs, NEW as \in Steps, Left(t, as), Gone(t) PROVE StoreShape'
  <2>1. job' = [job EXCEPT ![t] = {}] /\ UNCHANGED <<table, disk, request>>
    BY <1>10 DEF Gone
  <2>2. promise' \in [Entries -> {"in", "out", "open"}]
    BY <1>10 DEF Gone, StoreShape
  <2> HIDE DEF Savers, Served
  <2>6. /\ \A b \in Actors \ {t} :
             \/ pc'[b] = pc[b]
             \/ b \in Clients /\ pc[b] \in {"waiting", "failed"} /\ pc'[b] = "failed"
        /\ \A b \in Texcs \ {t} : pc'[b] = pc[b]
    BY <1>10, LeftMoves
  <2>3. SavesUp'
    BY <2>1, <2>6 DEF StoreShape, SavesUp, Up, Ending
  <2>4. ASSUME NEW u \in Texcs, NEW k \in job'[u], k.client # None
        PROVE  /\ pc'[k.client] \in {"waiting", "failed"}
               /\ \E q \in Requests : request'[k.client] = {q} /\ q.kind # "close"
               /\ \A v \in Texcs \ {u} : \A l \in job'[v] : l.client # k.client
    <3>1. u # t /\ job'[u] = job[u]
      BY <2>1 DEF StoreShape
    <3>2. k.client \in Clients /\ pc[k.client] \in {"waiting", "failed"}
      BY <2>4, <3>1 DEF StoreShape, SavesFor, Save
    <3>3. pc'[k.client] \in {"waiting", "failed"}
      BY <1>0, <2>6, <3>2
    <3> QED
      BY <2>1, <2>4, <3>1, <3>3 DEF StoreShape, SavesFor
  <2>5. SavesFor'
    BY <2>4 DEF SavesFor
  <2> QED
    BY <2>1, <2>2, <2>3, <2>5 DEF StoreShape
<1>11. ASSUME NEW t \in Texcs, Exit(t) \/ Kill(t) PROVE StoreShape'
  BY <1>10, <1>11 DEF Exit, Kill, Steps
<1>12. ASSUME NEW c \in Clients, NEW r \in Requests, CloseRequest(c, r) PROVE StoreShape'
  <2>1. /\ UNCHANGED <<store, request>> /\ pc[c] = "asking" /\ pc[key[c]] = "running"
        /\ pc' = [pc EXCEPT ![c] = "done", ![key[c]] = "stopping"]
    BY <1>12 DEF CloseRequest, Answerable
  <2> QED
    BY <1>0, <2>1, StoreStays
<1>13. ASSUME NEW c \in Clients, Unserved(c) \/ TimedOut(c) PROVE StoreShape'
  <2>1. UNCHANGED <<store, request>> /\ Goes(c, "failed")
    BY <1>13 DEF Unserved, TimedOut
  <2> QED
    BY <1>0, <2>1, StoreGoes
<1>14. ASSUME UNCHANGED vars PROVE StoreShape'
  BY <1>14, StoreStays DEF vars, store
<1> QED
  BY <1>0, <1>1, <1>2, <1>3, <1>4, <1>5, <1>6, <1>7, <1>8, <1>9, <1>11, <1>12, <1>13, <1>14 DEF Next

(* What TypeOK says, and where locks, listeners and saves are                  *)
LEMMA ShapeStep == ShapeInv /\ [Next]_vars => ShapeInv'
<1>1. FileShape /\ NetShape /\ StoreShape /\ [Next]_vars => ShapeInv'
  <2>1. (FileShape /\ NetShape /\ StoreShape)' => ShapeInv'
    BY ShapeParts, PTL
  <2> QED
    BY <2>1, NextFileShape, NextNetShape, NextStoreShape
<1> QED
  BY <1>1, ShapeParts

(* The first state has the shape.                                              *)
LEMMA ShapeInit == Init => ShapeInv
<1> SUFFICES ASSUME Init PROVE ShapeInv
  OBVIOUS
<1>1. Cardinality(Actors) \in Nat /\ 0 \notin Inodes /\ None \notin Actors
  BY LifecycleAssumption, FS_CardinalityType DEF Inodes
<1>2. FileShape
  BY <1>1 DEF Init, FileShape, LocksHeld, Locked, Steps
<1>3. NetShape
  BY DEF Init, NetShape, ListenersOpen
<1>4. StoreShape
  <2>1. PICK S \in SUBSET Entries : /\ disk = [g \in Groups |-> S \cap Of(g)]
                                   /\ promise = [e \in Entries |-> IF e \in S THEN "in" ELSE "out"]
    BY DEF Init
  <2> QED
    BY <2>1 DEF Init, StoreShape, SavesUp, SavesFor
<1> QED
  BY <1>2, <1>3, <1>4, ShapeParts

(* Every value of the constants keeps the types: a lock has one holder, who    *)
(* knows its file, two texcs never listen on one port, and a texc that is up   *)
(* has a lock (filelock_acquire, server_init, data_io_save).                   *)
THEOREM TypeCorrect == Spec => []TypeOK
<1>1. Spec => []ShapeInv
  BY ShapeInit, ShapeStep, PTL DEF Spec
<1>2. ShapeInv => TypeOK
  BY DEF ShapeInv
<1> QED
  BY <1>1, <1>2, PTL
-----------------------------------------------------------------------------
(* Which actions bring a process where it is, and which of them move the file  *)

PcCaused ==
    /\ \A a \in Actors : Active(a)' => Active(a) \/ Begin(a)
    /\ \A t \in Texcs : pc'[t] # pc[t] =>
         /\ Active(t) \/ Begin(t)
         /\ pc'[t] # "idle"
         /\ pc'[t] \in {"holding", "reading"} => TryLock(t)
         /\ pc'[t] \in {"writing", "failing"} => LockPort(t)
         /\ pc'[t] = "loading" => NoFile(t) \/ ReleaseLock(t) \/ ReadPort(t)
         /\ pc'[t] = "refused" => ReadPort(t) \/ GiveUp(t)
         /\ pc'[t] = "ended" => ReadPort(t) \/ Exit(t)
         /\ Up(t)' => Up(t) \/ WritePort(t)
         /\ Ending(t)' => Ending(t) \/ Unlock(t)
         /\ Past(t)' => Past(t) \/ pc'[t] = "loading"
         /\ Loaded(t)' => Loaded(t) \/ Load(t)
    /\ alone' = alone \/ \E a \in Actors : Begin(a)
    /\ met \subseteq met'

(* A process that goes on has a cause for where it goes.                       *)
LEMMA GoesCaused ==
    ASSUME FileShape, NEW a \in Actors, NEW to \in Steps, Goes(a, to), Active(a),
           alone' = alone, met \subseteq met',
           a \in Texcs =>
             /\ to # "idle"
             /\ to \in {"holding", "reading"} => TryLock(a)
             /\ to \in {"writing", "failing"} => LockPort(a)
             /\ to = "loading" => NoFile(a) \/ ReleaseLock(a) \/ ReadPort(a)
             /\ to = "refused" => ReadPort(a) \/ GiveUp(a)
             /\ to = "ended" => ReadPort(a) \/ Exit(a)
             /\ to \in {"running", "stopping", "saving"} => Up(a) \/ WritePort(a)
             /\ to \in {"unlinking", "unlocked"} => Ending(a) \/ Unlock(a)
             /\ to \in Held => Loaded(a) \/ Load(a)
    PROVE  PcCaused
<1>1. pc' = [pc EXCEPT ![a] = to] /\ pc \in [Actors -> Steps] /\ Texcs \subseteq Actors
  BY DEF Goes, FileShape, Actors
<1>2. \A b \in Actors : Active(b)' => Active(b)
  BY <1>1 DEF Active
<1>3. \A t \in Texcs : pc'[t] # pc[t] => t = a /\ pc'[t] = to
  BY <1>1
<1>4. /\ Up(a)' => pc'[a] \in {"running", "stopping", "saving"}
      /\ Ending(a)' => pc'[a] \in {"unlinking", "unlocked"}
  BY DEF Up, Ending
<1>5. a \in Texcs => (Loaded(a)' => Loaded(a) \/ Load(a))
  BY <1>1 DEF Loaded
<1>6. a \in Texcs => (Past(a)' => Past(a) \/ to = "loading")
  BY <1>1, <1>5 DEF Past, Loaded, Load, Held, Up, Ending
<1> QED
  BY <1>2, <1>3, <1>4, <1>5, <1>6 DEF PcCaused

(* A step that moves texcs at most to the end of their service needs no other  *)
(* cause.                                                                      *)
LEMMA StayCaused ==
    ASSUME FileShape, alone' = alone, met \subseteq met',
           \A b \in Actors : Active(b)' => Active(b),
           \A t \in Texcs : pc'[t] = pc[t] \/ (Up(t) /\ pc'[t] \in {"stopping", "ending"})
    PROVE  PcCaused
BY DEF PcCaused, Active, Up, Ending, Past, Loaded, Held

(* Every step that moves a texc is one of those PcCaused names.                *)
LEMMA NextCaused == FileShape /\ StoreShape /\ [Next]_vars => PcCaused
<1> SUFFICES ASSUME FileShape, StoreShape, [Next]_vars
             PROVE  PcCaused
  OBVIOUS
<1>0. /\ Texcs \subseteq Actors /\ Clients \subseteq Actors /\ Texcs \cap Clients = {}
      /\ None \notin Actors /\ pc \in [Actors -> Steps]
  BY LifecycleAssumption DEF Actors, FileShape
<1>1. ASSUME NEW a \in Actors, Begin(a) PROVE PcCaused
  <2>1. pc' = [pc EXCEPT ![a] = "probing"] /\ met \subseteq met'
    BY <1>1 DEF Begin, Goes
  <2>2. \A b \in Actors : Active(b)' => Active(b) \/ Begin(b)
    BY <1>0, <1>1, <2>1 DEF Active
  <2> QED
    BY <1>0, <1>1, <2>1, <2>2 DEF PcCaused, Up, Ending, Past, Loaded, Held
<1>2. ASSUME NEW a \in Actors, NoFile(a) \/ SomeFile(a) PROVE PcCaused
  <2>1. /\ UNCHANGED <<alone, met>> /\ pc[a] = "probing"
        /\ \/ Goes(a, "trying")
           \/ NoFile(a) /\ Goes(a, IF a \in Texcs THEN "loading" ELSE "failed")
    BY <1>2 DEF NoFile, SomeFile, Prepared
  <2> QED
    BY <2>1, GoesCaused DEF Active, Loaded, Held, Steps
<1>3. ASSUME NEW a \in Actors, TryLock(a) PROVE PcCaused
  <2>1. UNCHANGED <<alone, met>> /\ pc[a] = "trying" /\ (Goes(a, "holding") \/ Goes(a, "reading"))
    BY <1>3 DEF TryLock, Acquire
  <2> QED
    BY <1>3, <2>1, GoesCaused DEF Active, Loaded, Held, Steps
<1>4. ASSUME NEW a \in Actors, ReleaseLock(a) PROVE PcCaused
  <2>1. /\ UNCHANGED <<alone, met>> /\ pc[a] = "holding"
        /\ Goes(a, IF a \in Texcs THEN "loading" ELSE "failed")
    BY <1>4 DEF ReleaseLock, Prepared
  <2> QED
    BY <1>4, <2>1, GoesCaused DEF Active, Loaded, Held, Steps
<1>5. ASSUME NEW a \in Actors, ReadPort(a) PROVE PcCaused
  <2>1. /\ UNCHANGED <<alone, met>> /\ pc[a] = "reading"
        /\ \E to \in {"refused", "loading", "ended", "asking", "failed"} : Goes(a, to)
    BY <1>5 DEF ReadPort, Prepared
  <2> QED
    BY <1>5, <2>1, GoesCaused DEF Active, Loaded, Held, Steps
<1>6. ASSUME NEW t \in Texcs, Load(t) \/ Listen(t) PROVE PcCaused
  <2>1. /\ UNCHANGED <<alone, met>>
        /\ \/ Load(t) /\ pc[t] = "loading" /\ Goes(t, "listening")
           \/ pc[t] = "listening" /\ Goes(t, "locking")
    BY <1>6 DEF Load, Listen
  <2> QED
    BY <1>0, <2>1, GoesCaused DEF Active, Loaded, Held, Steps
<1>7. ASSUME NEW t \in Texcs, LockPort(t) PROVE PcCaused
  <2>1. UNCHANGED <<alone, met>> /\ pc[t] = "locking" /\ (Goes(t, "writing") \/ Goes(t, "failing"))
    BY <1>7 DEF LockPort, Acquire
  <2> QED
    BY <1>0, <1>7, <2>1, GoesCaused DEF Active, Loaded, Held, Steps
<1>8. ASSUME NEW t \in Texcs, WritePort(t) PROVE PcCaused
  <2>1. UNCHANGED <<alone, met>> /\ pc[t] = "writing" /\ Goes(t, "running")
    BY <1>8 DEF WritePort
  <2> QED
    BY <1>0, <1>8, <2>1, GoesCaused DEF Active, Loaded, Held, Steps
<1>9. ASSUME NEW t \in Texcs, GiveUp(t) PROVE PcCaused
  <2>1. UNCHANGED <<alone, met>> /\ pc[t] \in {"listening", "failing"} /\ Goes(t, "refused")
    BY <1>9 DEF GiveUp
  <2> QED
    BY <1>0, <1>9, <2>1, GoesCaused DEF Active, Loaded, Held, Steps
<1>10. ASSUME NEW t \in Texcs, Stop(t) \/ Signal(t) PROVE PcCaused
  <2>1. /\ UNCHANGED <<alone, met>> /\ pc[t] \in {"running", "stopping", "saving", "ending"}
        /\ Goes(t, "signalled") \/ (Up(t) /\ Goes(t, "saving"))
    BY <1>10 DEF Stop, Signal, Up
  <2> QED
    BY <1>0, <2>1, GoesCaused DEF Active, Loaded, Held, Steps
<1>11. ASSUME NEW t \in Texcs, Unlock(t) PROVE PcCaused
  <2>1. /\ alone' = alone /\ met \subseteq met' /\ pc[t] \in {"ending", "signalled"}
        /\ Goes(t, "unlocked") \/ Goes(t, "unlinking")
    BY <1>11 DEF Unlock
  <2> QED
    BY <1>0, <1>11, <2>1, GoesCaused DEF Active, Loaded, Held, Steps
<1>12. ASSUME NEW t \in Texcs, Unlink(t) PROVE PcCaused
  <2>1. UNCHANGED <<alone, met>> /\ pc[t] = "unlinking" /\ Goes(t, "unlocked")
    BY <1>12 DEF Unlink
  <2> QED
    BY <1>0, <2>1, GoesCaused DEF Active, Ending, Loaded, Held, Steps
<1>13. ASSUME NEW t \in Texcs, NEW as \in {"ended", "killed"}, Left(t, as), Gone(t), Active(t),
              Exit(t) \/ as = "killed"
       PROVE  PcCaused
  <2>1. UNCHANGED <<alone, met>>
    BY <1>13 DEF Gone
  <2>2. /\ pc'[t] = as /\ \A b \in Texcs \ {t} : pc'[b] = pc[b]
        /\ \A b \in Actors \ {t} : pc'[b] = pc[b] \/ pc'[b] = "failed"
    BY <1>13, LeftMoves DEF Steps
  <2>3. \A b \in Actors : Active(b)' => Active(b)
    BY <2>2 DEF Active
  <2> QED
    BY <1>13, <2>1, <2>2, <2>3 DEF PcCaused, Up, Ending, Past, Loaded, Held
<1>14. ASSUME NEW t \in Texcs, Exit(t) \/ Kill(t) PROVE PcCaused
  BY <1>13, <1>14 DEF Exit, Kill, Active
<1>15. ASSUME NEW t \in Texcs, Saved(t) PROVE PcCaused
  <2>1. UNCHANGED <<alone, met>>
    BY <1>15 DEF Saved
  <2>2. PICK j \in job[t] :
          \/ /\ j.client # None
             /\ pc' = IF pc[j.client] = "waiting" THEN [pc EXCEPT ![j.client] = "done"] ELSE pc
          \/ pc' = IF pc[t] = "saving" THEN [pc EXCEPT ![t] = "ending"] ELSE pc
    BY <1>15 DEF Saved
  <2>3. j.client \in Clients \cup {None}
    BY DEF StoreShape, Save
  <2>4. \A u \in Texcs : pc'[u] = pc[u] \/ (Up(u) /\ pc'[u] = "ending")
    BY <1>0, <2>2, <2>3 DEF Up
  <2>5. \A b \in Actors : Active(b)' => Active(b)
    BY <1>0, <2>2 DEF Active
  <2> QED
    BY <2>1, <2>4, <2>5, StayCaused
<1>16. ASSUME NEW c \in Clients, (\E r \in Requests : Serve(c, r)) \/ Unserved(c) \/ TimedOut(c)
       PROVE  PcCaused
  <2>1. /\ UNCHANGED <<alone, met>> /\ pc[c] \in {"asking", "waiting"}
        /\ Goes(c, "waiting") \/ Goes(c, "failed")
    BY <1>16 DEF Serve, Unserved, TimedOut, Answerable
  <2> QED
    BY <1>0, <2>1, GoesCaused DEF Active, Loaded, Held, Steps
<1>17. ASSUME NEW c \in Clients, NEW r \in Requests, CloseRequest(c, r) PROVE PcCaused
  <2>1. /\ UNCHANGED <<alone, met>> /\ pc[c] = "asking" /\ pc[key[c]] = "running"
        /\ pc' = [pc EXCEPT ![c] = "done", ![key[c]] = "stopping"]
    BY <1>17 DEF CloseRequest, Answerable
  <2>2. \A u \in Texcs : pc'[u] = pc[u] \/ (Up(u) /\ pc'[u] = "stopping")
    BY <1>0, <2>1 DEF Up
  <2>3. \A b \in Actors : Active(b)' => Active(b)
    BY <1>0, <2>1 DEF Active
  <2> QED
    BY <2>1, <2>2, <2>3, StayCaused
<1>18. ASSUME UNCHANGED <<pc, alone, met>> PROVE PcCaused
  BY <1>0, <1>18 DEF PcCaused, Active, Up, Ending, Past, Loaded
<1>19. ASSUME NEW t \in Texcs, NEW g \in Groups, Truncate(t, g) \/ Flush(t, g) PROVE PcCaused
  BY <1>18, <1>19 DEF Truncate, Flush
<1>20. ASSUME UNCHANGED vars PROVE PcCaused
  BY <1>18, <1>20 DEF vars
<1> QED
  BY <1>0, <1>1, <1>2, <1>3, <1>4, <1>5, <1>6, <1>7, <1>8, <1>9, <1>10, <1>11, <1>12, <1>14, <1>15,
     <1>16, <1>17, <1>19, <1>20 DEF Next, StartTexc, StartClient

\* What can become of the port file
FileCaused ==
    /\ \/ UNCHANGED <<path, content>>
       \/ /\ path = 0 /\ path' = Opened /\ content' = [content EXCEPT ![Opened] = None]
          /\ \E a \in Actors : TryLock(a) \/ LockPort(a)
       \/ path' = 0 /\ UNCHANGED content /\ \E t \in Texcs : Unlink(t) \/ Exit(t)
       \/ path' = path /\ \E t \in Texcs : WritePort(t)
    /\ \A a \in Actors : pc[a] \in Locked /\ pc'[a] \in Locked => fd'[a] = fd[a]

(* Every step that touches the file is one of those FileCaused names.          *)
LEMMA NextFileCaused == FileShape /\ StoreShape /\ [Next]_vars => FileCaused
<1> SUFFICES ASSUME FileShape, StoreShape, [Next]_vars
             PROVE  FileCaused
  OBVIOUS
<1> USE DEF Locked, file
<1>0. Texcs \subseteq Actors /\ fd \in [Actors -> {0} \cup Inodes] /\ pc \in [Actors -> Steps]
  BY DEF Actors, FileShape
<1>1. ASSUME UNCHANGED file PROVE FileCaused
  BY <1>1 DEF FileCaused
<1>2. ASSUME NEW a \in Actors, NEW locked, NEW busy, pc[a] \notin Locked,
             TryLock(a) \/ LockPort(a), Acquire(a, locked, busy)
      PROVE  FileCaused
  <2>1. /\ path' = Opened
        /\ content' = IF path = 0 THEN [content EXCEPT ![Opened] = None] ELSE content
        /\ fd' = fd \/ fd' = [fd EXCEPT ![a] = Opened]
    BY <1>2 DEF Acquire
  <2>2. path # 0 => Opened = path
    BY OpenedInode
  <2> QED
    BY <1>0, <1>2, <2>1, <2>2 DEF FileCaused
<1>3. ASSUME NEW a \in Actors, TryLock(a) PROVE FileCaused
  <2>1. pc[a] \notin Locked /\ Acquire(a, "holding", "reading")
    BY <1>3 DEF TryLock
  <2> QED
    BY <1>2, <1>3, <2>1
<1>4. ASSUME NEW t \in Texcs, LockPort(t) PROVE FileCaused
  <2>1. pc[t] \notin Locked /\ Acquire(t, "writing", "failing")
    BY <1>4 DEF LockPort
  <2> QED
    BY <1>0, <1>2, <1>4, <2>1
<1>5. ASSUME NEW t \in Texcs, WritePort(t) PROVE FileCaused
  BY <1>5 DEF WritePort, FileCaused
<1>6. ASSUME NEW t \in Texcs, Unlink(t) \/ Exit(t) PROVE FileCaused
  BY <1>6 DEF Unlink, Exit, Removed, FileCaused
<1>7. ASSUME NEW a \in Actors, Unlocked(a), UNCHANGED <<path, content>>, pc'[a] \notin Locked
      PROVE  FileCaused
  BY <1>0, <1>7 DEF Unlocked, FileCaused
<1>8. ASSUME NEW a \in Actors, ReleaseLock(a) PROVE FileCaused
  <2>1. /\ Unlocked(a) /\ UNCHANGED <<path, content>>
        /\ pc' = [pc EXCEPT ![a] = IF a \in Texcs THEN "loading" ELSE "failed"]
    BY <1>8 DEF ReleaseLock, Prepared, Goes
  <2> QED
    BY <1>0, <1>7, <2>1
<1>9. ASSUME NEW t \in Texcs, Unlock(t) PROVE FileCaused
  <2>1. /\ Unlocked(t) /\ UNCHANGED <<path, content>>
        /\ \E to \in {"unlocked", "unlinking"} : pc' = [pc EXCEPT ![t] = to]
    BY <1>9 DEF Unlock, Goes
  <2> QED
    BY <1>0, <1>7, <2>1
<1>10. ASSUME NEW t \in Texcs, Kill(t) PROVE FileCaused
  <2>1. Unlocked(t) /\ UNCHANGED <<path, content>> /\ Left(t, "killed")
    BY <1>10 DEF Kill
  <2>2. pc'[t] = "killed"
    BY <2>1, LeftMoves DEF Steps
  <2> QED
    BY <1>0, <1>7, <2>1, <2>2
<1>11. ASSUME NEW a \in Actors, NoFile(a) \/ SomeFile(a) \/ ReadPort(a) \/ Begin(a)
       PROVE  FileCaused
  BY <1>1, <1>11 DEF NoFile, SomeFile, ReadPort, Begin
<1>12. ASSUME NEW t \in Texcs, Load(t) \/ Listen(t) \/ GiveUp(t) \/ Stop(t) \/ Saved(t) \/ Signal(t)
       PROVE  FileCaused
  BY <1>1, <1>12 DEF Load, Listen, GiveUp, Stop, Saved, Signal
<1>13. ASSUME NEW t \in Texcs, NEW g \in Groups, Truncate(t, g) \/ Flush(t, g) PROVE FileCaused
  BY <1>1, <1>13 DEF Truncate, Flush
<1>14. ASSUME NEW c \in Clients, NEW r \in Requests, Serve(c, r) \/ CloseRequest(c, r) PROVE FileCaused
  BY <1>1, <1>14 DEF Serve, CloseRequest
<1>15. ASSUME NEW c \in Clients, Unserved(c) \/ TimedOut(c) PROVE FileCaused
  BY <1>1, <1>15 DEF Unserved, TimedOut
<1>16. ASSUME UNCHANGED vars PROVE FileCaused
  BY <1>1, <1>16 DEF vars
<1>17. Clients \subseteq Actors
  BY DEF Actors
<1> QED
  BY <1>0, <1>3, <1>4, <1>5, <1>6, <1>8, <1>9, <1>10, <1>11, <1>12, <1>13, <1>14, <1>15, <1>16,
     <1>17 DEF Next, StartTexc, StartClient
-----------------------------------------------------------------------------
(* A texc that begins to end meets all that are there, and one that begins     *)
(* later meets it.                                                             *)
LEMMA EndingMetStep == FileShape /\ EndingMet /\ PcCaused => EndingMet'
<1> SUFFICES ASSUME FileShape, EndingMet, PcCaused,
                    NEW t \in Texcs, NEW u \in Texcs, Ending(u)', t # u, Active(t)'
             PROVE  t \in met'
  BY DEF EndingMet
<1>0. t \in Actors /\ u \in Actors /\ pc \in [Actors -> Steps]
  BY DEF Actors, FileShape
<1>1. (Ending(u) \/ Unlock(u)) /\ (Active(t) \/ Begin(t)) /\ met \subseteq met'
  BY <1>0 DEF PcCaused, Ending
<1>2. CASE Unlock(u)
  <2>1. /\ met' = met \cup {v \in Texcs \ {u} : Active(v)}
        /\ \E to : pc' = [pc EXCEPT ![u] = to]
    BY <1>2 DEF Unlock, Goes
  <2>2. Active(t)
    BY <1>0, <2>1 DEF Active
  <2> QED
    BY <2>1, <2>2
<1>3. CASE Ending(u) /\ Begin(t)
  BY <1>3 DEF Begin
<1>4. CASE Ending(u) /\ Active(t)
  BY <1>1, <1>4 DEF EndingMet
<1> QED
  BY <1>1, <1>2, <1>3, <1>4

(* The file of a texc that has met none that was ending stays: no other can    *)
(* write it, as each writes the inode it has locked, and none removes it.      *)
LEMMA KeptStays ==
    ASSUME FileShape, FileShape', EndingMet, PcCaused, FileCaused,
           NEW t \in Texcs \ met, pc[t] \in Locked, pc'[t] \in Locked, fd[t] = path
    PROVE  /\ fd'[t] = path' /\ path' # 0
           /\ content[path] = t => content'[path'] = t
<1>0. t \in Actors /\ Texcs \subseteq Actors /\ fd[t] # 0 /\ path \in Inodes /\ fd'[t] = fd[t]
  BY DEF Actors, FileShape, LocksHeld, FileCaused
<1>1. CASE UNCHANGED <<path, content>>
  BY <1>0, <1>1
<1>2. CASE path = 0
  BY <1>0, <1>2
<1>3. ASSUME NEW u \in Texcs, Unlink(u) \/ Exit(u) PROVE FALSE
  <2>1. Ending(u) /\ pc[u] \notin Locked
    BY <1>3 DEF Unlink, Exit, Ending, Locked
  <2>2. Active(t)
    BY DEF Locked, Active
  <2> QED
    BY <2>1, <2>2 DEF EndingMet
<1>4. ASSUME path' = path, NEW u \in Texcs, WritePort(u)
      PROVE  content[path] = t => content'[path] = t
  <2>1. content' = [content EXCEPT ![fd[u]] = u]
    BY <1>4 DEF WritePort, Written
  <2> QED
    BY <1>0, <2>1 DEF FileShape
<1> QED
  BY <1>0, <1>1, <1>2, <1>3, <1>4 DEF FileCaused

(* A texc gets to know the file when it locks it, and writes the file it       *)
(* knows.                                                                      *)
LEMMA FileKeptStep ==
    FileShape /\ FileShape' /\ FileKept /\ EndingMet /\ PcCaused /\ FileCaused => FileKept'
<1> SUFFICES ASSUME FileShape, FileShape', FileKept, EndingMet, PcCaused, FileCaused,
                    NEW t \in Texcs \ met'
             PROVE  /\ pc'[t] \in {"holding", "writing"} => fd'[t] = path'
                    /\ Up(t)' => FileOk(t)'
  BY DEF FileKept
<1>0. t \in Texcs \ met /\ t \in Actors
  BY DEF PcCaused, Actors
<1>1. ASSUME TryLock(t) \/ LockPort(t), pc'[t] \in {"holding", "writing"} PROVE fd'[t] = path'
  <2>1. Acquire(t, "holding", "reading") \/ Acquire(t, "writing", "failing")
    BY <1>1 DEF TryLock, LockPort
  <2>2. pc \in [Actors -> Steps] /\ fd \in [Actors -> {0} \cup Inodes]
    BY DEF FileShape
  <2>3. path' = Opened /\ fd' = [fd EXCEPT ![t] = Opened]
    <3>1. CASE Free(Opened)
      BY <2>1, <3>1 DEF Acquire
    <3>2. CASE ~Free(Opened)
      BY <1>0, <1>1, <2>1, <2>2, <3>2 DEF Acquire, Goes
    <3> QED
      BY <3>1, <3>2
  <2> QED
    BY <1>0, <2>2, <2>3
<1>2. ASSUME pc'[t] \in {"holding", "writing"} PROVE fd'[t] = path'
  <2>1. CASE pc'[t] = pc[t]
    BY <1>0, <1>2, <2>1, KeptStays DEF FileKept, Locked
  <2>2. CASE pc'[t] # pc[t]
    BY <1>0, <1>1, <1>2, <2>2 DEF PcCaused
  <2> QED
    BY <2>1, <2>2
<1>3. ASSUME Up(t)' PROVE FileOk(t)'
  <2>0. pc'[t] \in Locked
    BY <1>3 DEF Up, Locked
  <2>1. CASE Up(t)
    <3>1. pc[t] \in Locked
      BY <2>1 DEF Up, Locked
    <3> QED
      BY <1>0, <2>0, <2>1, <3>1, KeptStays DEF FileKept, FileOk
  <2>2. CASE ~Up(t)
    <3>1. WritePort(t)
      BY <1>3, <2>2 DEF PcCaused, Up
    <3>2. pc[t] \in Locked /\ fd[t] = path /\ content' = [content EXCEPT ![fd[t]] = t] /\ path' = path
      BY <1>0, <3>1 DEF FileKept, WritePort, Written, Locked
    <3>3. fd'[t] = path' /\ path' # 0
      BY <1>0, <2>0, <3>2, KeptStays
    <3> QED
      BY <3>2, <3>3 DEF FileShape, FileOk
  <2> QED
    BY <2>1, <2>2
<1> QED
  BY <1>2, <1>3

(* A texc removes its file before it has ended, and nobody writes its port     *)
(* later.                                                                      *)
LEMMA NoStaleFileStep ==
    FileShape /\ FileShape' /\ NoStaleFile /\ PcCaused /\ FileCaused => NoStaleFile'
<1> SUFFICES ASSUME FileShape, FileShape', NoStaleFile, PcCaused, FileCaused,
                    NEW t \in Texcs, pc'[t] = "ended", path' # 0
             PROVE  content'[path'] # t
  BY DEF NoStaleFile
<1>0. t \in Actors /\ t # None /\ pc \in [Actors -> Steps]
  BY LifecycleAssumption DEF Actors, FileShape
<1>1. pc[t] = "ended" /\ path # 0 => content[path] # t
  BY DEF NoStaleFile
<1>2. CASE pc'[t] # pc[t]
  <2>1. ReadPort(t) \/ Exit(t)
    BY <1>2 DEF PcCaused
  <2>2. CASE Exit(t)
    BY <2>2 DEF Exit, Removed
  <2>3. CASE ReadPort(t)
    <3>1. path' = path /\ path # 0
      BY <2>3 DEF ReadPort, file
    <3>2. Prepared(t, content[path] # None)
      BY <2>3, <3>1 DEF ReadPort
    <3> QED
      BY <1>0, <3>2 DEF Prepared, Goes
  <2> QED
    BY <2>1, <2>2, <2>3
<1>3. CASE pc'[t] = pc[t]
  <2>1. CASE UNCHANGED <<path, content>>
    BY <1>1, <1>3, <2>1
  <2>2. CASE path' = Opened /\ content' = [content EXCEPT ![Opened] = None]
    BY <1>0, <2>2, OpenedInode DEF FileShape
  <2>3. ASSUME path' = path, NEW u \in Texcs, WritePort(u) PROVE content'[path'] # t
    <3>1. content' = [content EXCEPT ![fd[u]] = u] /\ pc[u] = "writing"
      BY <2>3 DEF WritePort, Written
    <3>2. u # t
      BY <1>3, <3>1
    <3> QED
      BY <1>1, <1>3, <2>3, <3>1, <3>2 DEF FileShape
  <2> QED
    BY <2>1, <2>2, <2>3 DEF FileCaused
<1> QED
  BY <1>2, <1>3
-----------------------------------------------------------------------------
\* What makes the port file tell the truth
FileInv == ShapeInv /\ EndingMet /\ FileKept /\ NoStaleFile

(* The part of the invariant that is about the file is kept by every step.     *)
LEMMA FileStep == FileInv /\ [Next]_vars => FileInv' /\ PcCaused /\ FileCaused
<1> SUFFICES ASSUME FileInv, [Next]_vars PROVE FileInv' /\ PcCaused /\ FileCaused
  OBVIOUS
<1>1. FileShape /\ StoreShape
  BY ShapeParts DEF FileInv
<1>2. FileShape' /\ ShapeInv'
  BY <1>1, NextFileShape, ShapeStep DEF FileInv
<1>3. PcCaused /\ FileCaused
  BY <1>1, NextCaused, NextFileCaused
<1> QED
  BY <1>1, <1>2, <1>3, EndingMetStep, FileKeptStep, NoStaleFileStep DEF FileInv

(* It holds in the first state.                                                *)
LEMMA FileInit == Init => FileInv
<1> SUFFICES ASSUME Init PROVE FileInv
  OBVIOUS
<1>1. \A a \in Actors : pc[a] = "idle"
  BY DEF Init
<1>2. Texcs \subseteq Actors
  BY DEF Actors
<1> QED
  BY <1>1, <1>2, ShapeInit DEF FileInv, EndingMet, FileKept, NoStaleFile, Ending, Up

(* It always holds.                                                            *)
LEMMA FileAlways == Spec => []FileInv
BY FileInit, FileStep, PTL DEF Spec

(* A texc that is up is found: the port file is there, is the one it has       *)
(* locked and holds its port and token, unless it was met by one that was      *)
(* ending (server_init, filelock_acquire, __delete_port_file).                 *)
THEOREM RunningFound == Spec => []RunningIsFound
<1>1. FileInv => RunningIsFound
  BY DEF FileInv, FileKept, RunningIsFound
<1> QED
  BY <1>1, FileAlways, PTL

(* A texc that ended by itself or by a signal leaves no port file of its own   *)
(* (__delete_port_file).                                                        *)
THEOREM NoneStale == Spec => []NoStaleFile
<1>1. FileInv => NoStaleFile
  BY DEF FileInv
<1> QED
  BY <1>1, FileAlways, PTL

(* No start gets past client_prepare while a texc is up whose port file is     *)
(* there, unless it has met one that was ending: whichever way it takes, it    *)
(* sees no file, gets the lock or reads an empty file.                         *)
THEOREM ProbesExclude == Spec => ProbeExcludes
<1>1. ASSUME FileInv, [Next]_vars,
             NEW t \in Texcs \ met, pc[t] # "loading", pc'[t] = "loading",
             NEW u \in Texcs, Up(u), FileOk(u)
      PROVE  FALSE
  <2>0. /\ FileShape /\ t \in Actors /\ u \in Actors /\ t # None /\ u # None
        /\ path # 0 /\ fd[u] = path /\ content[path] = u
    BY <1>1, ShapeParts, LifecycleAssumption DEF FileInv, FileOk, Actors
  <2>1. NoFile(t) \/ ReleaseLock(t) \/ ReadPort(t)
    BY <1>1, FileStep DEF PcCaused
  <2>2. CASE NoFile(t)
    BY <2>0, <2>2 DEF NoFile
  <2>3. CASE ReleaseLock(t)
    <3>1. pc[t] = "holding" /\ fd[t] = path
      BY <1>1, <2>3 DEF ReleaseLock, FileInv, FileKept
    <3>2. t = u
      BY <2>0, <3>1 DEF FileShape
    <3> QED
      BY <1>1, <3>1, <3>2 DEF Up
  <2>4. CASE ReadPort(t)
    <3>1. Prepared(t, content[path] # None)
      BY <2>0, <2>4 DEF ReadPort
    <3>2. Goes(t, "refused")
      BY <2>0, <3>1 DEF Prepared
    <3> QED
      BY <1>1, <2>0, <3>2 DEF Goes, FileShape
  <2> QED
    BY <2>1, <2>2, <2>3, <2>4
<1>2. FileInv /\ [Next]_vars =>
        [\A t \in Texcs \ met : pc[t] # "loading" /\ pc'[t] = "loading" =>
           \A u \in Texcs : Up(u) => ~FileOk(u)]_vars
  BY <1>1
<1> QED
  BY <1>2, FileAlways, PTL DEF Spec, ProbeExcludes
-----------------------------------------------------------------------------
\* Nobody else is there: the lock is free and so are the ports.
LEMMA AloneFree ==
    ASSUME FileShape, NetShape, NEW t \in Texcs, \A b \in Actors \ {t} : ~Active(b)
    PROVE  /\ pc[t] \in {"trying", "locking"} => Free(Opened)
           /\ pc[t] = "listening" => PortFree(t)
<1>1. Texcs \subseteq Actors /\ Opened \in Inodes /\ holder \in [Inodes -> Actors \cup {None}]
  BY OpenedInode DEF Actors, FileShape
<1>2. ASSUME NEW a \in Actors, holder[Opened] = a PROVE a = t /\ pc[t] \in Locked
  <2>1. pc[a] \in Locked
    BY <1>1, <1>2, OpenedInode DEF FileShape, LocksHeld
  <2>2. Active(a)
    BY <2>1 DEF Locked, Active
  <2> QED
    BY <2>1, <2>2
<1>3. ASSUME NEW u \in listeners PROVE u = t /\ pc[t] \in Open
  <2>1. u \in Texcs /\ pc[u] \in Open
    BY DEF NetShape, ListenersOpen
  <2>2. Active(u)
    BY <2>1 DEF Open, Active
  <2> QED
    BY <1>1, <2>1, <2>2
<1> QED
  BY <1>1, <1>2, <1>3 DEF Free, Locked, PortFree, Open

(* A texc that is alone stays so until another process begins, and finds every *)
(* lock free.                                                                  *)
LEMMA AloneStep ==
    FileShape /\ NetShape /\ AloneInv /\ PcCaused => AloneInv'
<1> SUFFICES ASSUME FileShape, NetShape, AloneInv, PcCaused, NEW t \in alone'
             PROVE  /\ Active(t)' => \A b \in Actors \ {t} : ~Active(b)'
                    /\ pc'[t] \notin {"idle", "reading", "failing", "refused"}
  BY DEF AloneInv
<1>0. /\ Texcs \subseteq Actors /\ pc \in [Actors -> Steps]
      /\ alone \subseteq Texcs /\ \A b \in Actors : Active(b)' => Active(b) \/ Begin(b)
  BY DEF Actors, FileShape, NetShape, PcCaused
<1>1. ASSUME NEW a \in Actors, Begin(a)
      PROVE  /\ Active(t)' => \A b \in Actors \ {t} : ~Active(b)'
             /\ pc'[t] \notin {"idle", "reading", "failing", "refused"}
  <2> DEFINE others == {b \in Actors \ {a} : Active(b)}
  <2>1. /\ pc[a] = "idle" /\ pc' = [pc EXCEPT ![a] = "probing"]
        /\ alone' = IF a \in Texcs /\ others = {} THEN alone \cup {a} ELSE alone \ others
    BY <1>1 DEF Begin, Goes
  <2>2. a \notin alone
    BY <2>1 DEF AloneInv
  <2>3. CASE t = a
    BY <1>0, <2>1, <2>2, <2>3 DEF Active
  <2>4. CASE t # a
    <3>1. t \in alone /\ ~Active(t)
      BY <1>0, <2>1, <2>4
    <3> QED
      BY <1>0, <2>1, <2>4, <3>1 DEF AloneInv, Active
  <2> QED
    BY <2>3, <2>4
<1>2. ASSUME \A a \in Actors : ~Begin(a)
      PROVE  /\ Active(t)' => \A b \in Actors \ {t} : ~Active(b)'
             /\ pc'[t] \notin {"idle", "reading", "failing", "refused"}
  <2>1. t \in alone /\ t \in Texcs /\ t \in Actors
    BY <1>0, <1>2 DEF PcCaused
  <2>2. Active(t)' => \A b \in Actors \ {t} : ~Active(b)'
    BY <1>0, <1>2, <2>1 DEF AloneInv
  <2>3. ASSUME pc'[t] # pc[t] PROVE pc'[t] \notin {"idle", "reading", "failing", "refused"}
    <3>1. Active(t) /\ \A b \in Actors \ {t} : ~Active(b)
      BY <1>2, <2>1, <2>3 DEF PcCaused, AloneInv
    <3>2. pc[t] \notin {"reading", "failing"}
      BY <2>1 DEF AloneInv
    <3>3. ASSUME pc'[t] \in {"reading", "failing"} PROVE FALSE
      <4>1. CASE TryLock(t)
        <5>1. pc[t] = "trying" /\ Acquire(t, "holding", "reading")
          BY <4>1 DEF TryLock
        <5>2. Free(Opened)
          BY <2>1, <3>1, <5>1, AloneFree
        <5>3. pc' = [pc EXCEPT ![t] = "holding"]
          BY <5>1, <5>2, Zenon DEF Acquire, Goes
        <5> QED
          BY <1>0, <2>1, <3>3, <5>3
      <4>2. CASE LockPort(t)
        <5>1. pc[t] = "locking" /\ Acquire(t, "writing", "failing")
          BY <4>2 DEF LockPort
        <5>2. Free(Opened)
          BY <2>1, <3>1, <5>1, AloneFree
        <5>3. pc' = [pc EXCEPT ![t] = "writing"]
          BY <5>1, <5>2, Zenon DEF Acquire, Goes
        <5> QED
          BY <1>0, <2>1, <3>3, <5>3
      <4> QED
        BY <2>1, <2>3, <3>3, <4>1, <4>2 DEF PcCaused
    <3>4. ASSUME pc'[t] = "refused" PROVE FALSE
      <4>1. ~ReadPort(t)
        BY <3>2 DEF ReadPort
      <4>2. ~GiveUp(t)
        BY <2>1, <3>1, <3>2, AloneFree DEF GiveUp
      <4> QED
        BY <2>1, <2>3, <3>4, <4>1, <4>2 DEF PcCaused
    <3>5. pc'[t] # "idle"
      BY <2>1, <2>3 DEF PcCaused
    <3> QED
      BY <3>3, <3>4, <3>5
  <2> QED
    BY <2>1, <2>2, <2>3 DEF AloneInv
<1> QED
  BY <1>1, <1>2

(* A texc that is started when no other process is about is not refused,       *)
(* whatever port file an earlier one left (main, client_prepare, server_init). *)
THEOREM NoneAloneRefused == Spec => []AloneStarts
<1> DEFINE Inv == FileInv /\ AloneInv
<1>1. Init => Inv
  BY FileInit DEF Init, AloneInv
<1>2. Inv /\ [Next]_vars => Inv'
  <2> SUFFICES ASSUME Inv, [Next]_vars PROVE Inv'
    OBVIOUS
  <2>1. FileShape /\ NetShape /\ FileInv' /\ PcCaused
    BY FileStep, ShapeParts DEF FileInv
  <2> QED
    BY <2>1, AloneStep
<1>3. Inv => AloneStarts
  BY DEF AloneInv, AloneStarts
<1> QED
  BY <1>1, <1>2, <1>3, PTL DEF Spec
-----------------------------------------------------------------------------
(* The store, and what promises are worth                                      *)

\* Which actions change the store; a second texc past its probe is noticed.
StoreCaused ==
    /\ overlap => overlap'
    /\ \A t \in Texcs : pc[t] # "loading" /\ pc'[t] = "loading" =>
         /\ \A u \in Texcs \ {t} : pc'[u] = pc[u]
         /\ (\E u \in Texcs \ {t} : Past(u)) => overlap'
    /\ \A c \in Clients : request'[c] = request[c] \/ pc[c] = "idle"
    /\ \/ UNCHANGED store
       \/ \E t \in Texcs : Load(t) \/ Stop(t) \/ Saved(t) \/ Gone(t)
       \/ \E t \in Texcs, g \in Groups : Truncate(t, g) \/ Flush(t, g)
       \/ \E c \in Clients, r \in Requests : Serve(c, r)

(* Every step that changes what is held, saved or answered is one of those     *)
(* StoreCaused names.                                                          *)
LEMMA NextStoreCaused == FileShape /\ StoreShape /\ [Next]_vars => StoreCaused
<1> SUFFICES ASSUME FileShape, StoreShape, [Next]_vars
             PROVE  StoreCaused
  OBVIOUS
<1> USE DEF asked
<1>0. /\ Texcs \subseteq Actors /\ pc \in [Actors -> Steps] /\ PcCaused
  BY NextCaused DEF Actors, FileShape
<1>1. ASSUME NEW a \in Actors, NoFile(a) \/ ReleaseLock(a) \/ ReadPort(a) PROVE StoreCaused
  <2>1. UNCHANGED <<store, request>>
    BY <1>1 DEF NoFile, ReleaseLock, ReadPort
  <2>2. overlap' = overlap \/ \E running \in BOOLEAN : Prepared(a, running)
    BY <1>1 DEF NoFile, ReleaseLock, ReadPort
  <2>3. overlap => overlap'
    BY <2>2 DEF Prepared
  <2>4. \A u \in Texcs \ {a} : pc'[u] = pc[u]
    <3>1. \E to : pc' = [pc EXCEPT ![a] = to]
      BY <1>1 DEF NoFile, ReleaseLock, ReadPort, Prepared, Goes
    <3> QED
      BY <1>0, <3>1
  <2>5. ASSUME a \in Texcs, pc'[a] = "loading", NEW u \in Texcs \ {a}, Past(u) PROVE overlap'
    <3>1. \/ \E running \in BOOLEAN : Prepared(a, running)
          \/ Goes(a, "ended")
      BY <1>1, <2>5 DEF NoFile, ReleaseLock, ReadPort
    <3>2. ~Goes(a, "ended")
      BY <1>0, <2>5 DEF Goes
    <3>3. PICK running \in BOOLEAN : Prepared(a, running)
      BY <3>1, <3>2
    <3>4. ~running
      BY <1>0, <2>5, <3>3 DEF Prepared, Goes
    <3> QED
      BY <2>5, <3>3, <3>4 DEF Prepared
  <2> QED
    BY <2>1, <2>3, <2>4, <2>5 DEF StoreCaused
<1>2. SUFFICES ASSUME \A a \in Actors : ~(NoFile(a) \/ ReleaseLock(a) \/ ReadPort(a))
      PROVE  StoreCaused
  BY <1>1
<1>3. \A t \in Texcs : pc[t] # "loading" => pc'[t] # "loading"
  BY <1>0, <1>2 DEF PcCaused
<1>4. ASSUME UNCHANGED <<store, overlap, request>> PROVE StoreCaused
  BY <1>3, <1>4 DEF StoreCaused
<1>5. ASSUME NEW a \in Actors, SomeFile(a) \/ TryLock(a) PROVE StoreCaused
  BY <1>4, <1>5 DEF SomeFile, TryLock
<1>6. ASSUME NEW t \in Texcs, NEW p \in Ports, StartTexc(t, p) PROVE StoreCaused
  BY <1>4, <1>6 DEF StartTexc, Begin
<1>7. ASSUME NEW c \in Clients, NEW r \in Requests, StartClient(c, r) PROVE StoreCaused
  <2>1. /\ UNCHANGED <<store, overlap>> /\ pc[c] = "idle"
        /\ request' = [request EXCEPT ![c] = {r}]
    BY <1>7 DEF StartClient, Begin
  <2>2. \A d \in Clients : request'[d] = request[d] \/ pc[d] = "idle"
    BY <2>1
  <2> QED
    BY <1>3, <2>1, <2>2 DEF StoreCaused
<1>8. ASSUME NEW t \in Texcs,
             Listen(t) \/ LockPort(t) \/ WritePort(t) \/ GiveUp(t) \/ Signal(t) \/ Unlock(t) \/ Unlink(t)
      PROVE  StoreCaused
  BY <1>4, <1>8 DEF Listen, LockPort, WritePort, GiveUp, Signal, Unlock, Unlink
<1>9. ASSUME NEW t \in Texcs, Load(t) \/ Stop(t) \/ Saved(t) PROVE StoreCaused
  <2>1. UNCHANGED <<overlap, request>>
    BY <1>9 DEF Load, Stop, Saved
  <2> QED
    BY <1>3, <1>9, <2>1 DEF StoreCaused
<1>10. ASSUME NEW t \in Texcs, Exit(t) \/ Kill(t) PROVE StoreCaused
  <2>1. Gone(t)
    BY <1>10 DEF Exit, Kill
  <2>2. UNCHANGED <<overlap, request>>
    BY <2>1 DEF Gone
  <2> QED
    BY <1>3, <2>1, <2>2 DEF StoreCaused
<1>11. ASSUME NEW t \in Texcs, NEW g \in Groups, Truncate(t, g) \/ Flush(t, g) PROVE StoreCaused
  <2>1. UNCHANGED <<overlap, request>>
    BY <1>11 DEF Truncate, Flush
  <2> QED
    BY <1>3, <1>11, <2>1 DEF StoreCaused
<1>12. ASSUME NEW c \in Clients, NEW r \in Requests, Serve(c, r) PROVE StoreCaused
  <2>1. UNCHANGED <<overlap, request>>
    BY <1>12 DEF Serve
  <2> QED
    BY <1>3, <1>12, <2>1 DEF StoreCaused
<1>13. ASSUME NEW c \in Clients, (\E r \in Requests : CloseRequest(c, r)) \/ Unserved(c) \/ TimedOut(c)
       PROVE  StoreCaused
  BY <1>4, <1>13 DEF CloseRequest, Unserved, TimedOut
<1>14. ASSUME UNCHANGED vars PROVE StoreCaused
  BY <1>4, <1>14 DEF vars, store
<1> QED
  BY <1>2, <1>5, <1>6, <1>7, <1>8, <1>9, <1>10, <1>11, <1>12, <1>13, <1>14 DEF Next
-----------------------------------------------------------------------------
\* What AckedIsKept says of one expansion while no two texcs are past their probe
Kept(e) ==
    \/ \E t \in Texcs : \E j \in job[t] : GroupOf[e] \in j.open
    \/ Agrees(e, disk[GroupOf[e]])

WillAgree(e, held) == (promise'[e] = "in" => e \in held) /\ (promise'[e] = "out" => e \notin held)

\* Only the texc that is past its probe has a save under way, or has loaded.
LEMMA OneLoaded ==
    ASSUME StoreShape, OnePast, PcCaused, NEW t \in Texcs, Loaded(t)
    PROVE  /\ \A u \in Texcs : job[u] # {} => u = t
           /\ \A u \in Texcs : Loaded(u)' => u = t
<1>1. Past(t) /\ pc[t] # "loading"
  BY DEF Past, Loaded, Held, Up, Ending
<1>2. \A u \in Texcs : job[u] # {} => Past(u)
  BY DEF StoreShape, SavesUp, Past
<1>3. \A u \in Texcs : Loaded(u) \/ Load(u) => Past(u)
  BY DEF Past, Loaded, Held, Up, Ending, Load
<1>4. \A u \in Texcs : Loaded(u)' => Loaded(u) \/ Load(u)
  BY DEF PcCaused, Loaded
<1> QED
  BY <1>1, <1>2, <1>3, <1>4 DEF OnePast

(* A save is made by a texc that has loaded.                                   *)
LEMMA SaverLoaded == ASSUME StoreShape, NEW t \in Texcs, job[t] # {} PROVE Loaded(t)
BY DEF StoreShape, SavesUp, Loaded, Held, Up, Ending

(* The start of a save empties only the files of groups nothing is held of.    *)
LEMMA SavingKeeps ==
    ASSUME StoreShape, \A e \in Entries : Kept(e), \A u \in Texcs : job[u] = {},
           NEW t \in Texcs, NEW client, NEW held \in SUBSET Entries, Saving(t, client, held),
           table' = [table EXCEPT ![t] = held],
           \A e \in Entries : WillAgree(e, held) /\ promise'[e] \in {promise[e], "open"},
           \A r \in Requests : client # None /\ request'[client] = {r} =>
             (r.entry \in held <=> r.kind = "add")
    PROVE  (\A e \in Entries : Kept(e))' /\ SavesDone'
<1> DEFINE new == [client |-> client, todo |-> GroupsOf(held), open |-> {}]
<1>1. /\ job' = [job EXCEPT ![t] = {new}]
      /\ disk' = [g \in Groups |-> IF Of(g) \cap held = {} THEN {} ELSE disk[g]]
  BY DEF Saving
<1>2. new.client = client /\ new.todo = GroupsOf(held) /\ new.open = {}
  OBVIOUS
<1> HIDE DEF new
<1>3. ASSUME NEW e \in Entries PROVE Kept(e)'
  <2> DEFINE g == GroupOf[e]
  <2>1. g \in Groups /\ e \in Of(g) /\ Agrees(e, disk[g])
    BY DEF Groups, Of, Kept
  <2>2. CASE Of(g) \cap held = {}
    BY <1>1, <2>1, <2>2 DEF Kept, Agrees, WillAgree
  <2>3. CASE Of(g) \cap held # {}
    <3>1. disk'[g] = disk[g]
      BY <1>1, <2>1, <2>3
    <3> QED
      BY <2>1, <3>1 DEF Kept, Agrees
  <2> QED
    BY <2>2, <2>3
<1>4. job'[t] = {new} /\ table'[t] = held /\ \A u \in Texcs \ {t} : job'[u] = {}
  BY <1>1 DEF StoreShape
<1>5. ASSUME NEW g \in Groups \ GroupsOf(held) PROVE disk'[g] = held \cap Of(g)
  BY <1>1 DEF GroupsOf, Of
<1>6. SavesDone'
  BY <1>2, <1>4, <1>5 DEF SavesDone
<1> QED
  BY <1>3, <1>6

(* Every step keeps what was answered, on disk or in a save that is under way. *)
LEMMA AckStep ==
    StoreShape /\ StoreShape' /\ NetShape /\ AckInv /\ PcCaused /\ StoreCaused => AckInv'
<1> SUFFICES ASSUME StoreShape, StoreShape', NetShape, AckInv, PcCaused, StoreCaused, ~overlap'
             PROVE  (\A e \in Entries : Kept(e))' /\ OnePast' /\ TableAgrees' /\ SavesDone'
  BY DEF AckInv, AckedIsKept, Kept, Agrees
<1>0. OnePast /\ TableAgrees /\ SavesDone /\ \A e \in Entries : Kept(e)
  BY DEF StoreCaused, AckInv, AckedIsKept, Kept, Agrees
<1>1. OnePast'
  <2> SUFFICES ASSUME NEW t \in Texcs, NEW u \in Texcs, t # u, Past(t)', Past(u)', ~Past(t)
               PROVE  FALSE
    BY <1>0 DEF OnePast
  <2>1. pc'[t] = "loading" /\ pc[t] # "loading"
    BY DEF PcCaused, Past, Up, Ending
  <2>2. pc'[u] = pc[u]
    BY <2>1 DEF StoreCaused
  <2>3. Past(u)
    BY <2>2 DEF Past, Up, Ending
  <2> QED
    BY <2>1, <2>3 DEF StoreCaused
<1>2. \A t \in Texcs : Loaded(t)' => Loaded(t) \/ Load(t)
  BY DEF PcCaused, Loaded
<1>3. \A t \in Texcs : \A j \in job[t] : j.client # None => request'[j.client] = request[j.client]
  BY DEF StoreShape, SavesFor, Save, StoreCaused
<1>4. ASSUME NEW t \in Texcs, Load(t)
      PROVE  (\A e \in Entries : Kept(e))' /\ TableAgrees' /\ SavesDone'
  <2>1. /\ UNCHANGED <<job, disk, promise>> /\ pc[t] = "loading"
        /\ table' = [table EXCEPT ![t] = UNION {disk[g] : g \in Groups}]
    BY <1>4 DEF Load
  <2>2. \A u \in Texcs : Loaded(u) \/ Load(u) => u = t
    BY <1>0, <2>1 DEF OnePast, Past, Loaded, Held, Up, Ending, Load
  <2>3. \A u \in Texcs : job[u] = {}
    BY <2>1, <2>2, SaverLoaded DEF Loaded, Held
  <2>4. ASSUME NEW e \in Entries PROVE Agrees(e, table[t])'
    <3>1. GroupOf[e] \in Groups /\ Agrees(e, disk[GroupOf[e]])
      BY <1>0, <2>3 DEF Kept, Groups
    <3>2. e \in UNION {disk[g] : g \in Groups} <=> e \in disk[GroupOf[e]]
      BY <3>1 DEF StoreShape, Of
    <3>3. table'[t] = UNION {disk[g] : g \in Groups}
      BY <2>1 DEF StoreShape
    <3> QED
      BY <2>1, <3>1, <3>2, <3>3 DEF Agrees
  <2>5. TableAgrees'
    BY <1>2, <2>2, <2>4 DEF TableAgrees
  <2>6. (\A e \in Entries : Kept(e))'
    BY <1>0, <2>1 DEF Kept, Agrees
  <2> QED
    BY <2>1, <2>3, <2>5, <2>6 DEF SavesDone
<1>5. SUFFICES ASSUME \A t \in Texcs : ~Load(t)
               PROVE  (\A e \in Entries : Kept(e))' /\ TableAgrees' /\ SavesDone'
  BY <1>1, <1>4
<1>6. CASE UNCHANGED store
  <2>1. table' = table /\ job' = job /\ disk' = disk /\ promise' = promise
    BY <1>6 DEF store
  <2>2. (\A e \in Entries : Kept(e))'
    BY <1>0, <2>1 DEF Kept, Agrees
  <2>3. TableAgrees'
    BY <1>0, <1>2, <1>5, <2>1 DEF TableAgrees, Agrees
  <2>4. SavesDone'
    BY <1>0, <1>3, <2>1 DEF SavesDone
  <2> QED
    BY <2>2, <2>3, <2>4
<1>7. ASSUME NEW c \in Clients, NEW r \in Requests, Serve(c, r)
      PROVE  (\A e \in Entries : Kept(e))' /\ TableAgrees' /\ SavesDone'
  <2> DEFINE t == key[c]
             held == Changed(table[t], r)
  <2>1. /\ Serving(t) /\ request[c] = {r} /\ request' = request /\ r.kind # "close" /\ job[t] = {}
        /\ table' = [table EXCEPT ![t] = held] /\ Saving(t, c, held)
        /\ promise' = [promise EXCEPT ![r.entry] = "open"]
    BY <1>7 DEF Serve, Answerable, asked
  <2>2. t \in Texcs /\ Loaded(t) /\ r.entry \in Entries /\ r.kind \in {"add", "remove"}
    BY <2>1, AddOrRemove DEF Serving, Up, Ending, NetShape, Loaded, Held
  <2>3. held = IF r.kind = "add" THEN table[t] \cup {r.entry} ELSE table[t] \ {r.entry}
    BY <2>2 DEF Changed
  <2>4. held \in SUBSET Entries /\ (r.entry \in held <=> r.kind = "add")
    BY <2>2, <2>3 DEF StoreShape
  <2> HIDE DEF t, held
  <2>5. \A e \in Entries : WillAgree(e, held) /\ promise'[e] \in {promise[e], "open"}
    <3>1. \A e \in Entries : Agrees(e, table[t])
      BY <1>0, <2>2 DEF TableAgrees
    <3>2. \A e \in Entries \ {r.entry} : e \in held <=> e \in table[t]
      BY <2>3
    <3>3. promise'[r.entry] = "open" /\ \A e \in Entries \ {r.entry} : promise'[e] = promise[e]
      BY <2>1, <2>2 DEF StoreShape
    <3> QED
      BY <3>1, <3>2, <3>3 DEF Agrees, WillAgree
  <2>6. \A u \in Texcs : job[u] = {}
    BY <1>0, <2>1, <2>2, OneLoaded
  <2>7. (\A e \in Entries : Kept(e))' /\ SavesDone'
    <3>1. \A q \in Requests : c # None /\ request'[c] = {q} => (q.entry \in held <=> q.kind = "add")
      BY <2>1, <2>4
    <3> QED
      BY <1>0, <2>1, <2>2, <2>4, <2>5, <2>6, <3>1, SavingKeeps
  <2>8. table'[t] = held
    BY <2>1, <2>2 DEF StoreShape
  <2>9. TableAgrees'
    BY <1>0, <2>2, <2>5, <2>8, OneLoaded DEF TableAgrees, Agrees, WillAgree
  <2> QED
    BY <2>7, <2>9
<1>8. ASSUME NEW t \in Texcs, Stop(t)
      PROVE  (\A e \in Entries : Kept(e))' /\ TableAgrees' /\ SavesDone'
  <2>1. pc[t] = "stopping" /\ job[t] = {} /\ Saving(t, None, table[t]) /\ UNCHANGED <<table, promise>>
    BY <1>8 DEF Stop
  <2>2. Loaded(t)
    BY <2>1 DEF Loaded, Held
  <2>3. \A e \in Entries : WillAgree(e, table[t]) /\ promise'[e] \in {promise[e], "open"}
    BY <1>0, <2>1, <2>2 DEF TableAgrees, Agrees, WillAgree
  <2>4. \A u \in Texcs : job[u] = {}
    BY <1>0, <2>1, <2>2, OneLoaded
  <2>5. table[t] \in SUBSET Entries /\ table' = [table EXCEPT ![t] = table[t]]
    BY <2>1 DEF StoreShape
  <2>6. (\A e \in Entries : Kept(e))' /\ SavesDone'
    BY <1>0, <2>1, <2>3, <2>4, <2>5, SavingKeeps
  <2>7. TableAgrees'
    BY <1>0, <2>1, <2>2, <2>3, OneLoaded DEF TableAgrees, Agrees, WillAgree
  <2> QED
    BY <2>6, <2>7
<1>9. ASSUME NEW t \in Texcs, NEW g \in Groups, Truncate(t, g)
      PROVE  (\A e \in Entries : Kept(e))' /\ TableAgrees' /\ SavesDone'
  <2>1. PICK j \in job[t] :
          /\ j.open = {} /\ g \in j.todo
          /\ job' = [job EXCEPT ![t] = {[j EXCEPT !.todo = @ \ {g}, !.open = {g}]}]
    BY <1>9 DEF Truncate
  <2>2. disk' = [disk EXCEPT ![g] = {}] /\ UNCHANGED <<table, promise, request>>
    BY <1>9 DEF Truncate, asked
  <2>3. job[t] = {j} /\ j \in Save /\ Loaded(t)
    BY <2>1, SaverLoaded DEF StoreShape
  <2> DEFINE new == [j EXCEPT !.todo = @ \ {g}, !.open = {g}]
  <2>4. new.client = j.client /\ new.todo = j.todo \ {g} /\ new.open = {g}
    BY <2>3 DEF Save
  <2>5. job'[t] = {new} /\ \A u \in Texcs \ {t} : job'[u] = {} /\ job[u] = {}
    BY <1>0, <2>1, <2>3, OneLoaded DEF StoreShape
  <2> HIDE DEF new
  <2>6. ASSUME NEW e \in Entries PROVE Kept(e)'
    <3>1. CASE GroupOf[e] = g
      BY <2>4, <2>5, <3>1 DEF Kept
    <3>2. CASE GroupOf[e] # g
      <4>1. Agrees(e, disk[GroupOf[e]]) /\ GroupOf[e] \in Groups
        BY <1>0, <2>1, <2>3, <2>5 DEF Kept, Groups
      <4> QED
        BY <2>2, <3>2, <4>1 DEF Kept, Agrees, StoreShape
    <3> QED
      BY <3>1, <3>2
  <2>7. TableAgrees'
    BY <1>0, <2>2, <2>3, OneLoaded DEF TableAgrees, Agrees
  <2>8. ASSUME NEW f \in Groups \ (new.todo \cup new.open) PROVE disk'[f] = table[t] \cap Of(f)
    BY <1>0, <2>1, <2>2, <2>3, <2>4 DEF SavesDone, StoreShape
  <2>9. SavesDone'
    BY <1>0, <2>2, <2>3, <2>4, <2>5, <2>8 DEF SavesDone
  <2> QED
    BY <2>6, <2>7, <2>9
<1>10. ASSUME NEW t \in Texcs, NEW g \in Groups, Flush(t, g)
       PROVE  (\A e \in Entries : Kept(e))' /\ TableAgrees' /\ SavesDone'
  <2>1. PICK j \in job[t] : g \in j.open /\ job' = [job EXCEPT ![t] = {[j EXCEPT !.open = {}]}]
    BY <1>10 DEF Flush
  <2>2. disk' = [disk EXCEPT ![g] = table[t] \cap Of(g)] /\ UNCHANGED <<table, promise, request>>
    BY <1>10 DEF Flush, asked
  <2>3. job[t] = {j} /\ j \in Save /\ Loaded(t) /\ j.open = {g}
    BY <1>0, <2>1, SaverLoaded DEF StoreShape, SavesDone
  <2> DEFINE new == [j EXCEPT !.open = {}]
  <2>4. new.client = j.client /\ new.todo = j.todo /\ new.open = {}
    BY <2>3 DEF Save
  <2>5. job'[t] = {new} /\ \A u \in Texcs \ {t} : job'[u] = {} /\ job[u] = {}
    BY <1>0, <2>1, <2>3, OneLoaded DEF StoreShape
  <2> HIDE DEF new
  <2>6. ASSUME NEW e \in Entries PROVE Kept(e)'
    <3>0. GroupOf[e] \in Groups /\ e \in Of(GroupOf[e])
      BY DEF Groups, Of
    <3>1. CASE GroupOf[e] = g
      <4>1. Agrees(e, table[t])
        BY <1>0, <2>3 DEF TableAgrees
      <4>2. e \in disk'[g] <=> e \in table[t]
        BY <2>2, <3>0, <3>1 DEF StoreShape
      <4> QED
        BY <2>2, <3>1, <4>1, <4>2 DEF Kept, Agrees
    <3>2. CASE GroupOf[e] # g
      <4>1. Agrees(e, disk[GroupOf[e]])
        BY <1>0, <2>3, <2>5, <3>2 DEF Kept
      <4> QED
        BY <2>2, <3>0, <3>2, <4>1 DEF Kept, Agrees, StoreShape
    <3> QED
      BY <3>1, <3>2
  <2>7. TableAgrees'
    BY <1>0, <2>2, <2>3, OneLoaded DEF TableAgrees, Agrees
  <2>8. ASSUME NEW f \in Groups \ (new.todo \cup new.open) PROVE disk'[f] = table[t] \cap Of(f)
    BY <1>0, <2>1, <2>2, <2>3, <2>4 DEF SavesDone, StoreShape
  <2>9. SavesDone'
    BY <1>0, <2>2, <2>3, <2>4, <2>5, <2>8 DEF SavesDone
  <2> QED
    BY <2>6, <2>7, <2>9
<1>11. ASSUME NEW t \in Texcs, Saved(t)
       PROVE  (\A e \in Entries : Kept(e))' /\ TableAgrees' /\ SavesDone'
  <2>1. PICK j \in job[t] :
          /\ j.open = {} /\ j.todo = {}
          /\ \/ /\ j.client # None
                /\ \E r \in request[j.client] :
                     promise' = [promise EXCEPT ![r.entry] = IF r.kind = "add" THEN "in" ELSE "out"]
             \/ promise' = promise
    BY <1>11 DEF Saved
  <2>2. job' = [job EXCEPT ![t] = {}] /\ UNCHANGED <<table, disk>>
    BY <1>11 DEF Saved
  <2>3. job[t] = {j} /\ Loaded(t)
    BY <2>1, SaverLoaded DEF StoreShape
  <2>4. \A u \in Texcs : job'[u] = {}
    BY <1>0, <2>2, <2>3, OneLoaded DEF StoreShape
  <2>5. ASSUME NEW e \in Entries PROVE WillAgree(e, table[t])
    <3>1. Agrees(e, table[t])
      BY <1>0, <2>3 DEF TableAgrees
    <3>2. CASE promise' = promise
      BY <3>1, <3>2 DEF Agrees, WillAgree
    <3>3. ASSUME j.client # None, NEW r \in request[j.client],
                 promise' = [promise EXCEPT ![r.entry] = IF r.kind = "add" THEN "in" ELSE "out"]
          PROVE  WillAgree(e, table[t])
      <4>1. r \in Requests /\ request[j.client] = {r}
        <5>1. PICK q \in Requests : request[j.client] = {q}
          BY <3>3 DEF StoreShape, SavesFor
        <5> QED
          BY <3>3, <5>1
      <4>2. r.entry \in table[t] <=> r.kind = "add"
        BY <1>0, <3>3, <4>1 DEF SavesDone
      <4> QED
        BY <3>1, <3>3, <4>2 DEF Agrees, WillAgree, StoreShape
    <3> QED
      BY <2>1, <3>2, <3>3
  <2>6. TableAgrees'
    BY <1>0, <2>2, <2>3, <2>5, OneLoaded DEF TableAgrees, Agrees, WillAgree
  <2>7. ASSUME NEW e \in Entries PROVE Kept(e)'
    <3>1. GroupOf[e] \in Groups /\ e \in Of(GroupOf[e])
      BY DEF Groups, Of
    <3>2. disk[GroupOf[e]] = table[t] \cap Of(GroupOf[e])
      BY <1>0, <2>1, <3>1 DEF SavesDone
    <3> QED
      BY <2>2, <2>5, <3>1, <3>2 DEF Kept, Agrees, WillAgree
  <2> QED
    BY <2>4, <2>6, <2>7 DEF SavesDone
<1>12. ASSUME NEW t \in Texcs, Gone(t)
       PROVE  (\A e \in Entries : Kept(e))' /\ TableAgrees' /\ SavesDone'
  <2>1. /\ job' = [job EXCEPT ![t] = {}] /\ UNCHANGED <<table, disk, request>>
        /\ promise' = [e \in Entries |->
                        IF \E j \in job[t] : GroupOf[e] \in j.open THEN "open" ELSE promise[e]]
    BY <1>12 DEF Gone, asked
  <2>2. job'[t] = {} /\ \A u \in Texcs \ {t} : job'[u] = job[u]
    BY <2>1 DEF StoreShape
  <2>3. ASSUME NEW e \in Entries PROVE Kept(e)'
    <3>1. CASE \E j \in job[t] : GroupOf[e] \in j.open
      BY <2>1, <3>1 DEF Kept, Agrees
    <3>2. CASE ~\E j \in job[t] : GroupOf[e] \in j.open
      BY <1>0, <2>1, <2>2, <3>2 DEF Kept, Agrees
    <3> QED
      BY <3>1, <3>2
  <2>4. TableAgrees'
    BY <1>0, <1>2, <1>5, <2>1 DEF TableAgrees, Agrees
  <2>5. SavesDone'
    BY <1>0, <2>1, <2>2 DEF SavesDone
  <2> QED
    BY <2>3, <2>4, <2>5
<1> QED
  BY <1>5, <1>6, <1>7, <1>8, <1>9, <1>10, <1>11, <1>12 DEF StoreCaused

(* Whatever was answered as added is in its save file, and what was answered   *)
(* as removed is not, whatever closes, signals and kills come in between, but  *)
(* for the group whose file is being written and until two texcs have been     *)
(* past their probe at once (data_io_save, data_io_load, the requests of       *)
(* manage.c).                                                                  *)
THEOREM AnsweredIsKept == Spec => []AckedIsKept
<1> DEFINE Inv == ShapeInv /\ AckInv
<1>1. Init => Inv
  <2> SUFFICES ASSUME Init PROVE Inv
    OBVIOUS
  <2>1. \A t \in Texcs : pc[t] = "idle" /\ job[t] = {}
    BY DEF Init, Actors
  <2>2. PICK S \in SUBSET Entries : /\ disk = [g \in Groups |-> S \cap Of(g)]
                                  /\ promise = [e \in Entries |-> IF e \in S THEN "in" ELSE "out"]
    BY DEF Init
  <2>3. AckedIsKept
    BY <2>2 DEF AckedIsKept, Groups, Of
  <2>4. OnePast /\ TableAgrees /\ SavesDone
    BY <2>1 DEF OnePast, TableAgrees, SavesDone, Past, Up, Ending, Loaded, Held
  <2> QED
    BY <2>3, <2>4, ShapeInit DEF AckInv
<1>2. Inv /\ [Next]_vars => Inv'
  <2> SUFFICES ASSUME Inv, [Next]_vars PROVE Inv'
    OBVIOUS
  <2>1. FileShape /\ NetShape /\ StoreShape /\ StoreShape' /\ ShapeInv'
    BY ShapeParts, NextStoreShape, ShapeStep
  <2> QED
    BY <2>1, NextCaused, NextStoreCaused, AckStep
<1>3. Inv => AckedIsKept
  BY DEF AckInv
<1> QED
  BY <1>1, <1>2, <1>3, PTL DEF Spec
=============================================================================
