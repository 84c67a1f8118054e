--------------------------- MODULE KeyboardProofs ---------------------------
(***************************************************************************)
(* Proofs about Keyboard, for any modifiers, in any order, any characters  *)
(* and jobs, and however often the user touches a key.  A modifier texc    *)
(* has suspended is one that is meant to be down, and any other one is as  *)
(* it is meant to be: this is Owed, with the left shift key, which texc    *)
(* presses itself, as the exception.                                       *)
(***************************************************************************)
EXTENDS Keyboard, SequenceTheorems, TLAPS

\* Modifiers texc has come to in this step
Seen(m) == \E i \in 1 .. visited : Order[i] = m

\* The user or a tag wants it down.
Meant(m) == m \in held \/ m \in tags

\* Left shift while texc types with it: what _keyboard_raw_type lets go of again
OwnShift(m) == m = ShiftL /\ should /\ step \in {"strike", "unshift"}

Owed ==
    \A m \in Modifiers \ loose :
        /\ m \in keys => Meant(m)
        /\ m \notin keys /\ OwnShift(m) => ~Meant(m)
        /\ m \notin keys /\ ~OwnShift(m) => (m \in down <=> Meant(m))
        /\ m \in keys /\ step = "restore" /\ Seen(m) => m \in down

\* A left shift that was up when texc came to it stays up, or is loose.
ShiftUp ==
    step = "suspend" /\ (should \/ shifted) /\ Seen(ShiftL) /\ ShiftL \notin keys \cup loose
        => ShiftL \notin down

NumOwed == num = IF step = "arrows" /\ numLock THEN ~wanted ELSE wanted

\* What texc relies on when it strikes a key, as long as the user keeps still
Prepared ==
    calm =>
      /\ step \in {"suspend", "strike"} => should = ShouldShift(Head(job).char, caps)
      /\ step = "suspend" => \A m \in Modifiers : Seen(m) => m \notin down
      /\ step = "strike" => down = IF should THEN {ShiftL} ELSE {}
      /\ step = "arrows" => ~num

-----------------------------------------------------------------------------
(* What an item carries                                                        *)
LEMMA ItemParts ==
    ASSUME NEW i \in Items
    PROVE  /\ i.do = "type" => i.char \in Characters
           /\ i.do \in {"press", "release"} => i.key \in Modifiers
           /\ i.do = "arrows" => i.count \in Nat
BY DEF Items

(* Going through Order texc comes to one more modifier, and in the end to all. *)
LEMMA SeenGrows ==
    ASSUME TypeOK, visited < Len(Order), visited' = visited + 1
    PROVE  /\ Order[visited + 1] \in Modifiers
           /\ \A m : Seen(m)' <=> Seen(m) \/ m = Order[visited + 1]
<1>1. visited \in Nat /\ Len(Order) \in Nat /\ \A i \in 1 .. Len(Order) : Order[i] \in Modifiers
  BY KeyboardAssumption, ElementOfSeq DEF TypeOK
<1>2. Order[visited + 1] \in Modifiers
  BY <1>1
<1>3. \A i : i \in 1 .. visited + 1 <=> i \in 1 .. visited \/ i = visited + 1
  BY <1>1
<1> QED
  BY <1>2, <1>3 DEF Seen

(* A loop over Order that is through has come to every modifier.               *)
LEMMA SeenAll ==
    ASSUME visited = Len(Order)
    PROVE  \A m \in Modifiers : Seen(m)
<1>1. DOMAIN Order = 1 .. Len(Order)
  BY KeyboardAssumption, LenProperties
<1> QED
  BY <1>1, KeyboardAssumption DEF Seen

(* A loop that has not begun has come to none.                                 *)
LEMMA NoneSeen == visited = 0 => \A m : ~Seen(m)
<1>1. 1 .. 0 = {}
  OBVIOUS
<1> QED
  BY <1>1 DEF Seen

(* The item under way, and those after it, are items.                          *)
LEMMA ItemUnderWay ==
    ASSUME TypeOK, job # <<>>
    PROVE  Head(job) \in Items /\ Tail(job) \in Seq(Items)
BY HeadTailProperties DEF TypeOK

-----------------------------------------------------------------------------
(* Every step keeps the types.                                                 *)
LEMMA NextTypeOK == TypeOK /\ [Next]_vars => TypeOK'
<1> SUFFICES ASSUME TypeOK, [Next]_vars
             PROVE  TypeOK'
  OBVIOUS
<1> USE DEF TypeOK, item, locks, Idle
<1>0. ShiftL \in Modifiers /\ MaxJobs \in Nat /\ MaxTouches \in Nat /\ Len(Order) \in Nat
  BY KeyboardAssumption, LenProperties DEF Modifiers
<1>1. CASE Begin
  <2>1. PICK j \in Jobs : job' = j
    BY <1>1 DEF Begin
  <2>2. job' \in Seq(Items)
    BY <2>1, KeyboardAssumption
  <2> QED
    BY <1>0, <1>1, <2>2 DEF Begin
<1>2. CASE AskState
  <2>1. Head(job).char \in Characters
    BY <1>2, ItemUnderWay, ItemParts DEF AskState, Doing
  <2>2. ShouldShift(Head(job).char, caps) \in BOOLEAN
    BY <2>1 DEF ShouldShift, Characters
  <2> QED
    BY <1>0, <1>2, <2>2 DEF AskState, Doing
<1>3. CASE SuspendModifier
  <2>1. Order[visited + 1] \in Modifiers
    BY <1>3, SeenGrows DEF SuspendModifier
  <2> QED
    BY <1>0, <1>3, <2>1 DEF SuspendModifier, Remembered
<1>4. CASE SetShift
  <2>1. down' \subseteq Modifiers
    BY <1>0, <1>4 DEF SetShift
  <2> QED
    BY <1>4, <2>1 DEF SetShift, Goto
<1>5. CASE StrikeKey
  BY <1>5 DEF StrikeKey, Goto
<1>6. CASE UnsetShift
  BY <1>0, <1>6 DEF UnsetShift
<1>7. CASE RestoreModifier
  <2>1. Order[visited + 1] \in Modifiers
    BY <1>7, SeenGrows DEF RestoreModifier
  <2> QED
    BY <1>0, <1>7, <2>1 DEF RestoreModifier
<1>8. CASE TypeDone
  BY <1>8, ItemUnderWay DEF TypeDone, Done
<1>9. CASE PressTag
  <2>1. Head(job).key \in Modifiers /\ Tail(job) \in Seq(Items)
    BY <1>9, ItemUnderWay, ItemParts DEF PressTag, Doing
  <2> QED
    BY <1>9, <2>1 DEF PressTag, Done, Doing
<1>10. CASE ReleaseTag
  <2>1. Head(job).key \in Modifiers /\ Tail(job) \in Seq(Items)
    BY <1>10, ItemUnderWay, ItemParts DEF ReleaseTag, Doing
  <2> QED
    BY <1>10, <2>1 DEF ReleaseTag, Done, Doing
<1>11. CASE NumLockOff
  BY <1>11 DEF NumLockOff, NumTapped, Doing
<1>12. CASE StrikeArrow
  BY <1>12 DEF StrikeArrow
<1>13. CASE NumLockBack
  BY <1>13, ItemUnderWay DEF NumLockBack, NumTapped, Done
<1>14. CASE UserPresses
  <2>1. touches' \in 0 .. MaxTouches /\ calm' = FALSE /\ UNCHANGED <<item, tags, struck, jobs>>
    BY <1>0, <1>14 DEF UserPresses, Touch
  <2>2. held' \subseteq Modifiers /\ down' \subseteq Modifiers /\ loose' \subseteq Modifiers
    BY <1>14 DEF UserPresses
  <2>3. caps' \in BOOLEAN /\ num' \in BOOLEAN /\ wanted' \in BOOLEAN
    BY <1>14 DEF UserPresses
  <2> QED
    BY <2>1, <2>2, <2>3
<1>15. CASE UserReleases
  <2>1. touches' \in 0 .. MaxTouches /\ calm' = FALSE /\ UNCHANGED <<item, tags, struck, jobs>>
    BY <1>0, <1>15 DEF UserReleases, Touch
  <2>2. held' \subseteq Modifiers /\ down' \subseteq Modifiers /\ loose' \subseteq Modifiers
    BY <1>15 DEF UserReleases
  <2>3. caps' \in BOOLEAN /\ num' \in BOOLEAN /\ wanted' \in BOOLEAN
    BY <1>15 DEF UserReleases
  <2> QED
    BY <2>1, <2>2, <2>3
<1>16. CASE UserLocksCaps
  <2>1. touches' \in 0 .. MaxTouches /\ calm' = FALSE /\ UNCHANGED <<item, tags, struck, jobs>>
    BY <1>0, <1>16 DEF UserLocksCaps, Touch
  <2>2. held' \subseteq Modifiers /\ down' \subseteq Modifiers /\ loose' \subseteq Modifiers
    BY <1>16 DEF UserLocksCaps
  <2>3. caps' \in BOOLEAN /\ num' \in BOOLEAN /\ wanted' \in BOOLEAN
    BY <1>16 DEF UserLocksCaps
  <2> QED
    BY <2>1, <2>2, <2>3
<1>17. CASE UserLocksNum
  <2>1. touches' \in 0 .. MaxTouches /\ calm' = FALSE /\ UNCHANGED <<item, tags, struck, jobs>>
    BY <1>0, <1>17 DEF UserLocksNum, Touch
  <2>2. held' \subseteq Modifiers /\ down' \subseteq Modifiers /\ loose' \subseteq Modifiers
    BY <1>17 DEF UserLocksNum
  <2>3. caps' \in BOOLEAN /\ num' \in BOOLEAN /\ wanted' \in BOOLEAN
    BY <1>17 DEF UserLocksNum
  <2> QED
    BY <2>1, <2>2, <2>3
<1>18. CASE UNCHANGED vars
  BY <1>18 DEF vars
<1> QED
  BY <1>1, <1>2, <1>3, <1>4, <1>5, <1>6, <1>7, <1>8, <1>9, <1>10, <1>11, <1>12, <1>13,
     <1>14, <1>15, <1>16, <1>17, <1>18 DEF Next, Texc, User

(* The types, for any modifiers, jobs and bounds.                              *)
THEOREM TypeCorrect == Spec => []TypeOK
<1>1. Init => TypeOK
  <2> SUFFICES ASSUME Init
               PROVE  TypeOK
    OBVIOUS
  <2>1. <<>> \in Seq(Items)
    OBVIOUS
  <2>2. /\ step = "next" /\ job = <<>> /\ keys = {} /\ visited = 0 /\ jobs = 0 /\ touches = 0
        /\ held \subseteq Modifiers /\ down = held /\ tags = {} /\ loose = {}
    BY DEF Init
  <2>3. caps \in BOOLEAN /\ num \in BOOLEAN /\ wanted \in BOOLEAN
        /\ shifted = FALSE /\ should = FALSE /\ numLock = FALSE /\ calm = FALSE
    BY DEF Init
  <2>4. jobs \in 0 .. MaxJobs /\ touches \in 0 .. MaxTouches
    BY <2>2, KeyboardAssumption
  <2> QED
    BY <2>1, <2>2, <2>3, <2>4 DEF TypeOK, Idle
<1> QED
  BY <1>1, NextTypeOK, PTL DEF Spec
-----------------------------------------------------------------------------
(* Every step keeps what texc and the user owe each modifier.                  *)
LEMMA NextOwed == TypeOK /\ Owed /\ ShiftUp /\ [Next]_vars => Owed' /\ ShiftUp'
<1> SUFFICES ASSUME TypeOK, Owed, ShiftUp, [Next]_vars
             PROVE  Owed' /\ ShiftUp'
  OBVIOUS
<1> USE DEF item, locks, Idle
<1>0. ShiftL \in Modifiers
  BY DEF Modifiers
<1>1. CASE Begin
  BY <1>1 DEF Begin, Owed, ShiftUp, Meant, OwnShift, Seen
<1>2. CASE AskState
  <2>1. ~Seen(ShiftL)'
    BY <1>2 DEF AskState, Seen
  <2>2. Owed'
    BY <1>2 DEF AskState, Owed, Meant, OwnShift, TypeOK
  <2> QED
    BY <2>1, <2>2 DEF ShiftUp
<1>3. CASE SuspendModifier
  <2> DEFINE at == Order[visited + 1]
  <2>1. \A m : Seen(m)' <=> Seen(m) \/ m = at
    BY <1>3, SeenGrows DEF SuspendModifier
  <2>2. /\ step = "suspend" /\ keys' = (IF at \in down THEN keys \cup {at} ELSE keys)
        /\ down' = down \ {at}
        /\ UNCHANGED <<held, tags, loose, step, shifted, should>>
    BY <1>3 DEF SuspendModifier, Remembered
  <2> HIDE DEF at
  <2>3. Owed'
    BY <2>2 DEF Owed, Meant, OwnShift
  <2>4. ShiftUp'
    BY <2>1, <2>2 DEF ShiftUp
  <2> QED
    BY <2>3, <2>4
<1>4. CASE SetShift
  <2>1. Seen(ShiftL)
    BY <1>0, <1>4, SeenAll DEF SetShift
  <2>2. /\ step = "suspend" /\ step' = "strike"
        /\ UNCHANGED <<held, tags, loose, keys, should>>
    BY <1>4 DEF SetShift, Goto
  <2>3. CASE should
    <3>1. down' = down \cup {ShiftL}
      BY <1>4, <2>3 DEF SetShift
    <3>2. ShiftL \notin keys \cup loose => ~Meant(ShiftL)
      BY <1>0, <2>1, <2>2, <2>3 DEF Owed, ShiftUp, OwnShift
    <3> QED
      BY <2>2, <2>3, <3>1, <3>2 DEF Owed, ShiftUp, Meant, OwnShift
  <2>4. CASE ~should
    <3>1. down' = IF shifted THEN down \ {ShiftL} ELSE down
      BY <1>4, <2>4 DEF SetShift
    <3>2. shifted /\ ShiftL \notin keys \cup loose => ShiftL \notin down
      BY <2>1, <2>2 DEF ShiftUp
    <3> QED
      BY <2>2, <2>4, <3>1, <3>2 DEF Owed, ShiftUp, Meant, OwnShift
  <2> QED
    BY <2>3, <2>4
<1>5. CASE StrikeKey
  <2>1. /\ step = "strike" /\ step' = "unshift"
        /\ UNCHANGED <<held, down, tags, loose, keys, should>>
    BY <1>5 DEF StrikeKey, Goto
  <2> QED
    BY <2>1 DEF Owed, ShiftUp, Meant, OwnShift
<1>6. CASE UnsetShift
  <2>1. \A m : ~Seen(m)'
    BY <1>6 DEF UnsetShift, Seen
  <2> QED
    BY <1>6, <2>1 DEF UnsetShift, Owed, ShiftUp, Meant, OwnShift
<1>7. CASE RestoreModifier
  <2> DEFINE at == Order[visited + 1]
  <2>1. \A m : Seen(m)' <=> Seen(m) \/ m = at
    BY <1>7, SeenGrows DEF RestoreModifier, TypeOK
  <2>2. /\ step = "restore" /\ down' = (IF at \in keys THEN down \cup {at} ELSE down)
        /\ UNCHANGED <<held, tags, loose, step, keys, shifted, should>>
    BY <1>7 DEF RestoreModifier
  <2> HIDE DEF at
  <2>3. Owed'
    BY <2>1, <2>2 DEF Owed, Meant, OwnShift
  <2> QED
    BY <2>2, <2>3 DEF ShiftUp
<1>8. CASE TypeDone
  <2>1. \A m \in Modifiers : Seen(m)
    BY <1>8, SeenAll DEF TypeDone
  <2> QED
    BY <1>8, <2>1 DEF TypeDone, Done, Owed, ShiftUp, Meant, OwnShift
<1>9. CASE PressTag
  BY <1>9 DEF PressTag, Done, Owed, ShiftUp, Meant, OwnShift, TypeOK
<1>10. CASE ReleaseTag
  BY <1>10 DEF ReleaseTag, Done, Owed, ShiftUp, Meant, OwnShift, TypeOK
<1>11. CASE NumLockOff
  BY <1>11 DEF NumLockOff, Owed, ShiftUp, Meant, OwnShift, TypeOK
<1>12. CASE StrikeArrow
  BY <1>12 DEF StrikeArrow, Owed, ShiftUp, Meant, OwnShift, TypeOK
<1>13. CASE NumLockBack
  BY <1>13 DEF NumLockBack, Done, Owed, ShiftUp, Meant, OwnShift, TypeOK
<1>14. CASE UserPresses
  <2>1. PICK m \in Modifiers \ held :
          /\ held' = held \cup {m} /\ down' = down \cup {m}
          /\ loose' = (IF m = ShiftL /\ m \notin keys /\ ShiftComingUp THEN loose \cup {m}
                       ELSE loose \ {m})
          /\ UNCHANGED <<step, visited, keys, shifted, should, tags>>
    BY <1>14 DEF UserPresses
  <2>2. \A x : Seen(x)' <=> Seen(x)
    BY <2>1 DEF Seen
  <2>3. OwnShift(m) => ShiftComingUp
    BY DEF OwnShift, ShiftComingUp
  <2>4. Owed'
    BY <2>1, <2>2, <2>3 DEF Owed, Meant, OwnShift
  <2>5. ShiftUp'
    BY <2>1, <2>2 DEF ShiftUp, ShiftComingUp
  <2> QED
    BY <2>4, <2>5
<1>15. CASE UserReleases
  <2>1. PICK m \in held :
          /\ held' = held \ {m} /\ down' = down \ {m}
          /\ loose' = (IF m \in keys \cup tags THEN loose \cup {m} ELSE loose \ {m})
          /\ UNCHANGED <<step, visited, keys, shifted, should, tags>>
    BY <1>15 DEF UserReleases
  <2>2. \A x : Seen(x)' <=> Seen(x)
    BY <2>1 DEF Seen
  <2>3. Owed'
    BY <2>1, <2>2 DEF Owed, Meant, OwnShift
  <2>4. ShiftUp'
    BY <2>1, <2>2 DEF ShiftUp
  <2> QED
    BY <2>3, <2>4
<1>16. CASE UserLocksCaps
  BY <1>16 DEF UserLocksCaps, Owed, ShiftUp, Meant, OwnShift, Seen
<1>17. CASE UserLocksNum
  BY <1>17 DEF UserLocksNum, Owed, ShiftUp, Meant, OwnShift, Seen
<1>18. CASE UNCHANGED vars
  BY <1>18 DEF vars, Owed, ShiftUp, Meant, OwnShift, Seen
<1> QED
  BY <1>1, <1>2, <1>3, <1>4, <1>5, <1>6, <1>7, <1>8, <1>9, <1>10, <1>11, <1>12, <1>13,
     <1>14, <1>15, <1>16, <1>17, <1>18 DEF Next, Texc, User

(* The user's num lock is put back.                                            *)
LEMMA NextNumOwed == TypeOK /\ NumOwed /\ [Next]_vars => NumOwed'
<1> SUFFICES ASSUME TypeOK, NumOwed, [Next]_vars
             PROVE  NumOwed'
  OBVIOUS
<1> USE DEF item, locks, Idle, NumOwed
<1>1. num \in BOOLEAN /\ wanted \in BOOLEAN
  BY DEF TypeOK
<1>2. CASE NumLockOff
  BY <1>1, <1>2 DEF NumLockOff, NumTapped
<1>3. CASE NumLockBack
  BY <1>1, <1>3 DEF NumLockBack, NumTapped, Done
<1>4. CASE UserLocksNum
  BY <1>1, <1>4 DEF UserLocksNum
<1>5. CASE Begin \/ SuspendModifier \/ RestoreModifier \/ StrikeArrow
            \/ UserPresses \/ UserReleases \/ UserLocksCaps \/ UNCHANGED vars
  BY <1>5 DEF Begin, SuspendModifier, RestoreModifier, StrikeArrow,
              UserPresses, UserReleases, UserLocksCaps, vars
<1>6. CASE AskState \/ SetShift \/ StrikeKey \/ UnsetShift \/ TypeDone \/ PressTag \/ ReleaseTag
  BY <1>6 DEF AskState, SetShift, StrikeKey, UnsetShift, TypeDone, PressTag, ReleaseTag, Goto, Done
<1> QED
  BY <1>2, <1>3, <1>4, <1>5, <1>6 DEF Next, Texc, User

(* Between two items every modifier is where the user and the tags want it,    *)
(* whatever the user pressed and let go of between texc's requests.            *)
THEOREM ModifiersReturn == Spec => []ModifiersComeBack
<1>1. Init => Owed /\ ShiftUp /\ NumOwed
  BY DEF Init, Owed, ShiftUp, NumOwed, Meant, OwnShift
<1>2. TypeOK /\ Owed /\ NumOwed => ModifiersComeBack
  BY DEF TypeOK, Owed, NumOwed, ModifiersComeBack, Meant, OwnShift, Idle
<1> QED
  BY <1>1, <1>2, TypeCorrect, NextOwed, NextNumOwed, PTL DEF Spec
-----------------------------------------------------------------------------
(* What texc relies on is there when it strikes.                               *)
LEMMA NextPrepared == TypeOK /\ Prepared /\ [Next]_vars => Prepared'
<1> SUFFICES ASSUME TypeOK, Prepared, [Next]_vars
             PROVE  Prepared'
  OBVIOUS
<1> USE DEF item, locks, Idle
<1>1. CASE AskState
  <2>1. \A m : ~Seen(m)'
    BY <1>1 DEF AskState, Seen
  <2>2. step' = "suspend" /\ UNCHANGED <<job, caps>> /\ should' = ShouldShift(Head(job).char, caps)
    BY <1>1 DEF AskState
  <2> QED
    BY <2>1, <2>2 DEF Prepared
<1>2. CASE SuspendModifier
  <2> DEFINE at == Order[visited + 1]
  <2>1. \A m : Seen(m)' <=> Seen(m) \/ m = at
    BY <1>2, SeenGrows DEF SuspendModifier
  <2>2. /\ step = "suspend" /\ down' = down \ {at}
        /\ UNCHANGED <<step, job, caps, should, calm>>
    BY <1>2 DEF SuspendModifier
  <2> HIDE DEF at
  <2> QED
    BY <2>1, <2>2 DEF Prepared
<1>3. CASE SetShift
  <2>1. step = "suspend" /\ step' = "strike" /\ UNCHANGED <<job, caps, should, calm>>
    BY <1>3 DEF SetShift, Goto
  <2>2. calm => down = {}
    BY <1>3, <2>1, SeenAll DEF SetShift, Prepared, TypeOK
  <2>3. down = {} => down' = IF should THEN {ShiftL} ELSE {}
    BY <1>3 DEF SetShift
  <2> QED
    BY <2>1, <2>2, <2>3 DEF Prepared
<1>4. CASE NumLockOff
  <2>1. num \in BOOLEAN
    BY DEF TypeOK
  <2> QED
    BY <1>4, <2>1 DEF NumLockOff, NumTapped, Prepared
<1>5. CASE StrikeArrow
  BY <1>5 DEF StrikeArrow, Prepared
<1>6. CASE User
  <2>1. calm' = FALSE
    BY <1>6 DEF User, UserPresses, UserReleases, UserLocksCaps, UserLocksNum, Touch
  <2> QED
    BY <2>1 DEF Prepared
<1>7. CASE Begin
  <2>1. step = "next"
    BY <1>7 DEF Begin, TypeOK
  <2> QED
    BY <1>7, <2>1 DEF Begin, Prepared
<1>8. CASE StrikeKey \/ UnsetShift \/ RestoreModifier \/ TypeDone \/ PressTag \/ ReleaseTag
            \/ NumLockBack
  <2>1. step' \in {"unshift", "restore", "next"}
    BY <1>8 DEF StrikeKey, UnsetShift, RestoreModifier, TypeDone, PressTag, ReleaseTag,
                NumLockBack, Goto, Done
  <2> QED
    BY <2>1 DEF Prepared
<1>9. CASE UNCHANGED vars
  BY <1>9 DEF vars, Prepared, Seen
<1> QED
  BY <1>1, <1>2, <1>3, <1>4, <1>5, <1>6, <1>7, <1>8, <1>9 DEF Next, Texc

(* With the shift key where ShouldShift wants it, and no other modifier, a     *)
(* letter, a symbol and a digit come out at their own level.                   *)
LEMMA OwnLevel ==
    ASSUME NEW char \in Characters, caps \in BOOLEAN,
           down = IF ShouldShift(char, caps) THEN {ShiftL} ELSE {}
    PROVE  Level(char) = char.shifted /\ down \cap Commands = {}
<1>1. char.shifted \in BOOLEAN /\ char.kind \in {"letter", "symbol", "digit"}
      /\ (char.kind = "digit" => ~char.shifted)
  BY DEF Characters
<1>2. ShiftL \notin Commands
  BY KeyboardAssumption
<1>3. (down \cap {ShiftL, ShiftR} # {}) <=> ShouldShift(char, caps)
  OBVIOUS
<1>4. down \cap Commands = {}
  BY <1>2
<1>5. CASE char.kind = "letter"
  <2>1. ShouldShift(char, caps) = (char.shifted # caps)
    BY <1>5 DEF ShouldShift
  <2>2. Level(char) = ((down \cap {ShiftL, ShiftR} # {}) # caps)
    BY <1>5 DEF Level
  <2> QED
    BY <1>1, <1>3, <1>4, <2>1, <2>2
<1>6. CASE char.kind = "symbol"
  BY <1>1, <1>3, <1>4, <1>6 DEF ShouldShift, Level
<1>7. CASE char.kind = "digit"
  BY <1>1, <1>3, <1>4, <1>7 DEF ShouldShift, Level
<1> QED
  BY <1>1, <1>5, <1>6, <1>7

(* What is struck is what was meant.                                           *)
LEMMA NextStruck ==
    TypeOK /\ Prepared /\ TypedAsMeant /\ ArrowsMove /\ [Next]_vars => TypedAsMeant' /\ ArrowsMove'
<1> SUFFICES ASSUME TypeOK, Prepared, TypedAsMeant, ArrowsMove, [Next]_vars
             PROVE  TypedAsMeant' /\ ArrowsMove'
  OBVIOUS
<1> USE DEF item, locks, Idle
<1>1. CASE StrikeKey
  <2> DEFINE char == Head(job).char
             level == Level(char)
  <2>1. step = "strike" /\ Head(job).do = "type" /\ char \in Characters
    BY <1>1, ItemUnderWay, ItemParts DEF StrikeKey, TypeOK
  <2>2. char.key # "right"
    BY <2>1, KeyboardAssumption DEF Characters
  <2>3. caps \in BOOLEAN
    BY DEF TypeOK
  <2>4. calm => level = char.shifted /\ down \cap Commands = {}
    BY <2>1, <2>3, OwnLevel DEF Prepared
  <2>5. struck' = Stroke(char.key, level)
    BY <1>1 DEF StrikeKey
  <2> HIDE DEF level
  <2>6. /\ struck'.key = char.key /\ struck'.shifted = level /\ struck'.calm = calm
        /\ struck'.plain = (down \cap Commands = {}) /\ struck'.meant = Head(job)
    BY <2>5 DEF Stroke
  <2> QED
    BY <2>2, <2>4, <2>6 DEF TypedAsMeant, ArrowsMove
<1>2. CASE StrikeArrow
  <2>1. step = "arrows" /\ Head(job).do = "arrows"
    BY <1>2 DEF StrikeArrow, TypeOK
  <2> DEFINE level == down \cap {ShiftL, ShiftR} # {}
  <2>2. struck' = Stroke("right", level)
    BY <1>2 DEF StrikeArrow
  <2> HIDE DEF level
  <2>3. struck'.calm = calm /\ struck'.num = num /\ struck'.meant = Head(job)
    BY <2>2 DEF Stroke
  <2> QED
    BY <2>1, <2>3 DEF Prepared, TypedAsMeant, ArrowsMove
<1>3. CASE UNCHANGED struck
  BY <1>3 DEF TypedAsMeant, ArrowsMove
<1>4. StrikeKey \/ StrikeArrow \/ UNCHANGED struck
  BY DEF Next, Texc, User, Begin, AskState, SuspendModifier, SetShift, UnsetShift,
         RestoreModifier, TypeDone, PressTag, ReleaseTag, NumLockOff, NumLockBack,
         UserPresses, UserReleases, UserLocksCaps, UserLocksNum, vars
<1> QED
  BY <1>1, <1>2, <1>3, <1>4

(* A stroke is what Prepared says it is, and nothing else changes the last     *)
(* one.                                                                        *)
LEMMA StruckInvariant == Spec => [](TypedAsMeant /\ ArrowsMove)
<1>1. Init => Prepared /\ TypedAsMeant /\ ArrowsMove
  BY DEF Init, Prepared, TypedAsMeant, ArrowsMove, Nothing
<1> QED
  BY <1>1, TypeCorrect, NextPrepared, NextStruck, PTL DEF Spec

(* A character typed while the user keeps still comes out as it was meant,     *)
(* whatever is held, whatever caps lock says and wherever its key lies.        *)
THEOREM CharactersArrive == Spec => []TypedAsMeant
BY StruckInvariant, PTL

(* The arrows that put the caret at the end of the line never meet num lock.   *)
THEOREM ArrowsArrive == Spec => []ArrowsMove
BY StruckInvariant, PTL
=============================================================================
