------------------------------ MODULE Keyboard ------------------------------
(***************************************************************************)
(* How an expansion reaches the X server key by key.  Each request texc    *)
(* makes is a step: it asks which modifiers are down, lets go of them,     *)
(* strikes the key of a character and presses them again.  The user may    *)
(* press and release modifiers and lock keys between any two requests.     *)
(***************************************************************************)
EXTENDS Integers, Sequences, FiniteSets

CONSTANTS
    ShiftL, ShiftR,   \* the two shift keys
    Commands,         \* the control, alt and super keys
    CharKeys,         \* the keys that have characters
    Order,            \* all of them, in the order __kb_release_modifiers visits them
    Jobs,             \* what keyhook_expand_matched has typed: sequences of items
    MaxJobs,          \* how many jobs there are
    MaxTouches        \* how often the user presses or releases a key of these

Modifiers == {ShiftL, ShiftR} \cup Commands

\* A character is on a key, at its plain or its shifted level; caps lock exchanges
\* the levels of letters.
Char(key, shifted, kind) == [key |-> key, shifted |-> shifted, kind |-> kind]

Characters ==
    {c \in [key : CharKeys, shifted : BOOLEAN, kind : {"letter", "symbol", "digit"}] :
        c.kind = "digit" => ~c.shifted}

Type(char) == [do |-> "type", char |-> char]
Press(m) == [do |-> "press", key |-> m]
Release(m) == [do |-> "release", key |-> m]
Arrows(n) == [do |-> "arrows", count |-> n]

Items ==
    [do : {"type"}, char : Characters] \cup [do : {"press", "release"}, key : Modifiers]
      \cup [do : {"arrows"}, count : Nat]

ASSUME KeyboardAssumption ==
    /\ ShiftL # ShiftR /\ {ShiftL, ShiftR} \cap Commands = {}
    /\ "right" \notin CharKeys /\ Jobs \subseteq Seq(Items)
    /\ Order \in Seq(Modifiers)
    /\ \A m \in Modifiers : \E i \in DOMAIN Order : Order[i] = m
    /\ \A i, j \in DOMAIN Order : Order[i] = Order[j] => i = j
    /\ MaxJobs \in Nat /\ MaxTouches \in Nat

VARIABLES
    held,       \* modifiers the user holds
    down,       \* modifiers that are down for the X server
    caps,       \* the indicator of caps lock
    num,        \* the indicator of num lock
    wanted,     \* num lock as the user set it
    job,        \* what is still to be typed, the item under way first
    step,       \* where texc is in that item
    visited,    \* how many of Order it has gone through in this step
    keys,       \* keys of _keyboard_raw_type: the modifiers it has let go of
    shifted,    \* shifted of _keyboard_raw_type
    should,     \* should_shift of _keyboard_raw_type
    numLock,    \* num_lock of keyhook_expand_matched
    tags,       \* modifiers pressed by a container tag that has not ended
    struck,     \* the last key the application got, with what was down
    calm,       \* whether the user kept still since the item was begun
    loose,      \* modifiers the user and texc may see differently
    jobs,       \* jobs so far
    touches     \* keys the user pressed or released so far

item == <<job, step, visited, keys, shifted, should, numLock>>
locks == <<caps, num, wanted>>
vars == <<held, down, locks, item, tags, struck, calm, loose, jobs, touches>>

Idle == step = "next"

Stroke(key, level) ==
    [key |-> key, shifted |-> level, plain |-> down \cap Commands = {}, num |-> num,
     calm |-> calm, meant |-> Head(job)]

Nothing == [key |-> "none", calm |-> FALSE, meant |-> Arrows(0)]

-----------------------------------------------------------------------------
(* Texc *)

Goto(to) == step' = to /\ UNCHANGED <<job, visited, keys, shifted, should, numLock>>

\* Mutant: what was let go of for one character is pressed again after the next.
DoneKeeping ==
    /\ job' = Tail(job) /\ step' = "next" /\ visited' = 0
    /\ UNCHANGED <<keys, shifted, should, numLock>>

Done ==
    /\ job' = Tail(job) /\ step' = "next" /\ visited' = 0 /\ keys' = {}
    /\ UNCHANGED <<shifted, should, numLock>>

Begin ==
    /\ job = <<>> /\ jobs < MaxJobs
    /\ \E j \in Jobs : job' = j
    /\ jobs' = jobs + 1
    /\ UNCHANGED <<held, down, locks, step, visited, keys, shifted, should, numLock, tags,
                   struck, calm, loose, touches>>

Doing(what) == job # <<>> /\ Head(job).do = what

\* Mutant: capital letters are shifted whatever caps lock is.
ShiftIgnoringCaps(char, capsLock) == char.kind # "digit" /\ char.shifted

\* should_shift, and with it the key that has the character at its plain level
ShouldShift(char, capsLock) ==
    CASE char.kind = "letter" -> char.shifted # capsLock
      [] char.kind = "symbol" -> char.shifted
      [] char.kind = "digit" -> FALSE

\* The two questions are one step: neither answer depends on what the other asks.
AskState ==
    /\ Doing("type") /\ Idle
    /\ shifted' = (ShiftL \in down)
    /\ should' = ShouldShift(Head(job).char, caps)
    /\ step' = "suspend" /\ visited' = 0 /\ keys' = {}
    /\ calm' = TRUE
    /\ UNCHANGED <<held, down, locks, job, numLock, tags, struck, loose, jobs, touches>>

\* Mutant: a modifier that is let go of is not remembered.
Forgotten(m) == keys

Remembered(m) == IF m \in down THEN keys \cup {m} ELSE keys

\* __kb_release_modifier.  The user's press or release between the question and
\* the release comes out as one before or after both.
SuspendModifier ==
    /\ step = "suspend" /\ visited < Len(Order)
    /\ LET m == Order[visited + 1]
       IN keys' = Remembered(m) /\ down' = down \ {m}
    /\ visited' = visited + 1
    /\ UNCHANGED <<held, locks, job, step, shifted, should, numLock, tags, struck, calm,
                   loose, jobs, touches>>

\* Shift is pressed, or let go of once more.
SetShift ==
    /\ step = "suspend" /\ visited = Len(Order)
    /\ down' = CASE should -> down \cup {ShiftL}
                 [] ~should /\ shifted -> down \ {ShiftL}
                 [] OTHER -> down
    /\ Goto("strike")
    /\ UNCHANGED <<held, locks, tags, struck, calm, loose, jobs, touches>>

\* The level the application sees (external: the keyboard map)
Level(char) ==
    LET shift == down \cap {ShiftL, ShiftR} # {}
    IN IF char.kind = "letter" THEN shift # caps ELSE shift

StrikeKey ==
    /\ step = "strike"
    /\ struck' = Stroke(Head(job).char.key, Level(Head(job).char))
    /\ Goto("unshift")
    /\ UNCHANGED <<held, down, locks, tags, calm, loose, jobs, touches>>

UnsetShift ==
    /\ step = "unshift"
    /\ down' = IF should THEN down \ {ShiftL} ELSE down
    /\ step' = "restore" /\ visited' = 0
    /\ UNCHANGED <<held, locks, job, keys, shifted, should, numLock, tags, struck, calm,
                   loose, jobs, touches>>

\* __kb_reapply_modifier
RestoreModifier ==
    /\ step = "restore" /\ visited < Len(Order)
    /\ LET m == Order[visited + 1]
       IN down' = IF m \in keys THEN down \cup {m} ELSE down
    /\ visited' = visited + 1
    /\ UNCHANGED <<held, locks, job, step, keys, shifted, should, numLock, tags, struck,
                   calm, loose, jobs, touches>>

TypeDone ==
    /\ step = "restore" /\ visited = Len(Order)
    /\ Done
    /\ UNCHANGED <<held, down, locks, tags, struck, calm, loose, jobs, touches>>

\* The enter function of a modifier's tag, and its exit function, which lets go
\* of the key for the user as well
PressTag ==
    /\ Doing("press") /\ Idle
    /\ LET m == Head(job).key IN down' = down \cup {m} /\ tags' = tags \cup {m}
    /\ Done
    /\ UNCHANGED <<held, locks, struck, calm, loose, jobs, touches>>

ReleaseTag ==
    /\ Doing("release") /\ Idle
    /\ LET m == Head(job).key
       IN /\ down' = down \ {m}
          /\ tags' = tags \ {m}
          /\ loose' = IF m \in held THEN loose \cup {m} ELSE loose \ {m}
    /\ Done
    /\ UNCHANGED <<held, locks, struck, calm, jobs, touches>>

\* Mutant: num lock is left alone.
NumUntapped(lock) == num

\* Its key is struck when the lock was found on, which switches it over.
NumTapped(lock) == IF lock THEN ~num ELSE num

\* keyhook_expand_matched: num lock is taken off for the arrows.
NumLockOff ==
    /\ Doing("arrows") /\ Idle
    /\ numLock' = num
    /\ num' = NumTapped(num)
    /\ step' = "arrows" /\ visited' = 0
    /\ calm' = TRUE
    /\ UNCHANGED <<held, down, caps, wanted, job, keys, shifted, should, tags, struck, loose,
                   jobs, touches>>

StrikeArrow ==
    /\ step = "arrows" /\ visited < Head(job).count
    /\ struck' = Stroke("right", down \cap {ShiftL, ShiftR} # {})
    /\ visited' = visited + 1
    /\ UNCHANGED <<held, down, locks, job, step, keys, shifted, should, numLock, tags, calm,
                   loose, jobs, touches>>

NumLockBack ==
    /\ step = "arrows" /\ visited = Head(job).count
    /\ num' = NumTapped(numLock)
    /\ Done
    /\ UNCHANGED <<held, down, caps, wanted, tags, struck, calm, loose, jobs, touches>>

Texc ==
    \/ Begin \/ AskState \/ SuspendModifier \/ SetShift \/ StrikeKey \/ UnsetShift
    \/ RestoreModifier \/ TypeDone \/ PressTag \/ ReleaseTag \/ NumLockOff \/ StrikeArrow
    \/ NumLockBack

-----------------------------------------------------------------------------
(* The user *)

Touch == touches < MaxTouches /\ touches' = touches + 1 /\ calm' = FALSE

\* Texc is still going to let go of the left shift key.
ShiftComingUp == ~Idle /\ step \notin {"restore", "arrows"} /\ (should \/ shifted)

UserPresses ==
    \E m \in Modifiers \ held :
        /\ Touch
        /\ held' = held \cup {m} /\ down' = down \cup {m}
        /\ loose' = IF m = ShiftL /\ m \notin keys /\ ShiftComingUp THEN loose \cup {m}
                    ELSE loose \ {m}
        /\ UNCHANGED <<locks, item, tags, struck, jobs>>

\* A key that texc has let go of, or pressed for a tag, is one the user lets go
\* of behind its back.
UserReleases ==
    \E m \in held :
        /\ Touch
        /\ held' = held \ {m} /\ down' = down \ {m}
        /\ loose' = IF m \in keys \cup tags THEN loose \cup {m} ELSE loose \ {m}
        /\ UNCHANGED <<locks, item, tags, struck, jobs>>

UserLocksCaps ==
    /\ Touch /\ caps' = ~caps
    /\ UNCHANGED <<held, down, num, wanted, item, tags, struck, loose, jobs>>

UserLocksNum ==
    /\ Touch /\ num' = ~num /\ wanted' = ~wanted
    /\ UNCHANGED <<held, down, caps, item, tags, struck, loose, jobs>>

User == UserPresses \/ UserReleases \/ UserLocksCaps \/ UserLocksNum

-----------------------------------------------------------------------------
Init ==
    /\ held \in SUBSET Modifiers /\ down = held
    /\ caps \in BOOLEAN /\ num \in BOOLEAN /\ wanted = num
    /\ job = <<>> /\ step = "next" /\ visited = 0 /\ keys = {}
    /\ shifted = FALSE /\ should = FALSE /\ numLock = FALSE
    /\ tags = {} /\ struck = Nothing /\ calm = FALSE /\ loose = {}
    /\ jobs = 0 /\ touches = 0

Next == Texc \/ User

Spec == Init /\ [][Next]_vars

-----------------------------------------------------------------------------
(* What must hold *)

\* Type invariant: modifiers are modifiers, and what is remembered of an item
\* is remembered only while it is typed.
TypeOK ==
    /\ held \subseteq Modifiers /\ down \subseteq Modifiers /\ keys \subseteq Modifiers
    /\ tags \subseteq Modifiers /\ loose \subseteq Modifiers
    /\ {caps, num, wanted, shifted, should, numLock, calm} \subseteq BOOLEAN
    /\ step \in {"next", "suspend", "strike", "unshift", "restore", "arrows"}
    /\ visited \in Nat /\ (step \in {"suspend", "restore"} => visited <= Len(Order))
    /\ job \in Seq(Items) /\ (~Idle => job # <<>>)
    /\ (step = "arrows" => Head(job).do = "arrows")
    /\ (step \in {"suspend", "strike", "unshift", "restore"} => Head(job).do = "type")
    /\ (step \in {"next", "arrows"} => keys = {})
    /\ jobs \in 0 .. MaxJobs /\ touches \in 0 .. MaxTouches

\* _keyboard_raw_type gives the application the character it was called with,
\* whatever modifiers are held and whether caps lock is on, and it comes as a
\* character and not as a shortcut, unless the user touches one of these keys
\* between the first question and the stroke.
TypedAsMeant ==
    (struck.calm /\ struck.meant.do = "type") =>
        /\ struck.plain
        /\ struck.key = struck.meant.char.key
        /\ struck.shifted = struck.meant.char.shifted

\* Between two items every modifier is down exactly when the user holds it or a
\* tag does, and num lock is as the user set it, however the user's keys fell
\* between texc's requests.  The exceptions are the three ways a key is lost: it
\* was let go of while texc had suspended it, pressed while texc was about to let
\* go of shift, or held by a tag as well.
ModifiersComeBack ==
    Idle => /\ \A m \in Modifiers \ loose : m \in down <=> (m \in held \/ m \in tags)
            /\ num = wanted

\* The arrows keyhook_expand_matched strikes reach the application with num lock
\* off, where they are arrows, unless the user touches a key in between.
ArrowsMove == (struck.calm /\ struck.key = "right") => ~struck.num
============================================================================
