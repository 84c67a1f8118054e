--------------------------- MODULE DataDirProofs ---------------------------
(***************************************************************************)
(* Proofs about DataDir, for any versions, any valid and default values of *)
(* the settings, any texts, and any number of edits, requests, runs and    *)
(* kills: the settings in force are the user's, and the damage a comma or  *)
(* a quote does to a save file stays in its line.                          *)
(***************************************************************************)
EXTENDS DataDir, SequenceTheorems, FiniteSetTheorems, WellFoundedInduction, TLAPS


\* The values are those that are wanted, but for WARN.
Agrees(values, wanted) ==
    \A s \in Settings : values[s] = wanted[s] \/ (s = "log_level" /\ wanted[s] = "WARN")

Half == IniFile(Missing, Nothing)

ReadFrom == {"loading", "inserting", "crashed", "loaded", "changed"}

ValidValues == UNION {Valid[s] : s \in Settings}

\* What texc or the user may have written
Files == [version : Versions \cup {Missing},
          value : [Settings -> ValidValues \cup {Invalid, Missing, "WARNING"}]]

IniShape ==
    /\ version \in Versions
    /\ ini = NoFile \/ \E file \in Files : ini = {file}
    /\ settings \in [Settings -> ValidValues] /\ \A s \in Settings : settings[s] \in Valid[s]
    /\ chosen \in [Settings -> ValidValues]
    /\ at \in {"off", "creating", "rewriting"} \cup ReadFrom

(* The file stands for what the user wants, unless it is being written; then   *)
(* the process that writes it does.                                            *)
FileAgrees ==
    /\ at \in {"off"} \cup ReadFrom =>
         (ini = NoFile => chosen = Default) /\ \A file \in ini : Agrees(Read(file), chosen)
    /\ at \in {"creating", "rewriting"} => ini = Half
    /\ at = "creating" => chosen = Default

ProcessAgrees == at \in {"creating", "rewriting"} \cup ReadFrom => Agrees(settings, chosen)

SettingsInv == IniShape /\ FileAgrees /\ ProcessAgrees

-----------------------------------------------------------------------------
(* The defaults are valid, and are what a file without values is read as.      *)
LEMMA DefaultIsValid ==
    /\ Default \in [Settings -> ValidValues] /\ \A s \in Settings : Default[s] \in Valid[s]
    /\ Half \subseteq Files /\ \A file \in Half : Read(file) = Default
<1>1. /\ Default \in [Settings -> ValidValues] /\ \A s \in Settings : Default[s] \in Valid[s]
      /\ \A s \in Settings : Missing \notin Valid[s]
  BY DataDirAssumption DEF ValidValues
<1>2. Half = {[version |-> Missing, value |-> Nothing]} /\ Nothing = [s \in Settings |-> Missing]
  BY DEF Half, IniFile, Nothing
<1>3. Half \subseteq Files
  BY <1>2 DEF Files
<1>4. ASSUME NEW file \in Half PROVE Read(file) = Default
  <2>1. \A s \in Settings : file.value[s] \notin Valid[s]
    BY <1>1, <1>2
  <2>2. Read(file) = [s \in Settings |-> Default[s]]
    BY <2>1 DEF Read
  <2> QED
    BY <1>1, <2>2
<1> QED
  BY <1>1, <1>3, <1>4

(* What is read from any file is valid.                                        *)
LEMMA ReadIsValid ==
    ASSUME NEW file
    PROVE  /\ Read(file) \in [Settings -> ValidValues]
           /\ \A s \in Settings : Read(file)[s] \in Valid[s]
BY DefaultIsValid DEF Read, ValidValues

(* What settings_save writes is read as what it was, but for WARN.             *)
LEMMA WrittenIsRead ==
    ASSUME IniShape, Agrees(settings, chosen), NEW file \in IniFile(version, WrittenAs(settings))
    PROVE  file \in Files /\ Agrees(Read(file), chosen)
<1>1. /\ file = [version |-> version, value |-> WrittenAs(settings)]
      /\ settings \in [Settings -> ValidValues] /\ \A s \in Settings : settings[s] \in Valid[s]
      /\ version \in Versions
  BY DEF IniFile, IniShape
<1>2. /\ WrittenAs(settings) \in [Settings -> ValidValues \cup {"WARNING"}]
      /\ \A s \in Settings : settings[s] # "WARN" \/ s # "log_level" =>
           WrittenAs(settings)[s] = settings[s]
  BY <1>1 DEF WrittenAs
<1>3. file \in Files
  BY <1>1, <1>2 DEF Files
<1>4. ASSUME NEW s \in Settings
      PROVE  Read(file)[s] = chosen[s] \/ (s = "log_level" /\ chosen[s] = "WARN")
  <2>1. settings[s] = chosen[s] \/ (s = "log_level" /\ chosen[s] = "WARN")
    BY DEF Agrees
  <2>2. CASE settings[s] # "WARN" \/ s # "log_level"
    <3>1. Read(file)[s] = settings[s]
      BY <1>1, <1>2, <2>2 DEF Read
    <3> QED
      BY <2>1, <3>1
  <2>3. CASE settings[s] = "WARN" /\ s = "log_level"
    BY <2>1, <2>3
  <2> QED
    BY <2>2, <2>3
<1> QED
  BY <1>3, <1>4 DEF Agrees

-----------------------------------------------------------------------------
(* A process that goes on leaves what it has read and what the file holds.     *)
LEMMA GoesOn ==
    ASSUME SettingsInv, UNCHANGED settingsSide, at \in ReadFrom, at' \in ReadFrom \cup {"off"}
    PROVE  SettingsInv'
BY DEF SettingsInv, IniShape, FileAgrees, ProcessAgrees, Agrees, settingsSide, ReadFrom, Read

(* Every step keeps the invariant: an edit changes file and wish alike, and a  *)
(* file that is open is either made from the settings in force or given up.    *)
LEMMA SettingsStep == SettingsInv /\ [Next]_vars => SettingsInv'
<1> SUFFICES ASSUME SettingsInv, [Next]_vars PROVE SettingsInv'
  OBVIOUS
<1>0. IniShape /\ FileAgrees /\ ProcessAgrees
  BY DEF SettingsInv
<1> USE DEF ReadFrom, Goes
<1>1. ASSUME NEW v \in Versions, Install(v) PROVE SettingsInv'
  BY <1>0, <1>1 DEF Install, SettingsInv, IniShape, FileAgrees, ProcessAgrees, Read
<1>2. ASSUME NEW s \in Settings, NEW value \in Valid[s] \cup {Invalid, Missing}, Edit(s, value)
      PROVE  SettingsInv'
  <2>1. PICK file \in ini : ini' = {[file EXCEPT !.value[s] = value]}
    BY <1>2 DEF Edit
  <2> DEFINE new == [file EXCEPT !.value[s] = value]
             wanted == IF value \in Valid[s] THEN value ELSE Default[s]
  <2>2. /\ at = "off" /\ at' = at /\ UNCHANGED <<version, settings>>
        /\ chosen' = [chosen EXCEPT ![s] = wanted]
    BY <1>2 DEF Edit
  <2>3. /\ file \in Files /\ new \in Files
        /\ \A t \in Settings : new.value[t] = IF t = s THEN value ELSE file.value[t]
    <3>1. file \in Files /\ s \in Settings
      BY <1>0, <1>2, <2>1 DEF IniShape, NoFile
    <3>2. value \in ValidValues \cup {Invalid, Missing, "WARNING"}
      BY <1>2 DEF ValidValues
    <3>3. /\ file = [version |-> file.version, value |-> file.value]
          /\ file.version \in Versions \cup {Missing}
          /\ file.value \in [Settings -> ValidValues \cup {Invalid, Missing, "WARNING"}]
      BY <3>1 DEF Files
    <3>4. new = [version |-> file.version, value |-> [file.value EXCEPT ![s] = value]]
      BY <3>3
    <3>5. [file.value EXCEPT ![s] = value]
            \in [Settings -> ValidValues \cup {Invalid, Missing, "WARNING"}]
      BY <3>2, <3>3
    <3>6. new \in Files
      BY <3>3, <3>4, <3>5 DEF Files
    <3> QED
      BY <3>1, <3>3, <3>4, <3>6
  <2>4. wanted \in ValidValues
    BY <1>2, DefaultIsValid DEF ValidValues
  <2>5. /\ chosen' \in [Settings -> ValidValues]
        /\ \A t \in Settings : chosen'[t] = IF t = s THEN wanted ELSE chosen[t]
    BY <1>0, <2>2, <2>4 DEF IniShape
  <2>6. \A t \in Settings : Read(new)[t] = IF t = s THEN wanted ELSE Read(file)[t]
    <3> HIDE DEF new
    <3> QED
      BY <2>3 DEF Read
  <2>7. Agrees(Read(file), chosen)
    BY <1>0, <2>1, <2>2 DEF FileAgrees
  <2> HIDE DEF new, wanted
  <2>8. Agrees(Read(new), chosen')
    BY <2>5, <2>6, <2>7 DEF Agrees
  <2>9. ini' = {new}
    BY <2>1 DEF new
  <2>10. IniShape'
    BY <1>0, <2>2, <2>3, <2>5, <2>9 DEF IniShape
  <2>11. FileAgrees' /\ ProcessAgrees'
    BY <2>2, <2>8, <2>9 DEF FileAgrees, ProcessAgrees, NoFile
  <2> QED
    BY <2>10, <2>11 DEF SettingsInv
<1>3. CASE CreateSettings
  <2>1. /\ at' = "creating" /\ settings' = Default /\ ini' = Half /\ chosen' = chosen
        /\ version' = version /\ chosen = Default
    BY <1>0, <1>3 DEF CreateSettings, FileAgrees, Half
  <2>2. \E file \in Files : Half = {file}
    BY DefaultIsValid DEF Half, IniFile
  <2> QED
    BY <1>0, <2>1, <2>2, DefaultIsValid
       DEF SettingsInv, IniShape, FileAgrees, ProcessAgrees, Agrees
<1>4. CASE LoadSettings
  <2>1. PICK file \in ini : /\ settings' = Read(file)
                            /\ \/ at' = "loading" /\ ini' = ini
                               \/ at' = "rewriting" /\ ini' = Half
    BY <1>4 DEF LoadSettings, Half
  <2>2. at = "off" /\ UNCHANGED <<version, chosen>>
    BY <1>4 DEF LoadSettings
  <2>3. Agrees(Read(file), chosen)
    BY <1>0, <2>1, <2>2 DEF FileAgrees
  <2>4. \E f \in Files : Half = {f}
    BY DefaultIsValid DEF Half, IniFile
  <2>5. IniShape'
    BY <1>0, <2>1, <2>2, <2>4, ReadIsValid DEF IniShape
  <2>6. ProcessAgrees'
    BY <2>1, <2>2, <2>3 DEF ProcessAgrees
  <2>7. FileAgrees'
    BY <1>0, <2>1, <2>2 DEF FileAgrees, Read
  <2> QED
    BY <2>5, <2>6, <2>7 DEF SettingsInv
<1>5. CASE SaveSettings
  <2>1. /\ at \in {"creating", "rewriting"} /\ at' = "loading"
        /\ ini' = IniFile(version, WrittenAs(settings)) /\ UNCHANGED <<version, settings, chosen>>
    BY <1>5 DEF SaveSettings
  <2>2. Agrees(settings, chosen)
    BY <1>0, <2>1 DEF ProcessAgrees
  <2>3. PICK file : ini' = {file} /\ file \in Files /\ Agrees(Read(file), chosen)
    BY <1>0, <2>1, <2>2, WrittenIsRead DEF IniFile
  <2>4. IniShape'
    BY <1>0, <2>1, <2>3 DEF IniShape
  <2>5. FileAgrees' /\ ProcessAgrees'
    BY <2>1, <2>2, <2>3 DEF FileAgrees, ProcessAgrees, NoFile
  <2> QED
    BY <2>4, <2>5 DEF SettingsInv
<1>6. CASE OpenLines \/ LoadLine \/ Loaded \/ Exit
  BY <1>0, <1>6, GoesOn DEF OpenLines, LoadLine, Loaded, Exit, Running
<1>7. ASSUME NEW list, Changed(list) PROVE SettingsInv'
  BY <1>7, GoesOn DEF Changed, Running
<1>8. CASE Kill
  <2>1. /\ at # "off" /\ at' = "off" /\ UNCHANGED <<version, ini, settings>>
        /\ chosen' = IF at = "rewriting" THEN Default ELSE chosen
    BY <1>8 DEF Kill
  <2>2. CASE at \in {"creating", "rewriting"}
    <3>1. ini = Half /\ chosen' = Default
      BY <1>0, <2>1, <2>2 DEF FileAgrees
    <3>2. \A file \in ini : Read(file) = Default
      BY <3>1, DefaultIsValid
    <3>3. IniShape'
      BY <1>0, <2>1, <3>1, DefaultIsValid DEF IniShape
    <3>4. FileAgrees' /\ ProcessAgrees'
      BY <2>1, <3>1, <3>2 DEF FileAgrees, ProcessAgrees, Agrees, Read
    <3> QED
      BY <3>3, <3>4 DEF SettingsInv
  <2>3. CASE at \in ReadFrom
    <3>1. UNCHANGED settingsSide
      BY <2>1, <2>3 DEF settingsSide
    <3> QED
      BY <2>1, <2>3, <3>1, GoesOn
  <2> QED
    BY <1>0, <2>1, <2>2, <2>3 DEF IniShape
<1>9. CASE UNCHANGED vars
  BY <1>0, <1>9 DEF vars, SettingsInv, IniShape, FileAgrees, ProcessAgrees, Read
<1> QED
  BY <1>1, <1>2, <1>3, <1>4, <1>5, <1>6, <1>7, <1>8, <1>9 DEF Next, Add, RemoveRow, Disable

(* The settings in force are those the user has written last, or the defaults, *)
(* through any edits, changes of version and kills, but for WARN               *)
(* (settings_load, settings_save).                                             *)
THEOREM SettingsStay == Spec => []SettingsKept
<1>1. Init => SettingsInv
  BY DefaultIsValid DEF Init, SettingsInv, IniShape, FileAgrees, ProcessAgrees, NoFile, ReadFrom
<1>2. SettingsInv => SettingsKept
  BY DEF SettingsInv, ProcessAgrees, SettingsKept, Running, Agrees, ReadFrom
<1> QED
  BY <1>1, <1>2, SettingsStep, PTL DEF Spec

-----------------------------------------------------------------------------
(* A line is read                                                              *)

(* A set of naturals that is not empty has a least element.                    *)
LEMMA LeastOfNat ==
    ASSUME NEW S \in SUBSET Nat, S # {}
    PROVE  Least(S) \in S /\ \A k \in S : Least(S) <= k
<1> DEFINE R == {ss \in Nat \X Nat : ss[1] < ss[2]}
<1>0. IsWellFoundedOn(R, Nat)
  BY NatLessThanWellFounded, Zenon DEF OpToRel
<1>1. PICK x \in S : \A y \in S : ~(<<y, x>> \in R)
  <2> HIDE DEF R
  <2> QED BY <1>0, WFMin
<1>2. \A y \in S : x <= y
  <2>1. ASSUME NEW y \in S, y < x PROVE FALSE
    <3> DEFINE ss == <<y, x>>
    <3>1. ss \in Nat \X Nat /\ ss[1] < ss[2]
      BY <2>1
    <3>2. ss \in R
      BY ONLY <3>1, Zenon DEF R
    <3> QED
      BY <3>2, <1>1
  <2> QED
    BY <2>1
<1> QED
  BY <1>2 DEF Least

(* What is true of 0 and, when of a number, of the next one, is true of all up *)
(* to N.                                                                       *)
LEMMA UpTo ==
    ASSUME NEW N \in Nat, NEW S, 0 \in S, \A i \in 0 .. N - 1 : i \in S => i + 1 \in S
    PROVE  \A i \in 0 .. N : i \in S
<1> DEFINE rest == {i \in 0 .. N : i \notin S}
<1> SUFFICES ASSUME rest # {} PROVE FALSE
  OBVIOUS
<1>1. rest \in SUBSET Nat
  OBVIOUS
<1> DEFINE k == Least(rest)
<1>2. k \in rest /\ \A l \in rest : k <= l
  BY <1>1, LeastOfNat
<1> HIDE DEF k
<1>3. k - 1 \in 0 .. N - 1 /\ k - 1 \notin rest
  BY <1>2
<1> QED
  BY <1>2, <1>3

\* The lexemes of texts and lines
Chars == STRING \cup Numbers \cup {Comma, "-"}

\* The states of the loop
States == [fields : Seq(Seq(Chars)), field : Seq(Chars), begun : BOOLEAN, quoted : BOOLEAN,
           doubled : BOOLEAN]

(* A character leads to another state of the loop.                             *)
LEMMA CharLeads ==
    ASSUME NEW s \in States, NEW c \in Chars, NEW next
    PROVE  CharRead(s, c, next) \in States
<1>1. /\ s.fields \in Seq(Seq(Chars)) /\ s.field \in Seq(Chars)
      /\ Append(s.fields, s.field) \in Seq(Seq(Chars)) /\ <<>> \in Seq(Chars)
      /\ Append(s.field, c) \in Seq(Chars)
  BY DEF States
<1> HIDE DEF States
<1>2. [s EXCEPT !.doubled = TRUE, !.begun = TRUE] \in States
  BY DEF States
<1>3. [s EXCEPT !.quoted = ~@, !.begun = TRUE] \in States
  BY DEF States
<1>4. [s EXCEPT !.fields = Append(@, s.field), !.field = <<>>, !.begun = FALSE] \in States
  BY <1>1 DEF States
<1>5. [s EXCEPT !.field = Append(@, c), !.begun = TRUE, !.doubled = FALSE] \in States
  BY <1>1 DEF States
<1> QED
  BY <1>2, <1>3, <1>4, <1>5, Zenon DEF CharRead

Behind(line, i) == IF i < Len(line) THEN line[i + 1] ELSE ""

\* The states of the loop after each character
Reads(state, line) ==
    /\ state \in [0 .. Len(line) -> States] /\ state[0] = Before
    /\ \A i \in 1 .. Len(line) : state[i] = CharRead(state[i - 1], line[i], Behind(line, i))

FieldsAt(s) == IF s.begun THEN Append(s.fields, s.field) ELSE s.fields

(* The loop goes through the line.                                             *)
LEMMA LoopGoes == ASSUME NEW line \in Seq(Chars) PROVE \E state : Reads(state, line)
<1> DEFINE N == Len(line)
           Reaches(n, f) ==
               /\ f \in [0 .. n -> States] /\ f[0] = Before
               /\ \A i \in 1 .. n : f[i] = CharRead(f[i - 1], line[i], Behind(line, i))
           S == {n \in 0 .. N : \E f : Reaches(n, f)}
<1>0. N \in Nat /\ \A i \in 1 .. N : line[i] \in Chars
  OBVIOUS
<1>1. 0 \in S
  <2>1. Before \in States
    BY DEF Before, States
  <2>2. Reaches(0, [i \in 0 .. 0 |-> Before])
    BY <2>1
  <2> HIDE DEF Reaches
  <2> QED
    BY <1>0, <2>2
<1>2. ASSUME NEW n \in 0 .. N - 1, n \in S PROVE n + 1 \in S
  <2>1. PICK f : Reaches(n, f)
    BY <1>2
  <2> DEFINE next == CharRead(f[n], line[n + 1], Behind(line, n + 1))
             g == [i \in 0 .. n + 1 |-> IF i = n + 1 THEN next ELSE f[i]]
  <2>2. n + 1 \in 1 .. N /\ f[n] \in States
    BY <1>0, <2>1
  <2>3. next \in States
    BY <1>0, <2>2, CharLeads
  <2> HIDE DEF next
  <2>4. g \in [0 .. n + 1 -> States] /\ g[0] = Before
    BY <2>1, <2>3
  <2>5. ASSUME NEW i \in 1 .. n + 1
        PROVE  g[i] = CharRead(g[i - 1], line[i], Behind(line, i))
    <3>1. CASE i = n + 1
      <4>1. i - 1 = n /\ g[i - 1] = f[n] /\ g[i] = next
        BY <3>1
      <4> QED
        BY <3>1, <4>1 DEF next
    <3>2. CASE i # n + 1
      <4>1. i \in 1 .. n /\ i - 1 \in 0 .. n /\ g[i] = f[i] /\ g[i - 1] = f[i - 1]
        BY <3>2
      <4> QED
        BY <2>1, <4>1
    <3> QED
      BY <3>1, <3>2
  <2>6. Reaches(n + 1, g)
    BY <2>4, <2>5
  <2> HIDE DEF Reaches, g
  <2> QED
    BY <2>2, <2>6
<1>3. N \in S
  <2> HIDE DEF N, S
  <2>1. \A n \in 0 .. N - 1 : n \in S => n + 1 \in S
    BY <1>2
  <2>2. \A n \in 0 .. N : n \in S
    BY <1>0, <1>1, <2>1, UpTo
  <2> QED
    BY <1>0, <2>2
<1> QED
  BY <1>3 DEF Reads

(* The fields are what the loop has put together in the end.                   *)
LEMMA FieldsAreRead ==
    ASSUME NEW line \in Seq(Chars)
    PROVE  \E state : Reads(state, line) /\ FieldsOf(line) = FieldsAt(state[Len(line)])
<1> DEFINE N == Len(line)
           Rule(f) == f = [i \in 0 .. N |->
                             IF i = 0 THEN Before
                             ELSE CharRead(f[i - 1], line[i],
                                           IF i < N THEN line[i + 1] ELSE "")]
           read == CHOOSE f : Rule(f)
<1>1. PICK state : Reads(state, line)
  BY LoopGoes
<1>2. N \in Nat
  OBVIOUS
<1>3. Rule(state)
  <2>1. \A i \in 0 .. N : state[i] = IF i = 0 THEN Before
                                     ELSE CharRead(state[i - 1], line[i], Behind(line, i))
    BY <1>1 DEF Reads
  <2>2. state = [i \in 0 .. N |-> state[i]]
    BY <1>1 DEF Reads
  <2> QED
    BY <2>1, <2>2 DEF Behind
<1>4. Rule(read)
  BY <1>3
<1>5. FieldsOf(line) = FieldsAt(read[N])
  BY DEF FieldsOf, FieldsAt
<1> HIDE DEF read
<1>6. /\ read[0] = Before
      /\ \A i \in 1 .. N : read[i] = CharRead(read[i - 1], line[i], Behind(line, i))
  <2>1. \A i \in 0 .. N : read[i] = IF i = 0 THEN Before
                                    ELSE CharRead(read[i - 1], line[i],
                                                  IF i < N THEN line[i + 1] ELSE "")
    BY <1>4, Zenon
  <2>2. 0 \in 0 .. N /\ \A i \in 1 .. N : i \in 0 .. N /\ i # 0
    BY <1>2
  <2>3. read[0] = Before
    BY <2>1, <2>2
  <2>4. ASSUME NEW i \in 1 .. N PROVE read[i] = CharRead(read[i - 1], line[i], Behind(line, i))
    BY <2>1, <2>2, Zenon DEF Behind
  <2> QED
    BY <2>3, <2>4
<1> DEFINE S == {n \in 0 .. N : read[n] = state[n]}
<1>7. 0 \in S
  BY <1>1, <1>2, <1>6 DEF Reads
<1>8. ASSUME NEW n \in 0 .. N - 1, n \in S PROVE n + 1 \in S
  <2>1. n + 1 \in 1 .. N /\ (n + 1) - 1 = n
    BY <1>2
  <2>2. read[n + 1] = CharRead(read[n], line[n + 1], Behind(line, n + 1))
    BY <1>6, <2>1
  <2>3. state[n + 1] = CharRead(state[n], line[n + 1], Behind(line, n + 1))
    BY <1>1, <2>1 DEF Reads
  <2> QED
    BY <1>8, <2>1, <2>2, <2>3
<1>9. N \in S
  <2> HIDE DEF N, S
  <2>1. \A n \in 0 .. N - 1 : n \in S => n + 1 \in S
    BY <1>8
  <2>2. \A n \in 0 .. N : n \in S
    BY <1>2, <1>7, <2>1, UpTo
  <2> QED
    BY <1>2, <2>2
<1> QED
  BY <1>1, <1>5, <1>9

-----------------------------------------------------------------------------
(* A line without quotes                                                       *)

QuoteFree(line) == \A i \in DOMAIN line : line[i] # Quote

\* What a character does to the fields when nothing is quoted
Moves(s, t, c) ==
    /\ c = Comma => t.fields = Append(s.fields, s.field) /\ t.field = <<>>
    /\ c # Comma => t.fields = s.fields /\ t.field = Append(s.field, c) /\ t.begun = TRUE

Unquoted(s) == s.quoted = FALSE /\ s.doubled = FALSE

LEMMA PlainChar ==
    ASSUME NEW s \in States, Unquoted(s), NEW c \in Chars, c # Quote, NEW next
    PROVE  Unquoted(CharRead(s, c, next)) /\ Moves(s, CharRead(s, c, next), c)
<1> DEFINE parted == [s EXCEPT !.fields = Append(@, s.field), !.field = <<>>, !.begun = FALSE]
           longer == [s EXCEPT !.field = Append(@, c), !.begun = TRUE, !.doubled = FALSE]
<1>1. CharRead(s, c, next) = IF c = Comma THEN parted ELSE longer
  <2>1. Separates(s, c) <=> c = Comma
    BY DEF Separates, Unquoted
  <2> HIDE DEF parted, longer
  <2>2. CharRead(s, c, next) = CASE Separates(s, c) -> parted [] OTHER -> longer
    BY DEF CharRead, parted, longer
  <2> QED
    BY <2>1, <2>2
<1>2. /\ parted.fields = Append(s.fields, s.field) /\ parted.field = <<>>
      /\ parted.quoted = s.quoted /\ parted.doubled = s.doubled
  BY DEF States
<1>3. /\ longer.fields = s.fields /\ longer.field = Append(s.field, c) /\ longer.begun = TRUE
      /\ longer.quoted = s.quoted /\ longer.doubled = FALSE
  BY DEF States
<1> HIDE DEF parted, longer
<1> QED
  BY <1>1, <1>2, <1>3 DEF Unquoted, Moves

\* The loop over a line without quotes
Plainly(state, line) ==
    /\ state \in [0 .. Len(line) -> States] /\ state[0] = Before
    /\ \A i \in 1 .. Len(line) : Moves(state[i - 1], state[i], line[i])

LEMMA ReadsPlainly ==
    ASSUME NEW line \in Seq(Chars), QuoteFree(line), NEW state, Reads(state, line)
    PROVE  Plainly(state, line)
<1> DEFINE N == Len(line)
           S == {n \in 0 .. N : Unquoted(state[n])}
<1>1. N \in Nat /\ \A i \in 1 .. N : line[i] \in Chars /\ line[i] # Quote
  BY DEF QuoteFree
<1>2. ASSUME NEW i \in 1 .. N, Unquoted(state[i - 1])
      PROVE  Unquoted(state[i]) /\ Moves(state[i - 1], state[i], line[i])
  <2>1. state[i] = CharRead(state[i - 1], line[i], Behind(line, i)) /\ state[i - 1] \in States
    BY <1>1 DEF Reads
  <2> QED
    BY <1>1, <1>2, <2>1, PlainChar
<1>3. 0 \in S
  BY <1>1 DEF Reads, Before, Unquoted
<1>4. \A n \in 0 .. N - 1 : n \in S => n + 1 \in S
  <2> SUFFICES ASSUME NEW n \in 0 .. N - 1, n \in S PROVE n + 1 \in S
    OBVIOUS
  <2>1. n + 1 \in 1 .. N /\ (n + 1) - 1 = n
    BY <1>1
  <2> QED
    BY <1>2, <2>1
<1>5. \A n \in 0 .. N : n \in S
  <2> HIDE DEF N, S
  <2> QED
    BY <1>1, <1>3, <1>4, UpTo
<1>6. ASSUME NEW i \in 1 .. N PROVE Moves(state[i - 1], state[i], line[i])
  <2>1. i - 1 \in 0 .. N
    BY <1>1
  <2> QED
    BY <1>2, <1>5, <2>1
<1> QED
  BY <1>6 DEF Reads, Plainly

\* A part of a line, behind the a-th character, that no comma parts
Stands(part, a, line) ==
    /\ a \in 0 .. Len(line) /\ part \in Seq(Chars) /\ a + Len(part) <= Len(line)
    /\ \A i \in 1 .. Len(part) : line[a + i] = part[i] /\ part[i] # Comma

\* From one state to another the part has become the field.
Gathers(part, s, t) == t.fields = s.fields /\ t.field = part /\ (part # <<>> => t.begun = TRUE)

\* From one state to another the field has ended.
Parts(s, t) == t.fields = Append(s.fields, s.field) /\ t.field = <<>>

(* What stands between commas goes to the field.                               *)
LEMMA RunIsRead ==
    ASSUME NEW line \in Seq(Chars), NEW state, Plainly(state, line),
           NEW a, NEW part, Stands(part, a, line), state[a].field = <<>>
    PROVE  Gathers(part, state[a], state[a + Len(part)])
<1> DEFINE N == Len(part)
           Good(n) == /\ state[a + n].fields = state[a].fields
                      /\ state[a + n].field = SubSeq(part, 1, n)
                      /\ n > 0 => state[a + n].begun = TRUE
           S == {n \in 0 .. N : Good(n)}
<1>0. /\ a \in 0 .. Len(line) /\ part \in Seq(Chars) /\ a + Len(part) <= Len(line)
      /\ \A i \in 1 .. Len(part) : line[a + i] = part[i] /\ part[i] # Comma
  BY DEF Stands
<1>1. N \in Nat /\ Len(line) \in Nat /\ SubSeq(part, 1, N) = part
  BY <1>0
<1>2. 0 \in S
  <2>1. SubSeq(part, 1, 0) = <<>> /\ a + 0 = a
    BY <1>0
  <2>2. state[a + 0].fields = state[a].fields /\ state[a + 0].field = SubSeq(part, 1, 0)
    BY <2>1
  <2>3. Good(0)
    BY <2>2
  <2> HIDE DEF Good
  <2> QED
    BY <1>1, <2>3
<1>3. \A n \in 0 .. N - 1 : n \in S => n + 1 \in S
  <2> SUFFICES ASSUME NEW n \in 0 .. N - 1, Good(n) PROVE n + 1 \in 1 .. N /\ Good(n + 1)
    <3> HIDE DEF Good
    <3> QED
      BY <1>1
  <2>1. n + 1 \in 1 .. N /\ a + (n + 1) \in 1 .. Len(line) /\ (a + (n + 1)) - 1 = a + n
    BY <1>0, <1>1
  <2>2. Moves(state[a + n], state[a + (n + 1)], line[a + (n + 1)])
    BY <2>1 DEF Plainly
  <2>3. line[a + (n + 1)] = part[n + 1] /\ part[n + 1] # Comma
    BY <1>0, <2>1
  <2>4. Append(SubSeq(part, 1, n), part[n + 1]) = SubSeq(part, 1, n + 1)
    BY <1>0, <1>1, <2>1
  <2>5. /\ state[a + (n + 1)].fields = state[a + n].fields
        /\ state[a + (n + 1)].field = Append(state[a + n].field, part[n + 1])
        /\ state[a + (n + 1)].begun = TRUE
    BY <2>2, <2>3 DEF Moves
  <2>6. /\ state[a + n].fields = state[a].fields /\ state[a + n].field = SubSeq(part, 1, n)
    OBVIOUS
  <2>7. /\ state[a + (n + 1)].fields = state[a].fields
        /\ state[a + (n + 1)].field = SubSeq(part, 1, n + 1)
    BY <2>4, <2>5, <2>6
  <2> QED
    BY <2>1, <2>5, <2>7
<1>4. \A n \in 0 .. N : n \in S
  <2> HIDE DEF N, S
  <2> QED
    BY <1>1, <1>2, <1>3, UpTo
<1>5. N \in S
  <2> HIDE DEF N, S
  <2> QED
    BY <1>1, <1>4
<1>6. part # <<>> => N > 0
  BY <1>0
<1> QED
  BY <1>1, <1>5, <1>6 DEF Gathers

\* A comma ends a field and begins the next.
LEMMA CommaIsRead ==
    ASSUME NEW line \in Seq(Chars), NEW state, Plainly(state, line),
           NEW i \in 1 .. Len(line), line[i] = Comma
    PROVE  Parts(state[i - 1], state[i])
BY DEF Plainly, Moves, Parts

-----------------------------------------------------------------------------
(* What is written is read                                                     *)

\* The numbers that can be written
Ids == {n \in Int : \E w \in Numbers : n = NumberOf[w] \/ n = -NumberOf[w]}

Rows == [match : Seq(Chars), expand : Seq(Chars), id : Ids, enabled : BOOLEAN]

LEMMA Signs ==
    /\ Comma # Quote /\ "-" # Comma /\ "-" # Quote
    /\ Comma \in Chars /\ "-" \in Chars /\ Numbers \subseteq Chars
<1>1. Comma # Quote
  BY Zenon DEF Comma, Quote
<1>2. "-" # Comma /\ "-" # Quote
  <2>1. "-" # Comma
    BY Zenon DEF Comma
  <2>2. "-" # Quote
    BY Zenon DEF Quote
  <2> QED
    BY <2>1, <2>2
<1>3. Comma \in Chars /\ "-" \in Chars /\ Numbers \subseteq Chars
  BY DEF Chars
<1> QED
  BY <1>1, <1>2, <1>3

(* A number is written as it is read.                                          *)
LEMMA DigitsAre ==
    ASSUME NEW n \in Ids
    PROVE  /\ Digits(n) \in Seq(Chars) /\ Len(Digits(n)) > 0 /\ Atoi(Digits(n)) = n
           /\ \A i \in 1 .. Len(Digits(n)) : Digits(n)[i] # Comma /\ Digits(n)[i] # Quote
<1>1. /\ "-" \notin Numbers /\ Comma \notin Numbers /\ Quote \notin Numbers
      /\ NumberOf \in [Numbers -> Nat] /\ Numbers \subseteq Chars /\ "-" \in Chars
  BY CsvAssumption, Signs
<1>2. n \in Int
  BY DEF Ids
<1>3. CASE n < 0
  <2> DEFINE w == WordOf(-n)
             d == <<"-", w>>
  <2>1. \E v \in Numbers : NumberOf[v] = -n
    BY <1>1, <1>2, <1>3 DEF Ids
  <2>2. w \in Numbers /\ NumberOf[w] = -n
    BY <2>1 DEF WordOf
  <2> HIDE DEF w
  <2>3. Digits(n) = d
    BY <1>3 DEF Digits, w
  <2>4. d \in Seq(Chars) /\ Len(d) = 2 /\ d[1] = "-" /\ d[2] = w /\ d # <<>>
    BY <1>1, <2>2
  <2> HIDE DEF d
  <2>5. w # Comma /\ w # Quote /\ d[1] \notin Numbers /\ d[2] \in Numbers
    BY <1>1, <2>2, <2>4
  <2>6. Atoi(d) = -NumberOf[d[2]]
    BY <2>4, <2>5 DEF Atoi
  <2>7. Atoi(d) = n
    BY <1>2, <2>2, <2>4, <2>6
  <2>8. \A i \in 1 .. Len(d) : d[i] # Comma /\ d[i] # Quote
    BY <2>4, <2>5, Signs
  <2> QED
    BY <2>3, <2>4, <2>7, <2>8
<1>4. CASE ~(n < 0)
  <2> DEFINE w == WordOf(n)
             d == <<w>>
  <2>1. \E v \in Numbers : NumberOf[v] = n
    BY <1>1, <1>2, <1>4 DEF Ids
  <2>2. w \in Numbers /\ NumberOf[w] = n
    BY <2>1 DEF WordOf
  <2> HIDE DEF w
  <2>3. Digits(n) = d
    BY <1>4 DEF Digits, w
  <2>4. d \in Seq(Chars) /\ Len(d) = 1 /\ d[1] = w /\ d # <<>>
    BY <1>1, <2>2
  <2> HIDE DEF d
  <2>5. w # Comma /\ w # Quote
    BY <1>1, <2>2
  <2>6. Atoi(d) = NumberOf[d[1]]
    BY <2>2, <2>4 DEF Atoi
  <2>7. \A i \in 1 .. Len(d) : d[i] # Comma /\ d[i] # Quote
    BY <2>4, <2>5
  <2> QED
    BY <2>2, <2>3, <2>4, <2>6, <2>7
<1> QED
  BY <1>3, <1>4

Joins(s, a, b) ==
    /\ s \in Seq(Chars) /\ Len(s) = Len(a) + Len(b)
    /\ \A i \in 1 .. Len(a) : s[i] = a[i]
    /\ \A i \in 1 .. Len(b) : s[Len(a) + i] = b[i]

LEMMA Joined == \A a, b \in Seq(Chars) : Joins(a \o b, a, b)
<1> SUFFICES ASSUME NEW a \in Seq(Chars), NEW b \in Seq(Chars) PROVE Joins(a \o b, a, b)
  OBVIOUS
<1>1. a \o b \in Seq(Chars) /\ Len(a \o b) = Len(a) + Len(b)
  OBVIOUS
<1>2. \A i \in 1 .. Len(a) : (a \o b)[i] = a[i]
  OBVIOUS
<1>3. \A i \in 1 .. Len(b) : (a \o b)[Len(a) + i] = b[i]
  OBVIOUS
<1> QED
  BY <1>1, <1>2, <1>3 DEF Joins

Enabled(row) == IF row.enabled THEN "1" ELSE "0"

\* Where the match, the expand and the id end in a line
MatchEnd(row) == Len(row.match)
ExpandEnd(row) == Len(row.match) + 1 + Len(row.expand)
IdEnd(row) == Len(row.match) + 1 + Len(row.expand) + 1 + Len(Digits(row.id))

(* A line has its texts and commas in their places.                            *)
LEMMA WrittenIs ==
    ASSUME NEW row \in Rows
    PROVE  LET line == Written(row) IN
           /\ line \in Seq(Chars) /\ Len(line) = IdEnd(row) + 2
           /\ \A i \in 1 .. Len(row.match) : line[i] = row.match[i]
           /\ line[MatchEnd(row) + 1] = Comma
           /\ \A i \in 1 .. Len(row.expand) : line[MatchEnd(row) + 1 + i] = row.expand[i]
           /\ line[ExpandEnd(row) + 1] = Comma
           /\ \A i \in 1 .. Len(Digits(row.id)) : line[ExpandEnd(row) + 1 + i] = Digits(row.id)[i]
           /\ line[IdEnd(row) + 1] = Comma /\ line[IdEnd(row) + 2] = Enabled(row)
<1> DEFINE m == row.match
           x == row.expand
           d == Digits(row.id)
           c == <<Comma>>
           e == <<Comma, Enabled(row)>>
           s1 == m \o c
           s2 == s1 \o x
           s3 == s2 \o c
           s4 == s3 \o d
           s5 == s4 \o e
<1>1. m \in Seq(Chars) /\ x \in Seq(Chars) /\ d \in Seq(Chars)
  BY DigitsAre DEF Rows
<1>2. Enabled(row) \in Chars
  <2>1. "0" \in Chars /\ "1" \in Chars
    BY CsvAssumption, Signs
  <2> QED
    BY <2>1 DEF Enabled
<1>3. c \in Seq(Chars) /\ Len(c) = 1 /\ c[1] = Comma
  BY Signs
<1>4. e \in Seq(Chars) /\ Len(e) = 2 /\ e[1] = Comma /\ e[2] = Enabled(row)
  BY <1>2, Signs
<1>5. Written(row) = s5
  BY DEF Written, Enabled
<1> HIDE DEF m, x, d, c, e
<1>6. Joins(s1, m, c)
  BY <1>1, <1>3, Joined
<1> HIDE DEF s1
<1>7. Joins(s2, s1, x)
  BY <1>1, <1>6, Joined DEF Joins, s2
<1> HIDE DEF s2
<1>8. Joins(s3, s2, c)
  BY <1>3, <1>7, Joined DEF Joins, s3
<1> HIDE DEF s3
<1>9. Joins(s4, s3, d)
  BY <1>1, <1>8, Joined DEF Joins, s4
<1> HIDE DEF s4
<1>10. Joins(s5, s4, e)
  BY <1>4, <1>9, Joined DEF Joins, s5
<1> HIDE DEF s5
<1> DEFINE M == Len(m)
           X == Len(m) + 1 + Len(x)
           D == Len(m) + 1 + Len(x) + 1 + Len(d)
<1>11. /\ Len(m) \in Nat /\ Len(x) \in Nat /\ Len(d) \in Nat
       /\ Len(s1) = M + 1 /\ Len(s2) = X /\ Len(s3) = X + 1 /\ Len(s4) = D /\ Len(s5) = D + 2
  BY <1>1, <1>3, <1>4, <1>6, <1>7, <1>8, <1>9, <1>10, LenProperties DEF Joins
<1>12. s5[D + 1] = Comma /\ s5[D + 2] = Enabled(row)
  BY <1>4, <1>10, <1>11 DEF Joins
<1>13. \A i \in 1 .. D : s5[i] = s4[i]
  BY <1>10, <1>11 DEF Joins
<1>14. \A i \in 1 .. Len(d) : s4[X + 1 + i] = d[i]
  BY <1>9, <1>11 DEF Joins
<1>15. \A i \in 1 .. X + 1 : s4[i] = s3[i]
  BY <1>9, <1>11 DEF Joins
<1>16. s3[X + 1] = Comma
  BY <1>3, <1>8, <1>11 DEF Joins
<1>17. \A i \in 1 .. X : s3[i] = s2[i]
  BY <1>8, <1>11 DEF Joins
<1>18. \A i \in 1 .. Len(x) : s2[M + 1 + i] = x[i]
  BY <1>7, <1>11 DEF Joins
<1>19. \A i \in 1 .. M + 1 : s2[i] = s1[i]
  BY <1>7, <1>11 DEF Joins
<1>20. s1[M + 1] = Comma /\ \A i \in 1 .. M : s1[i] = m[i]
  BY <1>3, <1>6, <1>11 DEF Joins
<1>21. /\ s5[M + 1] = Comma /\ s5[X + 1] = Comma
       /\ \A i \in 1 .. Len(m) : s5[i] = m[i]
  <2>1. M + 1 \in 1 .. X /\ M + 1 \in 1 .. D /\ X + 1 \in 1 .. D /\ M + 1 \in 1 .. X + 1
        /\ M + 1 \in 1 .. M + 1 /\ X + 1 \in 1 .. X + 1
    BY <1>11
  <2>2. \A i \in 1 .. M : i \in 1 .. X /\ i \in 1 .. D /\ i \in 1 .. X + 1 /\ i \in 1 .. M + 1
    BY <1>11
  <2>3. s5[X + 1] = Comma
    BY <1>13, <1>15, <1>16, <2>1
  <2>4. s5[M + 1] = Comma
    BY <1>13, <1>15, <1>17, <1>19, <1>20, <2>1
  <2> QED
    BY <1>13, <1>15, <1>17, <1>19, <1>20, <2>2, <2>3, <2>4
<1>22. \A i \in 1 .. Len(x) : s5[M + 1 + i] = x[i]
  <2> SUFFICES ASSUME NEW i \in 1 .. Len(x) PROVE s5[M + 1 + i] = x[i]
    OBVIOUS
  <2>1. M + 1 + i \in 1 .. D /\ M + 1 + i \in 1 .. X + 1 /\ M + 1 + i \in 1 .. X
    BY <1>11
  <2> QED
    BY <1>13, <1>15, <1>17, <1>18, <2>1
<1>23. \A i \in 1 .. Len(d) : s5[X + 1 + i] = d[i]
  <2> SUFFICES ASSUME NEW i \in 1 .. Len(d) PROVE s5[X + 1 + i] = d[i]
    OBVIOUS
  <2>1. X + 1 + i \in 1 .. D
    BY <1>11
  <2> QED
    BY <1>13, <1>14, <2>1
<1>24. s5 \in Seq(Chars)
  BY <1>10 DEF Joins
<1>25. MatchEnd(row) = M /\ ExpandEnd(row) = X /\ IdEnd(row) = D
  BY DEF MatchEnd, ExpandEnd, IdEnd, m, x, d
<1> HIDE DEF M, X, D
<1> QED
  BY <1>5, <1>11, <1>12, <1>21, <1>22, <1>23, <1>24, <1>25 DEF m, x, d, M

LEMMA EnabledIs ==
    ASSUME NEW row \in Rows
    PROVE  /\ Enabled(row) \in Numbers /\ Enabled(row) # Comma /\ Enabled(row) # Quote
           /\ (Atoi(<<Enabled(row)>>) # 0) = row.enabled
<1> DEFINE e == Enabled(row)
           t == <<e>>
<1>1. /\ "0" \in Numbers /\ "1" \in Numbers /\ NumberOf["0"] = 0 /\ NumberOf["1"] = 1
      /\ Comma \notin Numbers /\ Quote \notin Numbers
  BY CsvAssumption
<1>2. row.enabled \in BOOLEAN
  BY DEF Rows
<1>3. e \in {"0", "1"}
  BY DEF Enabled
<1>4. row.enabled = TRUE => e = "1"
  BY DEF Enabled
<1>5. row.enabled = FALSE => e = "0"
  BY DEF Enabled
<1> HIDE DEF e
<1>6. t # <<>> /\ t[1] = e
  OBVIOUS
<1> HIDE DEF t
<1>7. Atoi(t) = NumberOf[e]
  BY <1>1, <1>3, <1>6 DEF Atoi
<1>8. (Atoi(t) # 0) <=> e = "1"
  BY <1>1, <1>3, <1>7
<1>9. (Atoi(t) # 0) = row.enabled
  <2>1. CASE row.enabled = TRUE
    <3>1. Atoi(t) # 0
      BY <1>4, <1>8, <2>1
    <3> QED
      BY <2>1, <3>1
  <2>2. CASE row.enabled = FALSE
    <3>1. ~(Atoi(t) # 0)
      BY <1>1, <1>3, <1>5, <1>7, <2>2
    <3> QED
      BY <2>2, <3>1
  <2> QED
    BY <1>2, <2>1, <2>2
<1> QED
  BY <1>1, <1>3, <1>9 DEF e, t

\* Quotes come from the texts alone.
LEMMA WrittenQuoteFree ==
    ASSUME NEW row \in Rows,
           \A i \in 1 .. Len(row.match) : row.match[i] # Quote,
           \A i \in 1 .. Len(row.expand) : row.expand[i] # Quote
    PROVE  QuoteFree(Written(row))
<1> DEFINE line == Written(row)
           m == row.match
           x == row.expand
           d == Digits(row.id)
           M == MatchEnd(row)
           X == ExpandEnd(row)
           D == IdEnd(row)
<1>1. /\ line \in Seq(Chars) /\ Len(line) = D + 2
      /\ \A i \in 1 .. Len(m) : line[i] = m[i]
      /\ \A i \in 1 .. Len(x) : line[M + 1 + i] = x[i]
      /\ \A i \in 1 .. Len(d) : line[X + 1 + i] = d[i]
      /\ line[M + 1] = Comma /\ line[X + 1] = Comma /\ line[D + 1] = Comma
      /\ line[D + 2] = Enabled(row)
  BY WrittenIs
<1>2. row.id \in Ids /\ m \in Seq(Chars) /\ x \in Seq(Chars)
  BY DEF Rows
<1>3. d \in Seq(Chars) /\ \A i \in 1 .. Len(d) : d[i] # Quote
  BY <1>2, DigitsAre
<1>4. /\ Len(m) \in Nat /\ Len(x) \in Nat /\ Len(d) \in Nat
      /\ M = Len(m) /\ X = Len(m) + 1 + Len(x) /\ D = Len(m) + 1 + Len(x) + 1 + Len(d)
  BY <1>2, <1>3, LenProperties DEF MatchEnd, ExpandEnd, IdEnd
<1>5. Comma # Quote /\ Enabled(row) # Quote
  BY Signs, EnabledIs
<1>6. \A i \in 1 .. Len(m) : m[i] # Quote
  OBVIOUS
<1>7. \A i \in 1 .. Len(x) : x[i] # Quote
  OBVIOUS
<1> HIDE DEF line, m, x, d, M, X, D
<1>8. ASSUME NEW i \in 1 .. D + 2 PROVE line[i] # Quote
  <2>1. CASE i \in 1 .. Len(m)
    BY <1>1, <1>6, <2>1
  <2>2. CASE i = M + 1 \/ i = X + 1 \/ i = D + 1 \/ i = D + 2
    BY <1>1, <1>5, <2>2
  <2>3. CASE i > M + 1 /\ i <= X
    <3> DEFINE k == i - M - 1
    <3>1. k \in 1 .. Len(x) /\ M + 1 + k = i
      BY <1>4, <2>3
    <3> HIDE DEF k
    <3> QED
      BY <1>1, <1>7, <3>1
  <2>4. CASE i > X + 1 /\ i <= D
    <3> DEFINE k == i - X - 1
    <3>1. k \in 1 .. Len(d) /\ X + 1 + k = i
      BY <1>4, <2>4
    <3> HIDE DEF k
    <3> QED
      BY <1>1, <1>3, <3>1
  <2>5. M \in Nat /\ X \in Nat /\ D \in Nat /\ M < X /\ X < D
    BY <1>4
  <2>6. \/ i <= M \/ i = M + 1 \/ (i > M + 1 /\ i <= X) \/ i = X + 1
        \/ (i > X + 1 /\ i <= D) \/ i = D + 1 \/ i = D + 2
    BY <2>5
  <2>7. i <= M => i \in 1 .. Len(m)
    BY <1>4
  <2> QED
    BY <2>1, <2>2, <2>3, <2>4, <2>6, <2>7
<1>9. DOMAIN line = 1 .. D + 2
  BY <1>1
<1> QED
  BY <1>8, <1>9 DEF QuoteFree, line

\* The fields only get more.
LEMMA FieldsGrow ==
    ASSUME NEW line \in Seq(Chars), NEW state, Plainly(state, line),
           NEW a \in 0 .. Len(line), NEW b \in a .. Len(line)
    PROVE  Len(state[a].fields) <= Len(state[b].fields)
<1> DEFINE N == Len(line)
           L(i) == Len(state[i].fields)
           K == b - a
           S == {n \in 0 .. K : L(a) <= L(a + n)}
<1>1. N \in Nat /\ a \in Nat /\ b \in Nat /\ K \in Nat /\ a + K = b
  OBVIOUS
<1>2. \A i \in 0 .. N : L(i) \in Nat /\ state[i] \in States
  BY LenProperties DEF Plainly, States
<1>3. ASSUME NEW i \in 1 .. N PROVE L(i - 1) <= L(i)
  <2>1. i - 1 \in 0 .. N /\ i \in 0 .. N
    BY <1>1
  <2>2. /\ state[i - 1].fields \in Seq(Seq(Chars)) /\ state[i - 1].field \in Seq(Chars)
        /\ Moves(state[i - 1], state[i], line[i])
    BY <1>2, <2>1 DEF Plainly, States
  <2>3. CASE line[i] = Comma
    <3>1. state[i].fields = Append(state[i - 1].fields, state[i - 1].field)
      BY <2>2, <2>3 DEF Moves
    <3>2. L(i) = L(i - 1) + 1
      BY <2>2, <3>1, AppendProperties
    <3> HIDE DEF L
    <3> QED
      BY <1>2, <2>1, <3>2
  <2>4. CASE line[i] # Comma
    <3>1. state[i].fields = state[i - 1].fields
      BY <2>2, <2>4 DEF Moves
    <3>2. L(i) = L(i - 1)
      BY <3>1
    <3> HIDE DEF L
    <3> QED
      BY <1>2, <2>1, <3>2
  <2> QED
    BY <2>3, <2>4
<1> HIDE DEF L
<1>4. 0 \in S
  BY <1>1, <1>2
<1>5. \A n \in 0 .. K - 1 : n \in S => n + 1 \in S
  <2> SUFFICES ASSUME NEW n \in 0 .. K - 1, n \in S PROVE n + 1 \in S
    OBVIOUS
  <2>1. /\ a + (n + 1) \in 1 .. N /\ (a + (n + 1)) - 1 = a + n /\ n + 1 \in 0 .. K
        /\ a + n \in 0 .. N /\ a + (n + 1) \in 0 .. N /\ a \in 0 .. N
    BY <1>1
  <2>2. L(a + n) <= L(a + (n + 1))
    BY <1>3, <2>1
  <2>3. L(a) \in Nat /\ L(a + n) \in Nat /\ L(a + (n + 1)) \in Nat
    BY <1>2, <2>1
  <2> QED
    BY <2>1, <2>2, <2>3
<1>6. \A n \in 0 .. K : n \in S
  <2> HIDE DEF K, S
  <2> QED
    BY <1>1, <1>4, <1>5, UpTo
<1>7. K \in S
  <2> HIDE DEF S, K
  <2> QED
    BY <1>1, <1>6
<1> QED
  BY <1>1, <1>7 DEF L

(* A line without quotes has its four fields, whatever commas are in it.       *)
LEMMA QuoteFreeReadable ==
    ASSUME NEW row \in Rows, QuoteFree(Written(row))
    PROVE  Readable(Written(row))
<1> DEFINE line == Written(row)
           M == MatchEnd(row)
           X == ExpandEnd(row)
           D == IdEnd(row)
<1>1. /\ line \in Seq(Chars) /\ Len(line) = D + 2
      /\ line[M + 1] = Comma /\ line[X + 1] = Comma /\ line[D + 1] = Comma
      /\ line[D + 2] = Enabled(row)
  BY WrittenIs
<1>2. M \in Nat /\ X \in Nat /\ D \in Nat /\ M < X /\ X < D
  <2> DEFINE a == Len(row.match)
             b == Len(row.expand)
             c == Len(Digits(row.id))
  <2>1. row.match \in Seq(Chars) /\ row.expand \in Seq(Chars) /\ row.id \in Ids
    BY DEF Rows
  <2>2. Digits(row.id) \in Seq(Chars) /\ c > 0
    BY <2>1, DigitsAre
  <2>3. a \in Nat /\ b \in Nat /\ c \in Nat
    BY <2>1, <2>2, LenProperties
  <2>4. c > 0
    BY <2>2
  <2>5. M = a /\ X = a + 1 + b /\ D = a + 1 + b + 1 + c
    BY DEF MatchEnd, ExpandEnd, IdEnd
  <2> HIDE DEF a, b, c, M, X, D
  <2> QED
    BY <2>3, <2>4, <2>5
<1>3. PICK state : Reads(state, line) /\ FieldsOf(line) = FieldsAt(state[Len(line)])
  BY <1>1, FieldsAreRead
<1>4. Plainly(state, line)
  BY <1>1, <1>3, ReadsPlainly
<1> HIDE DEF line, M, X, D
<1> DEFINE L(i) == Len(state[i].fields)
<1>5. \A i \in 0 .. D + 2 : /\ L(i) \in Nat /\ state[i].fields \in Seq(Seq(Chars))
                            /\ state[i].field \in Seq(Chars)
  BY <1>1, <1>4, LenProperties DEF Plainly, States
<1>6. ASSUME NEW i \in 1 .. D + 2, line[i] = Comma PROVE L(i) = L(i - 1) + 1
  <2>1. state[i].fields = Append(state[i - 1].fields, state[i - 1].field)
    BY <1>1, <1>4, <1>6, CommaIsRead DEF Parts
  <2>2. i - 1 \in 0 .. D + 2
    BY <1>2
  <2> QED
    BY <1>5, <2>1, <2>2, AppendProperties
<1>7. ASSUME NEW a \in 0 .. D + 2, NEW b \in a .. D + 2 PROVE L(a) <= L(b)
  BY <1>1, <1>4, FieldsGrow
<1>8. /\ state[D + 2].fields = state[D + 1].fields /\ state[D + 2].begun = TRUE
  <2>1. D + 2 \in 1 .. D + 2 /\ (D + 2) - 1 = D + 1
    BY <1>2
  <2>2. Moves(state[D + 1], state[D + 2], line[D + 2])
    BY <1>1, <1>4, <2>1 DEF Plainly
  <2>3. line[D + 2] # Comma
    BY <1>1, EnabledIs
  <2> QED
    BY <2>2, <2>3 DEF Moves
<1>9. FieldsOf(line) = Append(state[D + 1].fields, state[D + 2].field)
  BY <1>1, <1>3, <1>8 DEF FieldsAt
<1>10. Len(FieldsOf(line)) = L(D + 1) + 1
  <2>1. D + 1 \in 0 .. D + 2 /\ D + 2 \in 0 .. D + 2
    BY <1>2
  <2> QED
    BY <1>5, <1>9, <2>1, AppendProperties
<1> HIDE DEF L
<1>11. /\ M + 1 \in 1 .. D + 2 /\ X + 1 \in 1 .. D + 2 /\ D + 1 \in 1 .. D + 2
       /\ M \in 0 .. D + 2 /\ X \in 0 .. D + 2 /\ D \in 0 .. D + 2
       /\ X \in M + 1 .. D + 2 /\ D \in X + 1 .. D + 2
       /\ M + 1 \in 0 .. D + 2 /\ X + 1 \in 0 .. D + 2 /\ D + 1 \in 0 .. D + 2
       /\ (M + 1) - 1 = M /\ (X + 1) - 1 = X /\ (D + 1) - 1 = D
  BY <1>2
<1>12. L(M + 1) = L(M) + 1 /\ L(X + 1) = L(X) + 1 /\ L(D + 1) = L(D) + 1
  BY <1>1, <1>6, <1>11
<1>13. L(M + 1) <= L(X) /\ L(X + 1) <= L(D)
  BY <1>7, <1>11
<1>14. L(M) \in Nat /\ L(X) \in Nat /\ L(D) \in Nat
  BY <1>5, <1>11
<1>15. L(D + 1) >= 3
  BY <1>12, <1>13, <1>14
<1>16. Len(FieldsOf(line)) >= 4
  BY <1>10, <1>12, <1>14, <1>15
<1> QED
  BY <1>16 DEF Readable, line

(* An expansion without commas and quotes is read as it was written.           *)
LEMMA PlainIsRead ==
    ASSUME NEW row \in Rows, Plain(row)
    PROVE  Readable(Written(row)) /\ RowOf(Written(row)) = row
<1> DEFINE line == Written(row)
           m == row.match
           x == row.expand
           d == Digits(row.id)
           e == <<Enabled(row)>>
           M == MatchEnd(row)
           X == ExpandEnd(row)
           D == IdEnd(row)
<1>1. /\ line \in Seq(Chars) /\ Len(line) = D + 2
      /\ \A i \in 1 .. Len(m) : line[i] = m[i]
      /\ \A i \in 1 .. Len(x) : line[M + 1 + i] = x[i]
      /\ \A i \in 1 .. Len(d) : line[X + 1 + i] = d[i]
      /\ line[M + 1] = Comma /\ line[X + 1] = Comma /\ line[D + 1] = Comma
      /\ line[D + 2] = Enabled(row)
  BY WrittenIs
<1>2. row.id \in Ids /\ m \in Seq(Chars) /\ x \in Seq(Chars)
  BY DEF Rows
<1>3. /\ d \in Seq(Chars) /\ Len(d) > 0 /\ Atoi(d) = row.id
      /\ \A i \in 1 .. Len(d) : d[i] # Comma
  BY <1>2, DigitsAre
<1>4. /\ Len(m) \in Nat /\ Len(x) \in Nat /\ Len(d) \in Nat
      /\ M = Len(m) /\ X = M + 1 + Len(x) /\ D = X + 1 + Len(d)
  BY <1>2, <1>3, LenProperties DEF MatchEnd, ExpandEnd, IdEnd
<1>5. /\ \A i \in 1 .. Len(m) : m[i] # Comma /\ m[i] # Quote
      /\ \A i \in 1 .. Len(x) : x[i] # Comma /\ x[i] # Quote
  BY DEF Plain, Contains
<1>6. QuoteFree(line)
  BY <1>5, WrittenQuoteFree
<1>7. Readable(line)
  BY <1>6, QuoteFreeReadable
<1>8. PICK state : Reads(state, line) /\ FieldsOf(line) = FieldsAt(state[Len(line)])
  BY <1>1, FieldsAreRead
<1>9. Plainly(state, line)
  BY <1>1, <1>6, <1>8, ReadsPlainly
<1>10. e \in Seq(Chars) /\ Len(e) = 1 /\ e[1] = Enabled(row) /\ e # <<>> /\ Enabled(row) # Comma
  <2> DEFINE w == Enabled(row)
  <2>1. w \in Chars /\ w # Comma
    BY EnabledIs, Signs
  <2> HIDE DEF w
  <2>2. <<w>> \in Seq(Chars) /\ Len(<<w>>) = 1 /\ <<w>>[1] = w /\ <<w>> # <<>>
    BY <2>1
  <2> QED
    BY <2>1, <2>2 DEF w
<1> HIDE DEF line, m, x, d, e, M, X, D
<1>11. state[0].fields = <<>> /\ state[0].field = <<>>
  BY <1>9 DEF Plainly, Before
<1>12. \A a, part : Stands(part, a, line) /\ state[a].field = <<>> =>
           Gathers(part, state[a], state[a + Len(part)])
  BY <1>1, <1>9, RunIsRead
<1>13. \A i \in 1 .. Len(line) : line[i] = Comma => Parts(state[i - 1], state[i])
  BY <1>1, <1>9, CommaIsRead
<1>14. /\ M + 1 \in 1 .. Len(line) /\ X + 1 \in 1 .. Len(line) /\ D + 1 \in 1 .. Len(line)
       /\ (M + 1) - 1 = M /\ (X + 1) - 1 = X /\ (D + 1) - 1 = D
       /\ 0 + Len(m) = M /\ M + 1 + Len(x) = X /\ X + 1 + Len(d) = D /\ D + 1 + Len(e) = D + 2
  BY <1>1, <1>4, <1>10
<1>15. /\ Parts(state[M], state[M + 1]) /\ Parts(state[X], state[X + 1])
       /\ Parts(state[D], state[D + 1])
  BY <1>1, <1>13, <1>14
<1>16. Stands(m, 0, line) /\ Stands(x, M + 1, line)
  <2>1. Stands(m, 0, line)
    BY <1>1, <1>2, <1>4, <1>5 DEF Stands
  <2>2. Stands(x, M + 1, line)
    BY <1>1, <1>2, <1>4, <1>5 DEF Stands
  <2> QED
    BY <2>1, <2>2
<1>17. Stands(d, X + 1, line) /\ Stands(e, D + 1, line)
  <2>1. Stands(d, X + 1, line)
    BY <1>1, <1>3, <1>4 DEF Stands
  <2>2. D + 1 \in 0 .. Len(line) /\ D + 1 + 1 = D + 2 /\ D + 2 <= Len(line)
    BY <1>1, <1>4
  <2>3. \A i \in 1 .. 1 : line[D + 1 + i] = e[i] /\ e[i] # Comma
    <3>1. line[D + 1 + 1] = e[1]
      BY <1>1, <1>10, <2>2
    <3> QED
      BY <1>10, <3>1
  <2>4. Stands(e, D + 1, line)
    BY <1>10, <2>2, <2>3 DEF Stands
  <2> QED
    BY <2>1, <2>4
<1>18. /\ Gathers(m, state[0], state[M]) /\ Gathers(x, state[M + 1], state[X])
       /\ Gathers(d, state[X + 1], state[D]) /\ Gathers(e, state[D + 1], state[D + 2])
  <2>1. /\ state[M + 1].field = <<>> /\ state[X + 1].field = <<>> /\ state[D + 1].field = <<>>
    BY <1>15 DEF Parts
  <2>2. Gathers(m, state[0], state[M]) /\ Gathers(x, state[M + 1], state[X])
    BY <1>11, <1>12, <1>14, <1>16, <2>1
  <2>3. Gathers(d, state[X + 1], state[D]) /\ Gathers(e, state[D + 1], state[D + 2])
    BY <1>12, <1>14, <1>17, <2>1
  <2> QED
    BY <2>2, <2>3
<1>19. /\ state[D + 2].fields = Append(Append(Append(<<>>, m), x), d)
       /\ state[D + 2].field = e /\ state[D + 2].begun = TRUE
  <2>1. state[M].fields = <<>> /\ state[M].field = m
    BY <1>11, <1>18 DEF Gathers
  <2>2. state[X].fields = Append(<<>>, m) /\ state[X].field = x
    BY <1>15, <1>18, <2>1 DEF Gathers, Parts
  <2>3. state[D].fields = Append(Append(<<>>, m), x) /\ state[D].field = d
    BY <1>15, <1>18, <2>2 DEF Gathers, Parts
  <2> QED
    BY <1>10, <1>15, <1>18, <2>3 DEF Gathers, Parts
<1> DEFINE f == Append(Append(Append(Append(<<>>, m), x), d), e)
<1>20. FieldsOf(line) = f
  BY <1>1, <1>8, <1>19 DEF FieldsAt
<1>21. f[1] = m /\ f[2] = x /\ f[3] = d /\ f[4] = e
  BY <1>2, <1>3, <1>10
<1> HIDE DEF f
<1>22. (Atoi(f[4]) # 0) = row.enabled
  BY <1>21, EnabledIs DEF e
<1>23. RowOf(line) = [match |-> f[1], expand |-> f[2], id |-> Atoi(f[3]),
                      enabled |-> Atoi(f[4]) # 0]
  BY <1>20 DEF RowOf
<1>24. RowOf(line) = [match |-> row.match, expand |-> row.expand, id |-> row.id,
                      enabled |-> row.enabled]
  BY <1>3, <1>21, <1>22, <1>23 DEF m, x
<1>25. row = [match |-> row.match, expand |-> row.expand, id |-> row.id, enabled |-> row.enabled]
  BY DEF Rows
<1> QED
  BY <1>7, <1>24, <1>25 DEF line

(* What a line is read as is an expansion that can be written.                 *)
LEMMA ReadIsRow ==
    ASSUME NEW line \in Seq(Chars), Readable(line)
    PROVE  RowOf(line) \in Rows
<1>1. PICK state : Reads(state, line) /\ FieldsOf(line) = FieldsAt(state[Len(line)])
  BY FieldsAreRead
<1>2. state[Len(line)] \in States
  BY <1>1 DEF Reads
<1>3. FieldsOf(line) \in Seq(Seq(Chars))
  BY <1>1, <1>2 DEF FieldsAt, States
<1> DEFINE f == FieldsOf(line)
<1> HIDE DEF f
<1>4. f \in Seq(Seq(Chars)) /\ Len(f) >= 4
  BY <1>3 DEF f, Readable
<1>5. f[1] \in Seq(Chars) /\ f[2] \in Seq(Chars) /\ f[3] \in Seq(Chars)
  BY <1>4
<1>6. Atoi(f[3]) \in Ids
  <2> DEFINE t == f[3]
  <2>1. /\ NumberOf \in [Numbers -> Nat] /\ "0" \in Numbers /\ NumberOf["0"] = 0
    BY CsvAssumption
  <2> HIDE DEF t
  <2>2. \A w \in Numbers : NumberOf[w] \in Ids /\ -NumberOf[w] \in Ids
    BY <2>1 DEF Ids
  <2>3. 0 \in Ids
    BY <2>1, <2>2
  <2> QED
    BY <2>2, <2>3 DEF Atoi, t
<1>7. RowOf(line) = [match |-> f[1], expand |-> f[2], id |-> Atoi(f[3]), enabled |-> Atoi(f[4]) # 0]
  BY DEF RowOf, f
<1>8. (Atoi(f[4]) # 0) \in BOOLEAN
  OBVIOUS
<1> QED
  BY <1>5, <1>6, <1>7, <1>8 DEF Rows

-----------------------------------------------------------------------------
(* The rows                                                                    *)

DistinctIds(list) == \A k, l \in DOMAIN list : list[k].id = list[l].id => k = l

\* The expansions that are to be there again
Kept == {i \in DOMAIN saved : Plain(saved[i]) /\ \A j \in DOMAIN saved : ~Takes(j, i)}

Placed(i) == {k \in DOMAIN rows : rows[k] = saved[i]}

\* Row k is what one of the first m lines is read as.
FromLine(k, m) ==
    \E j \in 1 .. m : Readable(Written(saved[j])) /\ rows[k] = RowOf(Written(saved[j]))

\* The first m lines are loaded.
LoadedUpTo(m) ==
    /\ Len(rows) <= m
    /\ \A k \in DOMAIN rows : FromLine(k, m)
    /\ \A i \in Kept : i <= m => Placed(i) # {}
    /\ \A i, j \in Kept : i < j /\ j <= m => \A k \in Placed(i), l \in Placed(j) : k < l

RowsFit ==
    /\ rows \in Seq(Rows) /\ saved \in Seq(Rows)
    /\ DistinctIds(rows) /\ DistinctIds(saved)
    /\ left \in Nat /\ Len(rows) + left <= Changes /\ Len(saved) + left <= Changes
    /\ lines = [i \in DOMAIN saved |-> Written(saved[i])]

LinesInv ==
    /\ RowsFit
    /\ at = "inserting" =>
         \E m \in 0 .. Len(saved) : todo = SubSeq(lines, m + 1, Len(lines)) /\ LoadedUpTo(m)
    /\ at = "loaded" => LoadedUpTo(Len(saved))
    /\ at = "crashed" =>
         \E i \in DOMAIN saved : Contains(saved[i].match \o saved[i].expand, Quote)

\* The save file holds a line for each expansion, of lexemes.
LEMMA LinesAre ==
    ASSUME RowsFit
    PROVE  /\ lines \in Seq(Seq(Chars)) /\ Len(lines) = Len(saved) /\ Len(saved) \in Nat
           /\ DOMAIN saved = 1 .. Len(saved)
           /\ \A i \in 1 .. Len(saved) : saved[i] \in Rows /\ lines[i] = Written(saved[i])
<1>1. /\ saved \in Seq(Rows) /\ lines = [i \in DOMAIN saved |-> Written(saved[i])]
  BY DEF RowsFit
<1>2. Len(saved) \in Nat /\ DOMAIN saved = 1 .. Len(saved)
  BY <1>1
<1>3. \A i \in 1 .. Len(saved) : saved[i] \in Rows
  BY <1>1
<1>4. \A i \in 1 .. Len(saved) : Written(saved[i]) \in Seq(Chars)
  BY <1>3, WrittenIs
<1>5. lines = [i \in 1 .. Len(saved) |-> Written(saved[i])]
  BY <1>1, <1>2
<1>6. lines \in Seq(Seq(Chars)) /\ Len(lines) = Len(saved)
  BY <1>2, <1>4, <1>5
<1> QED
  BY <1>2, <1>3, <1>5, <1>6

(* There is a number for a new expansion, no greater than how many there are.  *)
LEMMA FreeIdIs ==
    ASSUME rows \in Seq(Rows)
    PROVE  FreeId \in 0 .. Len(rows) /\ \A i \in DOMAIN rows : rows[i].id # FreeId
<1> DEFINE N == Len(rows)
           used == {rows[i].id : i \in 1 .. N}
           free == {n \in 0 .. N : n \notin used}
<1>1. N \in Nat /\ DOMAIN rows = 1 .. N
  OBVIOUS
<1>2. free # {}
  <2> SUFFICES ASSUME free = {} PROVE FALSE
    OBVIOUS
  <2> DEFINE id == [i \in 1 .. N |-> rows[i].id]
  <2>1. IsFiniteSet(1 .. N) /\ Cardinality(1 .. N) = N
    BY <1>1, FS_Interval
  <2>2. IsFiniteSet(0 .. N) /\ Cardinality(0 .. N) = N + 1
    BY <1>1, FS_Interval
  <2>3. 0 .. N \subseteq used
    OBVIOUS
  <2>4. id \in Surjection(1 .. N, used)
    BY Zenon DEF Surjection
  <2> HIDE DEF used, id
  <2>5. IsFiniteSet(used) /\ Cardinality(used) <= Cardinality(1 .. N)
    BY <2>1, <2>4, FS_Surjection
  <2>6. Cardinality(0 .. N) <= Cardinality(used)
    BY <2>3, <2>5, FS_Subset
  <2>7. Cardinality(used) \in Nat
    BY <2>5, FS_CardinalityType
  <2> QED
    BY <1>1, <2>1, <2>2, <2>5, <2>6, <2>7
<1>3. Least(free) \in free /\ \A k \in free : Least(free) <= k
  <2>1. free \in SUBSET Nat
    BY <1>1
  <2> QED
    BY <1>2, <2>1, LeastOfNat
<1> DEFINE n == Least(free)
<1>4. n \in 0 .. N /\ n \notin used
  BY <1>3
<1>5. \A m \in 0 .. n - 1 : m \in used
  <2> HIDE DEF n, used
  <2> SUFFICES ASSUME NEW m \in 0 .. n - 1, m \notin used PROVE FALSE
    OBVIOUS
  <2>1. m \in 0 .. N /\ ~(n <= m)
    BY <1>1, <1>4
  <2>2. m \in free
    BY <2>1
  <2> HIDE DEF free
  <2> QED
    BY <1>3, <2>1, <2>2 DEF n
<1> HIDE DEF n
<1> DEFINE Free(k) == /\ \A i \in DOMAIN rows : rows[i].id # k
                      /\ \A m \in 0 .. k - 1 : \E i \in DOMAIN rows : rows[i].id = m
<1>6. Free(n)
  BY <1>1, <1>4, <1>5
<1>7. FreeId = CHOOSE k \in 0 .. N : Free(k)
  BY DEF FreeId
<1> HIDE DEF Free
<1>8. FreeId \in 0 .. N /\ Free(FreeId)
  BY <1>4, <1>6, <1>7
<1> QED
  BY <1>8 DEF Free

\* What is said of the rows says nothing of where the process is.
LEMMA RowsStay ==
    ASSUME RowsFit, UNCHANGED <<rows, lines, saved, left>>
    PROVE  RowsFit' /\ \A m : LoadedUpTo(m) => LoadedUpTo(m)'
<1>1. rows' = rows /\ saved' = saved /\ lines' = lines /\ left' = left
  OBVIOUS
<1>2. RowsFit'
  BY <1>1 DEF RowsFit
<1>3. Kept' = Kept
  BY <1>1 DEF Kept, Takes
<1>4. \A i : Placed(i)' = Placed(i)
  BY <1>1 DEF Placed
<1>5. ASSUME NEW m, LoadedUpTo(m) PROVE LoadedUpTo(m)'
  <2>1. \A k \in DOMAIN rows : FromLine(k, m)'
    BY <1>1, <1>5 DEF LoadedUpTo, FromLine
  <2>2. Len(rows') <= m
    BY <1>1, <1>5 DEF LoadedUpTo
  <2>3. \A k \in DOMAIN rows' : FromLine(k, m)'
    BY <1>1, <2>1
  <2>4. \A i \in Kept' : i <= m => Placed(i)' # {}
    BY <1>3, <1>4, <1>5 DEF LoadedUpTo
  <2>5. \A i, j \in Kept' : i < j /\ j <= m => \A k \in Placed(i)', l \in Placed(j)' : k < l
    BY <1>3, <1>4, <1>5 DEF LoadedUpTo
  <2> QED
    BY <2>2, <2>3, <2>4, <2>5 DEF LoadedUpTo
<1> QED
  BY <1>2, <1>5

(* The last save stays as it is, and other rows are there.                     *)
LEMMA OtherRows ==
    ASSUME RowsFit, rows' \in Seq(Rows), DistinctIds(rows'), UNCHANGED <<lines, saved, left>>,
           Len(rows') + left <= Changes
    PROVE  RowsFit' /\ Kept' = Kept
<1>1. RowsFit'
  BY DEF RowsFit, DistinctIds
<1>2. Kept' = Kept
  BY DEF Kept, Takes
<1> QED
  BY <1>1, <1>2

\* No rows are there.
LEMMA NoRows ==
    ASSUME RowsFit, rows' = <<>>, UNCHANGED <<lines, saved, left>>
    PROVE  RowsFit' /\ LoadedUpTo(0)'
<1>1. rows' \in Seq(Rows) /\ DistinctIds(rows') /\ Len(rows') = 0 /\ DOMAIN rows' = {}
  BY DEF DistinctIds
<1>2. Len(rows') + left <= Changes
  <2>1. left \in Nat /\ Len(saved) \in Nat /\ Len(saved) + left <= Changes /\ Changes \in Nat
    BY DataDirAssumption DEF RowsFit
  <2> QED
    BY <1>1, <2>1
<1>3. RowsFit' /\ Kept' = Kept
  BY <1>1, <1>2, OtherRows
<1>4. \A i \in Kept' : i \in Nat /\ i > 0
  <2>1. Kept' \subseteq 1 .. Len(saved)
    BY <1>3 DEF RowsFit, Kept
  <2> QED
    BY <2>1
<1>5. LoadedUpTo(0)'
  <2>1. Len(rows') <= 0 /\ \A k \in DOMAIN rows' : FromLine(k, 0)'
    BY <1>1
  <2>2. \A i \in Kept' : ~(i <= 0)
    BY <1>4
  <2> QED
    BY <2>1, <2>2 DEF LoadedUpTo
<1> QED
  BY <1>3, <1>5

(* No row has the id of an expansion that is to be there again before its line *)
(* is loaded.                                                                  *)
LEMMA IdIsFree ==
    ASSUME RowsFit, NEW m \in 0 .. Len(saved) - 1, LoadedUpTo(m), m + 1 \in Kept,
           NEW k \in DOMAIN rows
    PROVE  rows[k].id # saved[m + 1].id
<1> SUFFICES ASSUME rows[k].id = saved[m + 1].id PROVE FALSE
  OBVIOUS
<1>1. PICK j \in 1 .. m : Readable(Written(saved[j])) /\ rows[k] = RowOf(Written(saved[j]))
  BY DEF LoadedUpTo, FromLine
<1>2. /\ Len(saved) \in Nat /\ DOMAIN saved = 1 .. Len(saved)
      /\ \A i \in 1 .. Len(saved) : saved[i] \in Rows
  BY LinesAre
<1>3. j \in DOMAIN saved /\ m + 1 \in DOMAIN saved /\ j < m + 1 /\ saved[j] \in Rows
  BY <1>1, <1>2
<1>4. CASE Plain(saved[j])
  <2>1. rows[k] = saved[j]
    BY <1>1, <1>3, <1>4, PlainIsRead
  <2>2. saved[j].id = saved[m + 1].id
    BY <2>1
  <2>3. j = m + 1
    BY <1>3, <2>2 DEF RowsFit, DistinctIds
  <2> QED
    BY <1>3, <2>3
<1>5. CASE ~Plain(saved[j])
  <2>1. Takes(j, m + 1)
    BY <1>1, <1>3, <1>5 DEF Takes
  <2> QED
    BY <1>3, <2>1 DEF Kept
<1> QED
  BY <1>4, <1>5

(* One more line is loaded.                                                    *)
LEMMA LineLoads ==
    ASSUME RowsFit, NEW m \in 0 .. Len(saved) - 1, LoadedUpTo(m),
           Readable(Written(saved[m + 1])), rows' = Inserted(RowOf(Written(saved[m + 1]))),
           UNCHANGED <<lines, saved, left>>
    PROVE  RowsFit' /\ LoadedUpTo(m + 1)'
<1> DEFINE row == RowOf(Written(saved[m + 1]))
           taken == \E i \in DOMAIN rows : rows[i].id = row.id
<1>1. /\ Len(saved) \in Nat /\ DOMAIN saved = 1 .. Len(saved)
      /\ \A i \in 1 .. Len(saved) : saved[i] \in Rows /\ Written(saved[i]) \in Seq(Chars)
  BY LinesAre, WrittenIs
<1>2. m \in Nat /\ m + 1 \in 1 .. Len(saved) /\ m + 1 \in Nat
  BY <1>1
<1>3. row \in Rows
  BY <1>1, <1>2, ReadIsRow
<1>4. rows \in Seq(Rows) /\ Len(rows) \in Nat /\ DOMAIN rows = 1 .. Len(rows) /\ Len(rows) <= m
  BY DEF RowsFit, LoadedUpTo
<1>5. m + 1 \in Kept => row = saved[m + 1] /\ ~taken
  <2> SUFFICES ASSUME m + 1 \in Kept PROVE row = saved[m + 1] /\ ~taken
    OBVIOUS
  <2>1. row = saved[m + 1]
    BY <1>1, <1>2, PlainIsRead DEF Kept
  <2>2. \A k \in DOMAIN rows : rows[k].id # saved[m + 1].id
    BY IdIsFree
  <2> QED
    BY <2>1, <2>2
<1>6. Kept \subseteq 1 .. Len(saved)
  BY <1>1 DEF Kept
<1>7. \A i \in Kept : i <= m + 1 => i <= m \/ i = m + 1
  BY <1>1, <1>2, <1>6
<1>8. /\ \A k \in DOMAIN rows : FromLine(k, m)
      /\ \A i \in Kept : i <= m => Placed(i) # {}
      /\ \A i, j \in Kept : i < j /\ j <= m => \A k \in Placed(i), l \in Placed(j) : k < l
  BY DEF LoadedUpTo
<1>9. CASE taken
  <2>1. rows' = rows
    BY <1>9 DEF Inserted
  <2>2. RowsFit' /\ LoadedUpTo(m)'
    BY <2>1, RowsStay
  <2>3. Kept' = Kept /\ \A i : Placed(i)' = Placed(i)
    BY <2>1 DEF Kept, Takes, Placed
  <2>4. Len(rows') <= m + 1
    BY <1>2, <1>4, <2>1
  <2>5. \A k \in DOMAIN rows' : FromLine(k, m + 1)'
    <3> SUFFICES ASSUME NEW k \in DOMAIN rows PROVE FromLine(k, m + 1)'
      BY <2>1
    <3>1. PICK j \in 1 .. m : Readable(Written(saved[j])) /\ rows[k] = RowOf(Written(saved[j]))
      BY <1>8 DEF FromLine
    <3>2. j \in 1 .. m + 1
      BY <1>2
    <3> QED
      BY <2>1, <3>1, <3>2 DEF FromLine
  <2>6. \A i \in Kept : i <= m + 1 => i <= m
    BY <1>5, <1>7, <1>9
  <2>7. LoadedUpTo(m + 1)'
    BY <1>8, <2>3, <2>4, <2>5, <2>6 DEF LoadedUpTo
  <2> QED
    BY <2>2, <2>7
<1>10. CASE ~taken
  <2> DEFINE N == Len(rows)
  <2>1. rows' = Append(rows, row)
    BY <1>10 DEF Inserted
  <2>2. /\ rows' \in Seq(Rows) /\ Len(rows') = N + 1 /\ DOMAIN rows' = 1 .. N + 1
        /\ \A k \in 1 .. N : rows'[k] = rows[k]
        /\ rows'[N + 1] = row
    <3> HIDE DEF row
    <3> QED
      BY <1>3, <1>4, <2>1
  <2>3. \A k \in 1 .. N : rows[k].id # row.id
    BY <1>4, <1>10
  <2>4. DistinctIds(rows)
    BY DEF RowsFit
  <2> HIDE DEF row, taken, N
  <2>5. N \in Nat /\ DOMAIN rows = 1 .. N /\ N <= m
    BY <1>4 DEF N
  <2>6. \A k \in DOMAIN rows' : k \in 1 .. N \/ k = N + 1
    BY <2>2, <2>5
  <2>7. DistinctIds(rows')
    <3> SUFFICES ASSUME NEW k \in DOMAIN rows', NEW l \in DOMAIN rows', rows'[k].id = rows'[l].id
                 PROVE  k = l
      BY DEF DistinctIds
    <3>1. k \in 1 .. N /\ l \in 1 .. N => k = l
      BY <2>2, <2>4, <2>5 DEF DistinctIds
    <3>2. k \in 1 .. N /\ l = N + 1 => FALSE
      BY <2>2, <2>3
    <3>3. k = N + 1 /\ l \in 1 .. N => FALSE
      BY <2>2, <2>3
    <3> QED
      BY <2>6, <3>1, <3>2, <3>3
  <2>8. Len(rows') + left <= Changes
    <3>1. left \in Nat /\ Len(saved) + left <= Changes /\ Changes \in Nat
      BY DataDirAssumption DEF RowsFit
    <3> QED
      BY <1>1, <1>2, <2>2, <2>5, <3>1
  <2>9. RowsFit' /\ Kept' = Kept
    BY <2>2, <2>7, <2>8, OtherRows
  <2>10. Len(rows') <= m + 1
    BY <1>2, <2>2, <2>5
  <2>11. \A k \in DOMAIN rows' : FromLine(k, m + 1)'
    <3> SUFFICES ASSUME NEW k \in DOMAIN rows' PROVE FromLine(k, m + 1)'
      OBVIOUS
    <3>1. CASE k \in 1 .. N
      <4>1. PICK j \in 1 .. m : /\ Readable(Written(saved[j]))
                                /\ rows[k] = RowOf(Written(saved[j]))
        BY <1>8, <2>5, <3>1 DEF FromLine
      <4>2. j \in 1 .. m + 1
        BY <1>2
      <4> QED
        BY <2>2, <3>1, <4>1, <4>2 DEF FromLine
    <3>2. CASE k = N + 1
      <4>1. m + 1 \in 1 .. m + 1
        BY <1>2
      <4> QED
        BY <2>2, <3>2, <4>1 DEF FromLine, row
    <3> QED
      BY <2>6, <3>1, <3>2
  <2>12. \A i \in Kept : Placed(i) \subseteq Placed(i)'
    BY <2>2, <2>5 DEF Placed
  <2>13. m + 1 \in Kept => Placed(m + 1)' = {N + 1}
    <3> SUFFICES ASSUME m + 1 \in Kept PROVE Placed(m + 1)' = {N + 1}
      OBVIOUS
    <3>1. rows'[N + 1] = saved'[m + 1] /\ N + 1 \in DOMAIN rows'
      BY <1>5, <2>2, <2>5
    <3>2. ASSUME NEW k \in DOMAIN rows', rows'[k] = saved'[m + 1] PROVE k = N + 1
      BY <2>7, <3>1, <3>2 DEF DistinctIds
    <3> QED
      BY <3>1, <3>2 DEF Placed
  <2>14. ASSUME NEW i \in Kept, i <= m PROVE Placed(i)' = Placed(i)
    <3>1. PICK k \in DOMAIN rows : rows[k] = saved[i]
      BY <1>8, <2>14 DEF Placed
    <3>2. rows'[k] = saved[i] /\ k \in 1 .. N
      BY <2>2, <2>5, <3>1
    <3>3. rows'[N + 1] # saved[i]
      BY <2>2, <2>3, <2>5, <3>1, <3>2
    <3>4. \A l \in DOMAIN rows' : rows'[l] = saved'[i] <=> (l \in 1 .. N /\ rows[l] = saved[i])
      BY <2>2, <2>6, <3>3
    <3>5. 1 .. N \subseteq DOMAIN rows'
      BY <2>2, <2>5
    <3> QED
      BY <2>5, <3>4, <3>5 DEF Placed
  <2>15. \A i \in Kept : i <= m + 1 => Placed(i)' # {}
    BY <1>7, <1>8, <2>13, <2>14
  <2>16. ASSUME NEW i \in Kept, NEW j \in Kept, i < j, j <= m + 1,
                NEW k \in Placed(i)', NEW l \in Placed(j)'
         PROVE  k < l
    <3>1. i \in Nat /\ j \in Nat /\ i <= m
      BY <1>2, <1>6, <2>16
    <3>2. k \in Placed(i)
      BY <2>14, <2>16, <3>1
    <3>3. CASE j <= m
      BY <1>8, <2>14, <2>16, <3>2, <3>3
    <3>4. CASE j = m + 1
      <4>1. l = N + 1
        BY <2>13, <2>16, <3>4
      <4>2. k \in 1 .. N
        BY <2>5, <3>2 DEF Placed
      <4> QED
        BY <2>5, <4>1, <4>2
    <3> QED
      BY <1>7, <2>16, <3>3, <3>4
  <2>17. LoadedUpTo(m + 1)'
    BY <2>9, <2>10, <2>11, <2>15, <2>16 DEF LoadedUpTo
  <2> QED
    BY <2>9, <2>17
<1> QED
  BY <1>9, <1>10

\* A step that leaves the rows, and goes nowhere where something is said of them
LEMMA RowsLeft ==
    ASSUME LinesInv, UNCHANGED <<rows, lines, saved>>, left' \in Nat, left' <= left,
           at' \notin {"inserting", "loaded", "crashed"}
    PROVE  LinesInv'
<1>1. RowsFit'
  <2>1. /\ Len(rows) \in Nat /\ Len(saved) \in Nat /\ left \in Nat /\ Changes \in Nat
        /\ Len(rows) + left <= Changes /\ Len(saved) + left <= Changes
    BY DataDirAssumption DEF LinesInv, RowsFit
  <2>2. Len(rows) + left' <= Changes /\ Len(saved) + left' <= Changes
    BY <2>1
  <2> QED
    BY <2>2 DEF LinesInv, RowsFit, DistinctIds
<1> QED
  BY <1>1 DEF LinesInv

(* A request changes the list of the expansions and saves it.                  *)
LEMMA ListChanges ==
    ASSUME LinesInv, NEW list \in Seq(Rows), DistinctIds(list), Len(list) <= Len(rows) + 1,
           Changed(list)
    PROVE  LinesInv'
<1>1. /\ rows' = list /\ saved' = list /\ lines' = [i \in DOMAIN list |-> Written(list[i])]
      /\ left > 0 /\ left' = left - 1 /\ at' = "changed"
  BY DEF Changed
<1>2. /\ left \in Nat /\ Len(rows) + left <= Changes /\ Len(rows) \in Nat /\ Changes \in Nat
      /\ Len(list) \in Nat
  BY DataDirAssumption DEF LinesInv, RowsFit
<1>3. left' \in Nat /\ Len(list) + left' <= Changes
  BY <1>1, <1>2
<1>4. RowsFit'
  BY <1>1, <1>3 DEF RowsFit, DistinctIds
<1> QED
  BY <1>1, <1>4 DEF LinesInv

\* What the user adds is an expansion that can be written.
LEMMA AddedFits ==
    ASSUME RowsFit, left > 0, NEW match \in Texts, NEW expand \in Texts
    PROVE  [match |-> match, expand |-> expand, id |-> FreeId, enabled |-> TRUE] \in Rows
<1>1. Texts \subseteq Seq(Chars)
  <2> DEFINE S == STRING
  <2>1. S \subseteq Chars /\ Texts \subseteq Seq(S)
    BY DataDirAssumption DEF Chars
  <2> HIDE DEF S
  <2>2. ASSUME NEW t \in Seq(S) PROVE t \in Seq(Chars)
    <3>1. Len(t) \in Nat /\ t = [i \in 1 .. Len(t) |-> t[i]]
      OBVIOUS
    <3>2. \A i \in 1 .. Len(t) : t[i] \in S
      BY ElementOfSeq
    <3>3. \A i \in 1 .. Len(t) : t[i] \in Chars
      BY <2>1, <3>2
    <3> QED
      BY <3>1, <3>3
  <2> QED
    BY <2>1, <2>2
<1>2. FreeId \in 0 .. Len(rows) /\ Len(rows) \in Nat
  BY FreeIdIs DEF RowsFit
<1>3. FreeId \in 0 .. Changes /\ FreeId < Changes /\ FreeId \in Int
  <2>1. left \in Nat /\ Len(rows) + left <= Changes /\ Changes \in Nat
    BY DataDirAssumption DEF RowsFit
  <2> QED
    BY <1>2, <2>1
<1>4. \E w \in Numbers : NumberOf[w] = FreeId
  BY <1>3, DataDirAssumption
<1>5. FreeId \in Ids
  BY <1>3, <1>4 DEF Ids
<1> QED
  BY <1>1, <1>5 DEF Rows

\* A list stays one of expansions with ids of their own when one is taken out.
LEMMA TakenOut ==
    ASSUME NEW list \in Seq(Rows), DistinctIds(list), NEW i \in DOMAIN list
    PROVE  /\ RemoveAt(list, i) \in Seq(Rows) /\ DistinctIds(RemoveAt(list, i))
           /\ Len(RemoveAt(list, i)) <= Len(list)
<1> DEFINE N == Len(list)
           first == SubSeq(list, 1, i - 1)
           second == SubSeq(list, i + 1, N)
           new == first \o second
           place(k) == IF k < i THEN k ELSE k + 1
<1>1. N \in Nat /\ i \in 1 .. N /\ DOMAIN list = 1 .. N
  OBVIOUS
<1>2. /\ first \in Seq(Rows) /\ Len(first) = i - 1
      /\ \A k \in 1 .. i - 1 : first[k] = list[k]
  BY <1>1
<1>3. /\ second \in Seq(Rows) /\ Len(second) = N - i
      /\ \A k \in 1 .. N - i : second[k] = list[i + k]
  BY <1>1
<1>4. RemoveAt(list, i) = new
  BY DEF RemoveAt
<1> HIDE DEF first, second
<1>5. /\ new \in Seq(Rows) /\ Len(new) = N - 1
      /\ \A k \in 1 .. N - 1 : new[k] = IF k <= i - 1 THEN first[k] ELSE second[k - (i - 1)]
  <2>1. Len(first) + Len(second) = N - 1
    BY <1>1, <1>2, <1>3
  <2>2. first \in Seq(Rows) /\ second \in Seq(Rows)
    BY <1>2, <1>3
  <2>3. /\ new \in Seq(Rows) /\ Len(new) = Len(first) + Len(second)
        /\ \A k \in 1 .. Len(first) + Len(second) :
             new[k] = IF k <= Len(first) THEN first[k] ELSE second[k - Len(first)]
    BY <2>2, ConcatProperties
  <2> HIDE DEF new
  <2> QED
    BY <1>2, <2>1, <2>3
<1>6. ASSUME NEW k \in 1 .. N - 1 PROVE place(k) \in 1 .. N /\ new[k] = list[place(k)]
  <2>1. CASE k < i
    <3>1. k \in 1 .. i - 1 /\ k \in 1 .. N /\ place(k) = k
      BY <1>1, <2>1
    <3>2. new[k] = first[k]
      BY <1>1, <1>5, <3>1
    <3> QED
      BY <1>2, <3>1, <3>2
  <2>2. CASE ~(k < i)
    <3> DEFINE n == k - (i - 1)
    <3>1. /\ n \in 1 .. N - i /\ k = (i - 1) + n /\ k + 1 = i + n /\ k + 1 \in 1 .. N
          /\ place(k) = k + 1 /\ k > i - 1
      BY <1>1, <2>2
    <3>2. new[k] = second[n]
      BY <1>1, <1>5, <3>1
    <3> QED
      BY <1>3, <3>1, <3>2
  <2> QED
    BY <2>1, <2>2
<1>7. \A k, l \in 1 .. N - 1 : place(k) = place(l) => k = l
  BY <1>1
<1> HIDE DEF new, place
<1>8. DistinctIds(new)
  <2> SUFFICES ASSUME NEW k \in DOMAIN new, NEW l \in DOMAIN new, new[k].id = new[l].id
               PROVE  k = l
    BY DEF DistinctIds
  <2>1. k \in 1 .. N - 1 /\ l \in 1 .. N - 1
    BY <1>5
  <2>2. list[place(k)].id = list[place(l)].id /\ place(k) \in 1 .. N /\ place(l) \in 1 .. N
    BY <1>6, <2>1
  <2>3. place(k) = place(l)
    BY <1>1, <2>2 DEF DistinctIds
  <2> QED
    BY <1>7, <2>1, <2>3
<1> QED
  BY <1>1, <1>4, <1>5, <1>8

\* A quote in one of two texts is in both together.
LEMMA QuoteIn ==
    ASSUME NEW a \in Seq(Chars), NEW b \in Seq(Chars),
           \/ \E i \in 1 .. Len(a) : a[i] = Quote
           \/ \E i \in 1 .. Len(b) : b[i] = Quote
    PROVE  Contains(a \o b, Quote)
<1> DEFINE both == a \o b
<1>1. Len(a) \in Nat /\ Len(b) \in Nat
  OBVIOUS
<1>2. /\ both \in Seq(Chars) /\ Len(both) = Len(a) + Len(b)
      /\ \A i \in 1 .. Len(a) + Len(b) :
           both[i] = IF i <= Len(a) THEN a[i] ELSE b[i - Len(a)]
  BY ConcatProperties
<1> HIDE DEF both
<1>3. \A i \in 1 .. Len(a) : i \in 1 .. Len(both) /\ both[i] = a[i]
  BY <1>1, <1>2
<1>4. ASSUME NEW i \in 1 .. Len(b) PROVE Len(a) + i \in 1 .. Len(both) /\ both[Len(a) + i] = b[i]
  <2>1. /\ Len(a) + i \in 1 .. Len(a) + Len(b) /\ ~(Len(a) + i <= Len(a))
        /\ (Len(a) + i) - Len(a) = i
    BY <1>1
  <2> QED
    BY <1>2, <2>1
<1>5. \E i \in 1 .. Len(both) : both[i] = Quote
  BY <1>3, <1>4
<1> QED
  BY <1>5 DEF Contains, both

(* Every step keeps the invariant.  A start begins with no rows and the first  *)
(* line, and takes the lines one by one; a line it cannot take has a quote.    *)
LEMMA LinesStep == LinesInv /\ [Next]_vars => LinesInv'
<1> SUFFICES ASSUME LinesInv, [Next]_vars PROVE LinesInv'
  OBVIOUS
<1>0. /\ RowsFit /\ rows \in Seq(Rows) /\ saved \in Seq(Rows) /\ left \in Nat
      /\ DistinctIds(rows) /\ DistinctIds(saved)
  BY DEF LinesInv, RowsFit
<1>1. ASSUME NEW v \in Versions, Install(v) PROVE LinesInv'
  BY <1>0, <1>1, RowsLeft DEF Install, rowsSide
<1>2. ASSUME NEW s \in Settings, NEW value \in Valid[s] \cup {Invalid, Missing}, Edit(s, value)
      PROVE  LinesInv'
  <2>1. UNCHANGED <<rows, lines, saved>> /\ at' = "off" /\ left > 0 /\ left' = left - 1
    BY <1>2 DEF Edit, rowsSide
  <2>2. left' \in Nat /\ left' <= left
    BY <1>0, <2>1
  <2> QED
    BY <2>1, <2>2, RowsLeft
<1>3. CASE CreateSettings \/ LoadSettings \/ SaveSettings
  <2>1. UNCHANGED <<rows, lines, saved, left>> /\ at' \in {"creating", "loading", "rewriting"}
    BY <1>3 DEF CreateSettings, LoadSettings, SaveSettings, Goes, rowsSide
  <2> QED
    BY <1>0, <2>1, RowsLeft
<1>4. CASE OpenLines
  <2>1. /\ at' = "inserting" /\ todo' = lines /\ rows' = <<>>
        /\ UNCHANGED <<lines, saved, left>>
    BY <1>4 DEF OpenLines, Goes
  <2>2. RowsFit' /\ LoadedUpTo(0)'
    BY <1>0, <2>1, NoRows
  <2>3. todo' = SubSeq(lines', 0 + 1, Len(lines')) /\ 0 \in 0 .. Len(saved')
    BY <1>0, <2>1, LinesAre
  <2> QED
    BY <2>1, <2>2, <2>3 DEF LinesInv
<1>5. CASE LoadLine
  <2>1. at = "inserting" /\ todo # <<>> /\ UNCHANGED <<lines, saved, left>>
    BY <1>5 DEF LoadLine
  <2>2. PICK m \in 0 .. Len(saved) : todo = SubSeq(lines, m + 1, Len(lines)) /\ LoadedUpTo(m)
    BY <2>1 DEF LinesInv
  <2>3. /\ lines \in Seq(Seq(Chars)) /\ Len(lines) = Len(saved) /\ Len(saved) \in Nat
        /\ DOMAIN saved = 1 .. Len(saved)
        /\ \A i \in 1 .. Len(saved) : saved[i] \in Rows /\ lines[i] = Written(saved[i])
    BY <1>0, LinesAre
  <2>4. m \in 0 .. Len(saved) - 1 /\ m + 1 \in 1 .. Len(saved) /\ m + 1 \in 0 .. Len(saved)
    BY <2>1, <2>2, <2>3
  <2>5. /\ Head(todo) = Written(saved[m + 1])
        /\ Tail(todo) = SubSeq(lines, (m + 1) + 1, Len(lines))
    <3>1. Head(todo) = lines[m + 1] /\ Tail(todo) = SubSeq(lines, (m + 1) + 1, Len(lines))
      BY <2>2, <2>3, <2>4
    <3> QED
      BY <2>3, <2>4, <3>1
  <2>6. CASE Readable(Head(todo))
    <3>1. /\ rows' = Inserted(RowOf(Written(saved[m + 1]))) /\ todo' = Tail(todo)
          /\ at' = "inserting" /\ Readable(Written(saved[m + 1]))
      BY <1>5, <2>1, <2>5, <2>6 DEF LoadLine
    <3>2. RowsFit' /\ LoadedUpTo(m + 1)'
      BY <1>0, <2>1, <2>2, <2>4, <3>1, LineLoads
    <3>3. todo' = SubSeq(lines', (m + 1) + 1, Len(lines')) /\ m + 1 \in 0 .. Len(saved')
      BY <2>1, <2>4, <2>5, <3>1
    <3> QED
      BY <3>1, <3>2, <3>3 DEF LinesInv
  <2>7. CASE ~Readable(Head(todo))
    <3>1. at' = "crashed" /\ UNCHANGED rows /\ ~Readable(Written(saved[m + 1]))
      BY <1>5, <2>5, <2>7 DEF LoadLine
    <3> DEFINE row == saved[m + 1]
    <3>2. row \in Rows /\ row.match \in Seq(Chars) /\ row.expand \in Seq(Chars)
      BY <2>3, <2>4 DEF Rows
    <3>3. \/ \E i \in 1 .. Len(row.match) : row.match[i] = Quote
          \/ \E i \in 1 .. Len(row.expand) : row.expand[i] = Quote
      BY <3>1, <3>2, WrittenQuoteFree, QuoteFreeReadable
    <3>4. Contains(row.match \o row.expand, Quote)
      BY <3>2, <3>3, QuoteIn
    <3>5. RowsFit'
      BY <1>0, <2>1, <3>1, RowsStay
    <3> QED
      BY <2>1, <2>3, <2>4, <3>1, <3>4, <3>5 DEF LinesInv
  <2> QED
    BY <2>6, <2>7
<1>6. CASE Loaded
  <2>1. /\ at = "inserting" /\ at' = "loaded" /\ todo = <<>>
        /\ UNCHANGED <<rows, lines, saved, left>>
    BY <1>6 DEF Loaded, Goes, rowsSide
  <2>2. PICK m \in 0 .. Len(saved) : todo = SubSeq(lines, m + 1, Len(lines)) /\ LoadedUpTo(m)
    BY <2>1 DEF LinesInv
  <2>3. m = Len(saved)
    <3>1. lines \in Seq(Seq(Chars)) /\ Len(lines) = Len(saved) /\ Len(saved) \in Nat
      BY <1>0, LinesAre
    <3>2. Len(todo) = 0
      BY <2>1
    <3>3. m < Len(lines) => Len(todo) = Len(lines) - m
      BY <2>2, <3>1
    <3> QED
      BY <3>1, <3>2, <3>3
  <2>4. RowsFit' /\ LoadedUpTo(m)'
    BY <1>0, <2>1, <2>2, RowsStay
  <2> QED
    BY <2>1, <2>3, <2>4 DEF LinesInv
<1>7. ASSUME NEW match \in Texts, NEW expand \in Texts, Add(match, expand) PROVE LinesInv'
  <2> DEFINE new == [match |-> match, expand |-> expand, id |-> FreeId, enabled |-> TRUE]
  <2>1. Changed(Append(rows, new)) /\ left > 0
    BY <1>7 DEF Add, Changed
  <2>2. new \in Rows
    BY <1>0, <2>1, AddedFits
  <2>3. new.id = FreeId /\ \A i \in DOMAIN rows : rows[i].id # FreeId
    BY <1>0, FreeIdIs
  <2> HIDE DEF new
  <2>4. /\ Append(rows, new) \in Seq(Rows) /\ Len(Append(rows, new)) = Len(rows) + 1
        /\ Len(rows) \in Nat /\ DOMAIN rows = 1 .. Len(rows)
        /\ DOMAIN Append(rows, new) = 1 .. Len(rows) + 1
        /\ \A i \in 1 .. Len(rows) : Append(rows, new)[i] = rows[i]
        /\ Append(rows, new)[Len(rows) + 1] = new
    BY <1>0, <2>2
  <2> DEFINE list == Append(rows, new)
  <2> HIDE DEF list
  <2>5. DistinctIds(list)
    <3> SUFFICES ASSUME NEW k \in DOMAIN list, NEW l \in DOMAIN list, list[k].id = list[l].id
                 PROVE  k = l
      BY DEF DistinctIds
    <3>1. \A i \in DOMAIN list : \/ i \in DOMAIN rows /\ list[i] = rows[i]
                                 \/ i = Len(rows) + 1 /\ list[i] = new
      BY <2>4 DEF list
    <3>2. CASE k \in DOMAIN rows /\ list[k] = rows[k] /\ l \in DOMAIN rows /\ list[l] = rows[l]
      BY <1>0, <3>2 DEF DistinctIds
    <3>3. CASE k \in DOMAIN rows /\ list[k] = rows[k] /\ list[l] = new
      BY <2>3, <3>3
    <3>4. CASE l \in DOMAIN rows /\ list[l] = rows[l] /\ list[k] = new
      BY <2>3, <3>4
    <3>5. CASE k = Len(rows) + 1 /\ l = Len(rows) + 1
      BY <3>5
    <3> QED
      BY <3>1, <3>2, <3>3, <3>4, <3>5
  <2>6. list \in Seq(Rows) /\ Len(list) <= Len(rows) + 1 /\ Changed(list)
    BY <2>1, <2>4 DEF list
  <2> QED
    BY <2>5, <2>6, ListChanges
<1>8. ASSUME NEW i \in DOMAIN rows, RemoveRow(i) PROVE LinesInv'
  <2> DEFINE list == RemoveAt(rows, i)
  <2>1. Changed(list)
    BY <1>8 DEF RemoveRow
  <2>2. list \in Seq(Rows) /\ DistinctIds(list) /\ Len(list) <= Len(rows)
    BY <1>0, TakenOut
  <2> HIDE DEF list
  <2>3. Len(list) <= Len(rows) + 1
    BY <1>0, <2>2
  <2> QED
    BY <2>1, <2>2, <2>3, ListChanges
<1>9. ASSUME NEW i \in DOMAIN rows, Disable(i) PROVE LinesInv'
  <2> DEFINE list == [rows EXCEPT ![i].enabled = FALSE]
             new == [rows[i] EXCEPT !.enabled = FALSE]
  <2>1. Changed(list)
    BY <1>9 DEF Disable
  <2>2. new \in Rows /\ new.id = rows[i].id
    <3>1. rows[i] \in Rows
      BY <1>0
    <3>2. \A r \in Rows : [r EXCEPT !.enabled = FALSE] \in Rows
      BY DEF Rows
    <3>3. \A r \in Rows : [r EXCEPT !.enabled = FALSE].id = r.id
      BY DEF Rows
    <3> QED
      BY <3>1, <3>2, <3>3
  <2>3. list = [rows EXCEPT ![i] = new]
    OBVIOUS
  <2> HIDE DEF list, new
  <2>4. /\ list \in Seq(Rows) /\ Len(list) = Len(rows) /\ DOMAIN list = DOMAIN rows
        /\ \A k \in DOMAIN rows : list[k] = IF k = i THEN new ELSE rows[k]
    BY <1>0, <2>2, <2>3, ExceptSeq
  <2>5. \A k \in DOMAIN rows : list[k].id = rows[k].id
    BY <2>2, <2>4
  <2>6. DistinctIds(list)
    BY <1>0, <2>4, <2>5 DEF DistinctIds
  <2>7. Len(list) <= Len(rows) + 1
    BY <1>0, <2>4
  <2> QED
    BY <2>1, <2>4, <2>6, <2>7, ListChanges
<1>10. CASE Exit
  <2>1. /\ at' = "off" /\ saved' = rows /\ lines' = [i \in DOMAIN rows |-> Written(rows[i])]
        /\ rows' = <<>> /\ left' = left
    BY <1>10 DEF Exit
  <2>2. /\ Len(rows) \in Nat /\ Len(rows) + left <= Changes /\ Changes \in Nat
    BY <1>0, DataDirAssumption DEF RowsFit
  <2>3. Len(rows') = 0 /\ rows' \in Seq(Rows) /\ DistinctIds(rows')
    BY <2>1 DEF DistinctIds
  <2>4. Len(rows') + left' <= Changes
    BY <1>0, <2>1, <2>2, <2>3
  <2>5. RowsFit'
    BY <1>0, <2>1, <2>2, <2>3, <2>4 DEF RowsFit, DistinctIds
  <2> QED
    BY <2>1, <2>5 DEF LinesInv
<1>11. CASE Kill
  <2>1. at' = "off" /\ rows' = <<>> /\ UNCHANGED <<lines, saved, left>>
    BY <1>11 DEF Kill
  <2>2. RowsFit'
    BY <1>0, <2>1, NoRows
  <2> QED
    BY <2>1, <2>2 DEF LinesInv
<1>12. CASE UNCHANGED vars
  <2>1. UNCHANGED <<at, todo, rows, lines, saved, left>>
    BY <1>12 DEF vars
  <2>2. RowsFit' /\ \A m : LoadedUpTo(m) => LoadedUpTo(m)'
    BY <1>0, <2>1, RowsStay
  <2>3. at' = "inserting" =>
          \E m \in 0 .. Len(saved') : /\ todo' = SubSeq(lines', m + 1, Len(lines'))
                                      /\ LoadedUpTo(m)'
    BY <2>1, <2>2 DEF LinesInv
  <2>4. at' = "loaded" => LoadedUpTo(Len(saved))'
    <3> SUFFICES ASSUME at' = "loaded" PROVE LoadedUpTo(Len(saved))'
      OBVIOUS
    <3>1. PICK m : m = Len(saved) /\ LoadedUpTo(m)
      BY <2>1 DEF LinesInv
    <3>2. LoadedUpTo(m)' /\ m = Len(saved')
      BY <2>1, <2>2, <3>1
    <3> QED
      BY <3>2
  <2>5. at' = "crashed" =>
          \E i \in DOMAIN saved' : Contains(saved'[i].match \o saved'[i].expand, Quote)
    BY <2>1 DEF LinesInv
  <2> QED
    BY <2>2, <2>3, <2>4, <2>5 DEF LinesInv
<1> QED
  BY <1>1, <1>2, <1>3, <1>4, <1>5, <1>6, <1>7, <1>8, <1>9, <1>10, <1>11, <1>12 DEF Next

(* The damage that an unescaped comma or quote does stays in its line, through *)
(* any requests, runs and kills (data_io_expandtexts_as_csv, csv_next_field,   *)
(* data_sql_row_from_csv, __load_csv_table).                                   *)
THEOREM PlainRowsStay == Spec => []PlainRowsSurvive
<1>1. Init => LinesInv
  <2> SUFFICES ASSUME Init PROVE LinesInv
    OBVIOUS
  <2>1. /\ at = "off" /\ lines = <<>> /\ rows = <<>> /\ saved = <<>> /\ left = Changes
        /\ Changes \in Nat
    BY DataDirAssumption DEF Init
  <2>2. RowsFit
    BY <2>1 DEF RowsFit, DistinctIds
  <2> QED
    BY <2>1, <2>2 DEF LinesInv
<1>2. LinesInv => PlainRowsSurvive
  <2> SUFFICES ASSUME LinesInv PROVE PlainRowsSurvive
    OBVIOUS
  <2>1. at = "loaded" => /\ \A i \in Kept : Placed(i) # {}
                         /\ \A i, j \in Kept : i < j =>
                              \A k \in Placed(i), l \in Placed(j) : k < l
    <3>1. Kept \subseteq 1 .. Len(saved) /\ Len(saved) \in Nat
      BY DEF LinesInv, RowsFit, Kept
    <3>2. \A i \in Kept : i <= Len(saved)
      BY <3>1
    <3> QED
      BY <3>2 DEF LinesInv, LoadedUpTo
  <2>2. at = "crashed" => \E i \in DOMAIN saved : Contains(saved[i].match \o saved[i].expand, Quote)
    BY DEF LinesInv
  <2> QED
    BY <2>1, <2>2 DEF PlainRowsSurvive, Kept, Placed
<1> QED
  BY <1>1, <1>2, LinesStep, PTL DEF Spec
=============================================================================
