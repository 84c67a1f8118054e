---------------------------- MODULE StoreProofs ----------------------------
(***************************************************************************)
(* Proofs about Store, for any texts, groups, ids, limits and save files.  *)
(* The inductive invariant is StoreInv: types, every row backed by its own *)
(* cell, cells written without a gap, and at most len live cells.  At the  *)
(* end Store is shown to implement Catalog.                                *)
(***************************************************************************)
EXTENDS Store, FunctionTheorems, FiniteSetTheorems, WellFoundedInduction, TLAPS

\* No more cells are live than exptext_len says.
LiveCounted == Cardinality(LiveCells) <= len

\* The parts of TypeOK and RowsBacked that only the array and the table decide
ArrayOK ==
    /\ cap \in Nat /\ cap > 0 /\ len \in Nat
    /\ slots \in [0 .. cap - 1 -> Slot]
    /\ rows \subseteq Row /\ IsFiniteSet(rows)

Backed ==
    \A r \in rows :
        /\ r.index \in 0 .. cap - 1
        /\ slots[r.index] = Object(r.match, r.expand)
        /\ \A s \in rows : s.index = r.index => s = r

TablesOK == ArrayOK /\ Backed /\ NoGap /\ LiveCounted

StoreInv == TypeOK /\ RowsBacked /\ NoGap /\ LiveCounted

-----------------------------------------------------------------------------
(* Smallest picks the least element of a nonempty set of naturals.           *)
LEMMA SmallestIsLeast ==
    ASSUME NEW S \in SUBSET Nat, S # {}
    PROVE  Smallest(S) \in S /\ \A j \in S : Smallest(S) <= j
<1> DEFINE R == {ss \in Nat \X Nat : ss[1] < ss[2]}
<1>0. IsWellFoundedOn(R, Nat)
  BY NatLessThanWellFounded, Zenon DEF OpToRel
<1>1. PICK x \in S : \A y \in S : ~(<<y, x>> \in R)
  <2> HIDE DEF R
  <2> QED BY <1>0, WFMin
<1>2. \A y \in S : x <= y
  <2>1. ASSUME NEW y \in S, y < x PROVE FALSE
    <3>1. <<y, x>> \in Nat \X Nat /\ <<y, x>>[1] = y /\ <<y, x>>[2] = x
      OBVIOUS
    <3> DEFINE ss == <<y, x>>
    <3>2. ss \in Nat \X Nat /\ ss[1] < ss[2]
      BY <3>1, <2>1
    <3>3. ss \in R
      BY ONLY <3>2, Zenon DEF R
    <3> QED
      BY <3>3, <1>1
  <2> QED
    BY <2>1
<1> QED
  BY <1>2 DEF Smallest

(* data_sql_missing_int: the number it returns is not taken, and every number  *)
(* below it is.                                                                *)
LEMMA MissingIntIsLeast ==
    ASSUME NEW used
    PROVE  /\ MissingInt(used) \in -1 .. Limit - 1
           /\ MissingInt(used) >= 0 => /\ MissingInt(used) \notin used
                                       /\ \A i \in 0 .. MissingInt(used) - 1 : i \in used
<1> DEFINE free == (0 .. Limit - 1) \ used
<1>1. CASE free = {}
  BY <1>1, StoreAssumption DEF MissingInt
<1>2. CASE free # {}
  <2>1. MissingInt(used) = Smallest(free)
    BY <1>2 DEF MissingInt
  <2>2. Smallest(free) \in free /\ \A j \in free : Smallest(free) <= j
    BY <1>2, SmallestIsLeast
  <2>3. Smallest(free) \in 0 .. Limit - 1 /\ Smallest(free) \notin used
    BY <2>2
  <2>4. ASSUME NEW i \in 0 .. Smallest(free) - 1 PROVE i \in used
    BY <2>2, <2>3, StoreAssumption
  <2> HIDE DEF free
  <2> QED
    BY <2>1, <2>3, <2>4, StoreAssumption
<1> QED
  BY <1>1, <1>2

(* SQLite's next rowid is above all others; here it can be one too high.       *)
LEMMA NextRowidIsAbove ==
    ASSUME TypeOK
    PROVE  NextRowid \in 1 .. MaxRowid + 1 /\ \A r \in rows : r.rowid < NextRowid
<1> DEFINE above == {n \in 1 .. MaxRowid + 1 : \A r \in rows : r.rowid < n}
<1>1. \A r \in rows : r.rowid \in 1 .. MaxRowid
  BY DEF TypeOK, Row
<1>2. MaxRowid + 1 \in above
  BY <1>1, StoreAssumption
<1>3. above \in SUBSET Nat
  BY StoreAssumption
<1>4. Smallest(above) \in above
  BY <1>2, <1>3, SmallestIsLeast
<1> QED
  BY <1>4 DEF NextRowid

(* The three kinds of cell are different.                                      *)
LEMMA CellKinds ==
    /\ \A m, e : Object(m, e).state = "live" /\ Object(m, e) # Uninit
    /\ Uninit.state = "uninit" /\ Null.state = "null" /\ Null # Uninit
<1>1. \A m, e : Object(m, e).state = "live"
  BY DEF Object
<1>2. Uninit.state = "uninit" /\ Null.state = "null"
  BY DEF Uninit, Null
<1> QED
  BY <1>1, <1>2, "live" # "uninit", "null" # "uninit"

(* The live cells are finitely many.                                           *)
LEMMA LiveCellsFinite ==
    ASSUME cap \in Nat
    PROVE  IsFiniteSet(LiveCells) /\ Cardinality(LiveCells) \in Nat
<1>1. IsFiniteSet(0 .. cap - 1)
  BY FS_Interval
<1>2. LiveCells \in SUBSET (0 .. cap - 1)
  BY DEF LiveCells
<1> QED
  BY <1>1, <1>2, FS_Subset, FS_CardinalityType

(* One doubling is always enough: the smallest free index is at most one past  *)
(* the rows, whose cells are in the array.                                     *)
LEMMA FreeIndexFits ==
    ASSUME StoreInv, phase # "freed", FreeIndex >= 0
    PROVE  /\ FreeIndex \in 0 .. cap
           /\ \A r \in rows : r.index # FreeIndex
           /\ \A i \in 0 .. FreeIndex - 1 : i < cap /\ slots[i] # Uninit
<1> DEFINE used == {r.index : r \in rows}
<1>1. /\ FreeIndex \in 0 .. Limit - 1
      /\ FreeIndex \notin used
      /\ \A i \in 0 .. FreeIndex - 1 : i \in used
  <2>1. FreeIndex = MissingInt(used)
    BY DEF FreeIndex
  <2> HIDE DEF used
  <2> QED
    BY <2>1, MissingIntIsLeast, StoreAssumption
<1>2. \A r \in rows : r.index \in 0 .. cap - 1 /\ slots[r.index] # Uninit
  BY CellKinds DEF StoreInv, RowsBacked
<1>3. \A i \in used : i \in 0 .. cap - 1 /\ slots[i] # Uninit
  BY <1>2
<1>4. FreeIndex <= cap
  <2>1. CASE FreeIndex = 0
    BY <2>1 DEF StoreInv, TypeOK
  <2>2. CASE FreeIndex > 0
    <3>1. FreeIndex - 1 \in used
      BY <1>1, <2>2, StoreAssumption
    <3>2. FreeIndex - 1 \in 0 .. cap - 1 /\ cap \in Nat
      BY <3>1, <1>3 DEF StoreInv, TypeOK
    <3> QED
      BY <3>2, <1>1, StoreAssumption
  <2> QED
    BY <2>1, <2>2, <1>1, StoreAssumption
<1> QED
  BY <1>1, <1>3, <1>4, StoreAssumption DEF StoreInv, TypeOK

(* Adding an expansion, accepted by SQL or not, keeps the tables in order: the *)
(* new object gets a cell of its own inside the array and next to a written    *)
(* one, and the count covers it.                                               *)
LEMMA AddExpandTextKeepsTables ==
    ASSUME StoreInv, phase # "freed",
           NEW match \in Matches, NEW expand \in Expands, NEW id \in Ids,
           NEW enabled \in BOOLEAN, NEW group \in Groups,
           AddExpandText(match, expand, id, enabled, group)
    PROVE  TablesOK'
<1> DEFINE new == [rowid |-> NextRowid, index |-> FreeIndex, match |-> match,
                   expand |-> expand, id |-> id, enabled |-> enabled, group |-> group]
           object == Object(match, expand)
           at(i) == CASE i = FreeIndex -> object
                      [] i # FreeIndex /\ i < cap -> slots[i]
                      [] OTHER -> Uninit
<1>0. /\ FreeIndex >= 0 /\ NextRowid <= MaxRowid
      /\ cap' = IF FreeIndex >= cap THEN 2 * cap ELSE cap
      /\ slots' = [i \in 0 .. cap' - 1 |-> at(i)]
      /\ len' = len + 1
      /\ rows' = rows \/ rows' = rows \cup {new}
  BY DEF AddExpandText, PlaceObject, InsertRow
<1>1. /\ cap \in Nat /\ cap > 0 /\ len \in Nat
      /\ slots \in [0 .. cap - 1 -> Slot]
      /\ rows \subseteq Row /\ IsFiniteSet(rows)
      /\ Backed /\ NoGap /\ LiveCounted
  BY DEF StoreInv, TypeOK, RowsBacked, Backed
<1>2. /\ FreeIndex \in 0 .. cap
      /\ \A r \in rows : r.index # FreeIndex
      /\ \A i \in 0 .. FreeIndex - 1 : i < cap /\ slots[i] # Uninit
  BY <1>0, FreeIndexFits
<1>3. cap' \in Nat /\ cap' > 0 /\ cap <= cap' /\ FreeIndex \in 0 .. cap' - 1
  BY <1>0, <1>1, <1>2
<1>4. object \in Slot /\ Uninit \in Slot
  BY DEF Slot
<1>5. \A i \in 0 .. cap' - 1 : at(i) \in Slot
  <2> TAKE i \in 0 .. cap' - 1
  <2>1. CASE i = FreeIndex
    BY <2>1, <1>4
  <2>2. CASE i # FreeIndex /\ i < cap
    BY <2>2, <1>1, <1>3
  <2>3. CASE i # FreeIndex /\ ~(i < cap)
    BY <2>3, <1>4
  <2> QED
    BY <2>1, <2>2, <2>3
<1>6. slots' \in [0 .. cap' - 1 -> Slot]
  <2> HIDE DEF at
  <2> QED
    BY <1>0, <1>5
<1>7. new \in Row
  BY <1>0, <1>2, <1>1, NextRowidIsAbove, StoreAssumption DEF StoreInv, Row
<1>8. ArrayOK'
  <2> HIDE DEF new, at
  <2>1. IsFiniteSet(rows')
    BY <1>0, <1>1, FS_AddElement
  <2> QED
    BY <2>1, <1>0, <1>1, <1>3, <1>6, <1>7 DEF ArrayOK
<1>9. /\ slots'[FreeIndex] = object
      /\ \A i \in 0 .. cap - 1 : i # FreeIndex => slots'[i] = slots[i]
      /\ \A i \in 0 .. cap' - 1 : i # FreeIndex /\ slots'[i] # Uninit =>
              i \in 0 .. cap - 1 /\ slots'[i] = slots[i]
  BY <1>0, <1>1, <1>3
<1>10. Backed'
  <2>1. ASSUME NEW r \in rows
        PROVE  r.index \in 0 .. cap' - 1 /\ slots'[r.index] = Object(r.match, r.expand)
    BY <1>1, <1>2, <1>3, <1>9 DEF Backed
  <2>2. new.index \in 0 .. cap' - 1 /\ slots'[new.index] = Object(new.match, new.expand)
    BY <1>3, <1>9
  <2>3. new.index = FreeIndex
    OBVIOUS
  <2> HIDE DEF new
  <2> QED
    BY <2>1, <2>2, <2>3, <1>0, <1>1, <1>2 DEF Backed
<1>11. NoGap'
  <2> SUFFICES ASSUME NEW i \in 0 .. cap' - 1, NEW j \in 0 .. cap' - 1,
                      i < j, slots'[j] # Uninit
               PROVE  slots'[i] # Uninit
    BY DEF NoGap
  <2>1. CASE i = FreeIndex
    BY <2>1, <1>9, CellKinds
  <2>2. CASE i # FreeIndex /\ j = FreeIndex
    BY <2>2, <1>1, <1>2, <1>3, <1>9
  <2>3. CASE i # FreeIndex /\ j # FreeIndex
    <3>1. j \in 0 .. cap - 1 /\ slots[j] # Uninit
      BY <2>3, <1>9
    <3>2. i \in 0 .. cap - 1
      BY <3>1, <1>1
    <3>3. slots[i] # Uninit
      BY <3>1, <3>2, <1>1 DEF NoGap
    <3> QED
      BY <3>2, <3>3, <2>3, <1>9
  <2> QED
    BY <2>1, <2>2, <2>3
<1>12. LiveCounted'
  <2>1. LiveCells' \subseteq LiveCells \cup {FreeIndex}
    <3>1. \A i \in LiveCells' : i \in 0 .. cap' - 1 /\ slots'[i].state = "live"
      BY DEF LiveCells, Live
    <3> QED
      BY <3>1, <1>9, CellKinds DEF LiveCells, Live
  <2>2. IsFiniteSet(LiveCells)
    BY <1>1, LiveCellsFinite DEF StoreInv, TypeOK
  <2>3. /\ IsFiniteSet(LiveCells \cup {FreeIndex})
        /\ Cardinality(LiveCells \cup {FreeIndex}) <= Cardinality(LiveCells) + 1
    <3>1. Cardinality(LiveCells) \in Nat
      BY <2>2, FS_CardinalityType
    <3>2. /\ IsFiniteSet(LiveCells \cup {FreeIndex})
          /\ Cardinality(LiveCells \cup {FreeIndex}) =
               IF FreeIndex \in LiveCells THEN Cardinality(LiveCells)
                                          ELSE Cardinality(LiveCells) + 1
      BY <2>2, FS_AddElement, Zenon
    <3> QED
      BY <3>1, <3>2
  <2>4. Cardinality(LiveCells') <= Cardinality(LiveCells \cup {FreeIndex})
    BY <2>1, <2>3, FS_Subset
  <2>5. Cardinality(LiveCells') \in Nat /\ Cardinality(LiveCells) \in Nat
        /\ Cardinality(LiveCells \cup {FreeIndex}) \in Nat
    BY <2>1, <2>2, <2>3, FS_Subset, FS_CardinalityType
  <2> QED
    BY <2>3, <2>4, <2>5, <1>0, <1>1 DEF LiveCounted
<1> QED
  BY <1>8, <1>10, <1>11, <1>12 DEF TablesOK

(* Different rows have different cells, so a set of rows has as many cells.    *)
LEMMA RowsHaveCells ==
    ASSUME ArrayOK, Backed, NEW some \in SUBSET rows
    PROVE  LET cells == {r.index : r \in some} IN
             /\ cells \subseteq LiveCells
             /\ IsFiniteSet(some) /\ Cardinality(cells) = Cardinality(some)
<1> DEFINE cells == {r.index : r \in some}
           f == [r \in some |-> r.index]
<1>1. IsFiniteSet(some)
  BY FS_Subset DEF ArrayOK
<1>2. f \in [some -> cells] /\ \A c \in cells : \E r \in some : f[r] = c
  OBVIOUS
<1>3. \A r, s \in some : f[r] = f[s] => r = s
  BY DEF Backed
<1>4. f \in Surjection(some, cells) /\ f \in Injection(some, cells)
  <2> HIDE DEF f, cells
  <2> QED
    BY <1>2, <1>3 DEF Surjection, Injection, IsInjective
<1>5. Cardinality(cells) = Cardinality(some)
  <2> HIDE DEF f, cells
  <2> QED
    BY <1>1, <1>4, FS_Surjection
<1>6. cells \subseteq LiveCells
  BY CellKinds DEF Backed, LiveCells, Live
<1> QED
  BY <1>1, <1>5, <1>6

(* Whatever text stands in the condition, it selects rows of the table.        *)
LEMMA SelectionsAreRows ==
    ASSUME NEW by, NEW v, NEW some \in Selections(by, v)
    PROVE  some \in SUBSET rows
BY DEF Selections

(* expandtext_delete empties the cells of the rows it deletes, no others, and  *)
(* exptext_len does not fall below the cells that stay live.                   *)
LEMMA RemoveKeepsTables ==
    ASSUME ArrayOK, Backed, NoGap, LiveCounted,
           NEW by, NEW v, Remove(by, v)
    PROVE  TablesOK'
<1>0. PICK gone \in Selections(by, v) :
        /\ cap' = cap /\ len' = len - Cardinality(gone) /\ rows' = rows \ gone
        /\ slots' = [i \in 0 .. cap - 1 |->
                       IF \E r \in gone : r.index = i THEN Null ELSE slots[i]]
  BY DEF Remove
<1> DEFINE cells == {r.index : r \in gone}
<1>1. gone \in SUBSET rows
  BY <1>0, SelectionsAreRows
<1>2. /\ cells \subseteq LiveCells /\ IsFiniteSet(gone)
      /\ Cardinality(cells) = Cardinality(gone)
  BY <1>1, RowsHaveCells
<1>3. /\ \A i \in cells : slots'[i] = Null
      /\ \A i \in (0 .. cap - 1) \ cells : slots'[i] = slots[i]
  BY <1>0, <1>2 DEF LiveCells
<1>4. LiveCells' = LiveCells \ cells
  BY <1>0, <1>3, CellKinds DEF LiveCells, Live
<1>5. /\ IsFiniteSet(LiveCells) /\ Cardinality(LiveCells) \in Nat
      /\ Cardinality(gone) \in Nat /\ len \in Nat
  BY <1>2, LiveCellsFinite, FS_CardinalityType DEF ArrayOK
<1>6. /\ Cardinality(LiveCells') = Cardinality(LiveCells) - Cardinality(gone)
      /\ Cardinality(gone) <= Cardinality(LiveCells)
  <2>1. LiveCells \cap cells = cells
    BY <1>2
  <2> HIDE DEF cells
  <2>2. Cardinality(LiveCells \ cells) = Cardinality(LiveCells) - Cardinality(LiveCells \cap cells)
    BY <1>5, FS_Difference
  <2>3. Cardinality(cells) <= Cardinality(LiveCells)
    BY <1>2, <1>5, FS_Subset
  <2> QED
    BY <2>1, <2>2, <2>3, <1>2, <1>4
<1>7. LiveCounted'
  BY <1>0, <1>5, <1>6 DEF LiveCounted
<1>8. ArrayOK'
  <2>1. len' \in Nat
    BY <1>0, <1>5, <1>6 DEF LiveCounted
  <2>2. IsFiniteSet(rows') /\ rows' \subseteq Row
    BY <1>0, FS_Subset, rows' \in SUBSET rows DEF ArrayOK
  <2>3. slots' \in [0 .. cap' - 1 -> Slot]
    BY <1>0 DEF ArrayOK, Slot
  <2> QED
    BY <2>1, <2>2, <2>3, <1>0 DEF ArrayOK
<1>9. Backed'
  <2> SUFFICES ASSUME NEW r \in rows'
               PROVE  /\ r.index \in 0 .. cap - 1
                      /\ slots'[r.index] = Object(r.match, r.expand)
                      /\ \A s \in rows' : s.index = r.index => s = r
    BY <1>0 DEF Backed
  <2>1. r \in rows /\ r.index \notin cells
    BY <1>0, <1>1 DEF Backed
  <2> QED
    BY <2>1, <1>0, <1>3 DEF Backed
<1>10. NoGap'
  <2> SUFFICES ASSUME NEW i \in 0 .. cap - 1, NEW j \in 0 .. cap - 1,
                      i < j, slots'[j] # Uninit
               PROVE  slots'[i] # Uninit
    BY <1>0 DEF NoGap
  <2>1. slots[j] # Uninit
    BY <1>2, <1>3, CellKinds DEF LiveCells, Live
  <2>2. slots[i] # Uninit
    BY <2>1 DEF NoGap
  <2> QED
    BY <2>2, <1>3, CellKinds
<1> QED
  BY <1>7, <1>8, <1>9, <1>10 DEF TablesOK

(* expandtext_config rewrites rows in place: each keeps its cell.              *)
LEMMA ConfigKeepsTables ==
    ASSUME ArrayOK, Backed, NoGap, LiveCounted,
           NEW by, NEW v, NEW enabled, Config(by, v, enabled)
    PROVE  TablesOK'
<1> DEFINE on == (enabled = "true")
<1>0. PICK chosen \in Selections(by, v) :
        /\ UNCHANGED <<slots, cap, len>>
        /\ rows' = (rows \ chosen) \cup {[r EXCEPT !.enabled = on] : r \in chosen}
  BY DEF Config, array
<1> DEFINE h == [r \in rows |-> IF r \in chosen THEN [r EXCEPT !.enabled = on] ELSE r]
<1>1. \A r \in rows : /\ h[r] \in Row /\ h[r].index = r.index
                      /\ h[r].match = r.match /\ h[r].expand = r.expand
  BY DEF ArrayOK, Row
<1>2. rows' = {h[r] : r \in rows}
  BY <1>0, SelectionsAreRows
<1> HIDE DEF h
<1>3. IsFiniteSet(rows')
  <2>1. h \in [rows -> rows'] /\ \A t \in rows' : \E r \in rows : h[r] = t
    BY <1>2 DEF h
  <2>2. h \in Surjection(rows, rows')
    BY <2>1 DEF Surjection
  <2> QED
    BY <2>2, FS_Surjection DEF ArrayOK
<1>4. ArrayOK'
  BY <1>0, <1>1, <1>2, <1>3 DEF ArrayOK
<1>5. Backed'
  BY <1>0, <1>1, <1>2 DEF Backed
<1>6. NoGap' /\ LiveCounted'
  BY <1>0 DEF NoGap, LiveCounted, LiveCells, Live
<1> QED
  BY <1>4, <1>5, <1>6 DEF TablesOK

(* Whatever data_io_save writes for rows of the table is a set of save files.  *)
LEMMA SavesAreSaveFiles ==
    ASSUME NEW rs \in SUBSET Row, NEW saved \in Saves(rs)
    PROVE  SaveFiles(saved) /\ DOMAIN saved = GroupsOf(rs)
<1>1. \A r \in rs : r.group \in Groups
  BY DEF Row
<1>2. ASSUME NEW some \in SUBSET rs PROVE Lines(some) \subseteq Line
  BY StoreAssumption DEF Lines, Row, Line
<1>3. ASSUME NEW g, NEW lines \in GroupFiles(rs, g) PROVE lines \subseteq Line
  <2>1. CASE g \in Quoted
    BY <1>2, <2>1 DEF GroupFiles
  <2>2. CASE g \notin Quoted
    <3>1. lines = Lines({r \in rs : r.group = g})
      BY <2>2 DEF GroupFiles
    <3> QED
      BY <1>2, <3>1
  <2> QED
    BY <2>1, <2>2
<1>4. /\ DOMAIN saved = GroupsOf(rs)
      /\ \A g \in GroupsOf(rs) : saved[g] \in GroupFiles(rs, g)
  BY DEF Saves
<1> QED
  BY <1>1, <1>3, <1>4 DEF SaveFiles, GroupsOf

(* The invariant holds of an empty store that is about to load its files.      *)
LEMMA InitStoreInv == Init => StoreInv
<1> SUFFICES ASSUME Init PROVE StoreInv
  OBVIOUS
<1>1. TypeOK
  BY SavedFilesAssumption, FS_EmptySet DEF Init, TypeOK, Slot
<1>2. RowsBacked /\ NoGap
  BY DEF Init, RowsBacked, NoGap
<1>3. LiveCells = {}
  BY CellKinds DEF Init, LiveCells, Live
<1>4. LiveCounted
  BY <1>3, FS_EmptySet DEF Init, LiveCounted
<1> QED
  BY <1>1, <1>2, <1>4 DEF StoreInv

(* Every step of every handler keeps the invariant.                            *)
LEMMA NextStoreInv == StoreInv /\ [Next]_vars => StoreInv'
<1> SUFFICES ASSUME StoreInv, [Next]_vars PROVE StoreInv'
  OBVIOUS
<1> USE DEF array
<1>0. /\ TypeOK /\ ArrayOK /\ NoGap /\ LiveCounted
      /\ phase # "freed" => Backed
  BY DEF StoreInv, TypeOK, ArrayOK, RowsBacked, Backed
<1>a. ASSUME TablesOK', phase' \in {"loading", "serving", "freed", "crashed"},
             SaveFiles(todo)', SaveFiles(files)', UNCHANGED fault
      PROVE  StoreInv'
  BY <1>a, <1>0 DEF StoreInv, TypeOK, ArrayOK, RowsBacked, Backed, TablesOK
<1>b. ASSUME UNCHANGED <<slots, cap, len, rows>>, phase' \in {"serving", "crashed", phase},
             phase = "freed" => phase' = "freed",
             SaveFiles(todo)', SaveFiles(files)',
             fault' \in {"none", "null", "save_file", "index", "free", fault}
      PROVE  StoreInv'
  <2>1. NoGap' /\ LiveCounted'
    BY <1>0, <1>b DEF NoGap, LiveCounted, LiveCells, Live
  <2>2. TypeOK'
    BY <1>0, <1>b DEF TypeOK
  <2>3. RowsBacked'
    BY <1>0, <1>b DEF RowsBacked, Backed
  <2> QED
    BY <2>1, <2>2, <2>3 DEF StoreInv
<1>c. /\ rows' \subseteq Row => \A saved \in Saves(rows') : SaveFiles(saved)
      /\ \A saved \in Saves(rows) : SaveFiles(saved) /\ DOMAIN saved = GroupsOf(rows)
  BY <1>0, SavesAreSaveFiles DEF ArrayOK
<1>1. ASSUME NEW g \in Groups, g \in DOMAIN todo, NEW line \in todo[g], LoadLine(g, line)
      PROVE  StoreInv'
  <2>1. line \in Line
    BY <1>0, <1>1 DEF TypeOK, SaveFiles
  <2>2. TablesOK'
    BY <1>1, <2>1, AddExpandTextKeepsTables DEF LoadLine, NextLine, Loading, Line
  <2>3. SaveFiles(todo)'
    BY <1>1, <1>0 DEF LoadLine, Loading, SaveFiles, TypeOK
  <2> QED
    BY <1>1, <1>0, <1>a, <2>2, <2>3 DEF LoadLine, TypeOK, SaveFiles
<1>2. ASSUME NEW g \in Groups, g \in DOMAIN todo, NEW line \in todo[g], LoadBadLine(g, line)
      PROVE  StoreInv'
  <2>1. SaveFiles(todo)'
    BY <1>2, <1>0 DEF LoadBadLine, Loading, SaveFiles, TypeOK
  <2> QED
    BY <1>2, <1>0, <1>b, <2>1 DEF LoadBadLine, Loading, NextLine, TypeOK, SaveFiles
<1>3. CASE LoadDone
  BY <1>3, <1>0, <1>b DEF LoadDone, TypeOK, SaveFiles
<1>4. CASE AddUnreadable \/ TableFull
  BY <1>4, <1>0, <1>b DEF AddUnreadable, TableFull, Crash, TypeOK, SaveFiles
<1>5. ASSUME NEW q \in Request, AddRefused(q) PROVE StoreInv'
  BY <1>5, <1>0, <1>b DEF AddRefused, TypeOK, SaveFiles
<1>6. ASSUME NEW q \in Request, Add(q) PROVE StoreInv'
  <2>1. FreeId \in Ids
    <3>1. FreeId \in -1 .. Limit - 1
      BY MissingIntIsLeast DEF FreeId
    <3> QED
      BY <3>1, StoreAssumption
  <2>2. TablesOK'
    BY <1>6, <2>1, AddExpandTextKeepsTables DEF Add, Added, Request
  <2>3. SaveFiles(files)'
    BY <1>6, <1>c, <2>2 DEF Add, Save, TablesOK, ArrayOK, SaveFiles
  <2> QED
    BY <1>6, <1>0, <1>a, <2>2, <2>3 DEF Add, Added, TypeOK, SaveFiles
<1>7. ASSUME NEW q \in Request, AddUnsaved(q) PROVE StoreInv'
  <2>1. PICK reached \in SUBSET GroupsOf(rows), saved \in Saves(rows) :
          files' = [g \in reached \cup (DOMAIN files \cap GroupsOf(rows)) |->
                      IF g \in reached THEN saved[g] ELSE files[g]]
    BY <1>7 DEF AddUnsaved
  <2>2. \A g \in GroupsOf(rows) : saved[g] \subseteq Line
    BY <1>c DEF SaveFiles
  <2>3. \A g \in DOMAIN files : files[g] \subseteq Line
    BY <1>0 DEF TypeOK, SaveFiles
  <2>4. GroupsOf(rows) \subseteq Groups
    BY <1>0 DEF TypeOK, Row, GroupsOf
  <2>5. SaveFiles(files)'
    BY <2>1, <2>2, <2>3, <2>4 DEF SaveFiles
  <2> QED
    BY <1>7, <1>0, <1>b, <2>5 DEF AddUnsaved, TypeOK, SaveFiles
<1>8. ASSUME NEW i \in Identifiers, RemoveUnparsed(i[1], i[2]) PROVE StoreInv'
  BY <1>8, <1>0, <1>b DEF RemoveUnparsed, TypeOK, SaveFiles
<1>9. ASSUME NEW i \in Identifiers, Remove(i[1], i[2]) PROVE StoreInv'
  <2>1. TablesOK'
    BY <1>9, <1>0, RemoveKeepsTables DEF Remove
  <2>2. SaveFiles(files)'
    BY <1>9, <1>c, <2>1 DEF Remove, Save, TablesOK, ArrayOK, SaveFiles
  <2> QED
    BY <1>9, <1>0, <1>a, <2>1, <2>2 DEF Remove, TypeOK, SaveFiles
<1>10. ASSUME NEW i \in Identifiers, NEW enabled, ConfigRefused(i[1], i[2], enabled)
       PROVE  StoreInv'
  BY <1>10, <1>0, <1>b DEF ConfigRefused, TypeOK, SaveFiles
<1>11. ASSUME NEW i \in Identifiers, NEW enabled, Config(i[1], i[2], enabled)
       PROVE  StoreInv'
  <2>1. TablesOK'
    <3>1. phase # "freed"
      BY <1>11 DEF Config
    <3> QED
      BY <1>11, <1>0, <3>1, ConfigKeepsTables
  <2>2. SaveFiles(files)'
    BY <1>11, <1>c, <2>1 DEF Config, Save, TablesOK, ArrayOK, SaveFiles
  <2> QED
    BY <1>11, <1>0, <1>a, <2>1, <2>2 DEF Config, TypeOK, SaveFiles
<1>12. CASE Free
  <2>1. SaveFiles(files)'
    BY <1>12, <1>0, <1>c DEF Free, SavedOrNot, TypeOK, SaveFiles
  <2>2. LiveCells' = {}
    BY <1>12, CellKinds DEF Free, LiveCells, Live
  <2>3. LiveCounted'
    BY <1>12, <1>0, <2>2, FS_EmptySet DEF Free, LiveCounted, TypeOK
  <2>4. NoGap' /\ RowsBacked'
    BY <1>12, CellKinds DEF Free, NoGap, RowsBacked
  <2>5. TypeOK'
    BY <1>12, <1>0, <2>1 DEF Free, TypeOK, SaveFiles, Slot
  <2> QED
    BY <2>3, <2>4, <2>5 DEF StoreInv
<1>13. CASE FreeOverrun
  <2>1. SaveFiles(files)'
    BY <1>13, <1>0, <1>c DEF FreeOverrun, SavedOrNot, TypeOK, SaveFiles
  <2> QED
    BY <1>13, <1>0, <1>b, <2>1 DEF FreeOverrun, TypeOK, SaveFiles
<1>14. CASE Done \/ UNCHANGED vars
  BY <1>14, <1>0, <1>b DEF Done, vars, TypeOK, SaveFiles
<1> QED
  BY <1>1, <1>2, <1>3, <1>4, <1>5, <1>6, <1>7, <1>8, <1>9, <1>10, <1>11, <1>12, <1>13,
     <1>14 DEF Next

(* In every reachable state the invariant holds.                               *)
THEOREM StoreInvariant == Spec => []StoreInv
<1> QED
  BY InitStoreInv, NextStoreInv, PTL DEF Spec

-----------------------------------------------------------------------------
(* Every variable has its type: the capacity never drops to 0 and the array    *)
(* has exactly that many cells (realloc in __expandtext_add).                  *)
THEOREM TypeCorrect == Spec => []TypeOK
<1>1. StoreInv => TypeOK
  BY DEF StoreInv
<1> QED
  BY <1>1, StoreInvariant, PTL

(* The index of a row always leads to its own expansion, inside the array:     *)
(* what expandtext_delete and keyhook_check_for_match rely on unchecked.       *)
THEOREM RowsAreBacked == Spec => []RowsBacked
<1>1. StoreInv => RowsBacked
  BY DEF StoreInv
<1> QED
  BY <1>1, StoreInvariant, PTL

(* Indexes are handed out so that no unwritten cell lies below a written one.  *)
THEOREM NoGapEver == Spec => []NoGap
<1>1. StoreInv => NoGap
  BY DEF StoreInv
<1> QED
  BY <1>1, StoreInvariant, PTL

(* exptext_len never falls short of the rows, and when it counts nothing else  *)
(* the loop of data_free stops before it reads an unwritten cell.              *)
THEOREM CountedScansInside == Spec => []CountedScanInside
<1>1. StoreInv => CountedScanInside
  <2> SUFFICES ASSUME StoreInv, phase \in {"loading", "serving"}
               PROVE  /\ len >= Cardinality(rows)
                      /\ len = Cardinality(rows) => ScanInside
    BY DEF CountedScanInside
  <2>1. ArrayOK /\ Backed
    BY DEF StoreInv, TypeOK, RowsBacked, ArrayOK, Backed
  <2> DEFINE cells == {r.index : r \in rows}
  <2>2. cells \subseteq LiveCells /\ Cardinality(cells) = Cardinality(rows)
    BY <2>1, RowsHaveCells
  <2> HIDE DEF cells
  <2>3. /\ IsFiniteSet(LiveCells) /\ Cardinality(LiveCells) \in Nat
        /\ Cardinality(cells) <= Cardinality(LiveCells) /\ Cardinality(rows) \in Nat
    BY <2>1, <2>2, LiveCellsFinite, FS_Subset, FS_CardinalityType DEF ArrayOK
  <2>4. len >= Cardinality(rows)
    BY <2>1, <2>2, <2>3 DEF StoreInv, LiveCounted, ArrayOK
  <2>5. ASSUME len = Cardinality(rows), NEW i \in Scanned
        PROVE  i < cap /\ slots[i] # Uninit
    <3>1. Cardinality(LiveCells) = len
      BY <2>2, <2>3, <2>5 DEF StoreInv, LiveCounted
    <3>2. PICK j \in LiveCells : ~(j < i)
      <4>1. {j \in LiveCells : j < i} # LiveCells
        <5>1. Cardinality({j \in LiveCells : j < i}) < len
          BY DEF Scanned, LiveBelow
        <5>2. ~(len < len)
          BY <2>1 DEF ArrayOK
        <5> QED
          BY <5>1, <5>2, <3>1
      <4> QED
        BY <4>1
    <3>3. i \in 0 .. cap /\ j \in 0 .. cap - 1 /\ slots[j] # Uninit
      BY CellKinds DEF Scanned, LiveCells, Live
    <3>4. i < cap /\ i <= j
      BY <3>2, <3>3, <2>1 DEF ArrayOK
    <3>5. slots[i] # Uninit
      BY <3>3, <3>4, <2>1 DEF StoreInv, NoGap, ArrayOK
    <3> QED
      BY <3>4, <3>5
  <2> QED
    BY <2>4, <2>5 DEF ScanInside
<1> QED
  BY <1>1, StoreInvariant, PTL
-----------------------------------------------------------------------------
(* The refinement of Catalog.  PromiseInv is what it needs on top of StoreInv:  *)
(* distinct ids, indexes below the limit, and no answer while the files are     *)
(* loaded.                                                                      *)

\* What a client is told of a row, and of the table
EntryOf(r) == [match |-> r.match, expand |-> r.expand, id |-> r.id, enabled |-> r.enabled,
             group |-> r.group]
Shown == {EntryOf(r) : r \in rows}

IdsDistinct == \A r, s \in rows : r.id = s.id => r = s

IndexesBelow == \A r \in rows : r.index < Limit

LoadingUnasked == phase = "loading" => reply = Answer("load", {}, TRUE)

PromiseInv == IdsDistinct /\ IndexesBelow /\ LoadingUnasked

-----------------------------------------------------------------------------
(* data_sql_missing_int returns -1 only when every number below Limit is used. *)
LEMMA MissingIntUsedUp ==
    ASSUME NEW used, ~(MissingInt(used) >= 0)
    PROVE  0 .. Limit - 1 \subseteq used
<1> DEFINE free == (0 .. Limit - 1) \ used
<1>1. SUFFICES ASSUME free # {} PROVE FALSE
  OBVIOUS
<1>2. MissingInt(used) = Smallest(free)
  BY <1>1 DEF MissingInt
<1>3. Smallest(free) \in free
  BY <1>1, SmallestIsLeast
<1> QED
  BY <1>2, <1>3

(* While there is a free index there is a free id: there are fewer rows than   *)
(* Limit, since each has an index of its own below it.                         *)
LEMMA IdLeft ==
    ASSUME StoreInv, PromiseInv, phase # "freed", FreeIndex >= 0
    PROVE  FreeId >= 0 /\ FreeId \in Ids /\ \A r \in rows : r.id # FreeId
<1> DEFINE ids == {r.id : r \in rows}
           indexes == {r.index : r \in rows}
           numbers == 0 .. Limit - 1
<1>1. ArrayOK /\ Backed /\ IsFiniteSet(rows)
  BY DEF StoreInv, TypeOK, ArrayOK, RowsBacked, Backed
<1>2. FreeIndex \in numbers /\ FreeIndex \notin indexes
  <2>1. FreeIndex = MissingInt(indexes)
    BY DEF FreeIndex
  <2> HIDE DEF indexes
  <2> QED
    BY <2>1, MissingIntIsLeast, StoreAssumption
<1>3. indexes \subseteq numbers \ {FreeIndex}
  BY <1>1, <1>2, StoreAssumption DEF Backed, ArrayOK, PromiseInv, IndexesBelow
<1>4. Cardinality(indexes) = Cardinality(rows)
  BY <1>1, RowsHaveCells
<1>5. IsFiniteSet(numbers) /\ Cardinality(numbers) = Limit
  BY StoreAssumption, FS_Interval
<1>6. Cardinality(rows) < Limit
  <2> HIDE DEF indexes, numbers
  <2>1. IsFiniteSet(numbers \ {FreeIndex}) /\ Cardinality(numbers \ {FreeIndex}) = Limit - 1
    BY <1>2, <1>5, FS_RemoveElement
  <2>2. Cardinality(indexes) <= Limit - 1
    BY <1>3, <2>1, FS_Subset
  <2>3. Cardinality(rows) \in Nat
    BY <1>1, FS_CardinalityType
  <2> QED
    BY <1>4, <2>2, <2>3, StoreAssumption
<1>7. IsFiniteSet(ids) /\ Cardinality(ids) <= Cardinality(rows)
  <2> DEFINE f == [r \in rows |-> r.id]
  <2>1. f \in Surjection(rows, ids)
    BY DEF Surjection
  <2> HIDE DEF f, ids
  <2> QED
    BY <1>1, <2>1, FS_Surjection
<1>8. FreeId = MissingInt(ids)
  BY DEF FreeId
<1> HIDE DEF ids
<1>9. FreeId >= 0
  <2>1. SUFFICES ASSUME ~(FreeId >= 0) PROVE FALSE
    OBVIOUS
  <2>2. numbers \subseteq ids
    BY <1>8, <2>1, MissingIntUsedUp
  <2>3. Limit <= Cardinality(ids)
    <3> HIDE DEF numbers
    <3> QED
      BY <1>5, <1>7, <2>2, FS_Subset
  <2>4. Cardinality(ids) \in Nat /\ Cardinality(rows) \in Nat
    BY <1>1, <1>7, FS_CardinalityType
  <2> QED
    BY <1>6, <1>7, <2>3, <2>4, StoreAssumption
<1>10. FreeId \notin ids /\ FreeId \in -1 .. Limit - 1
  BY <1>8, <1>9, MissingIntIsLeast
<1> QED
  BY <1>9, <1>10, StoreAssumption DEF ids

-----------------------------------------------------------------------------
(* An expansion that is added is shown under an id nobody has; when its id is  *)
(* taken nothing is.                                                           *)
LEMMA AddShows ==
    ASSUME StoreInv, PromiseInv, phase # "freed",
           NEW match \in Matches, NEW expand \in Expands, NEW id \in Ids,
           NEW enabled \in BOOLEAN, NEW group \in Groups,
           AddExpandText(match, expand, id, enabled, group)
    PROVE  LET new == [match |-> match, expand |-> expand, id |-> id, enabled |-> enabled,
                       group |-> group]
           IN /\ IF \E r \in rows : r.id = id THEN Shown' = Shown
                 ELSE Shown' = Shown \cup {new} /\ \A e \in Shown : e.id # id
              /\ IdsDistinct' /\ IndexesBelow'
<1> DEFINE row == [rowid |-> NextRowid, index |-> FreeIndex, match |-> match,
                   expand |-> expand, id |-> id, enabled |-> enabled, group |-> group]
           new == [match |-> match, expand |-> expand, id |-> id, enabled |-> enabled,
                   group |-> group]
<1>1. rows' = IF \E r \in rows : r.index = row.index \/ r.id = row.id THEN rows ELSE rows \cup {row}
  BY DEF AddExpandText, InsertRow
<1>2. /\ FreeIndex \in -1 .. Limit - 1 /\ \A r \in rows : r.index # FreeIndex
  BY FreeIndexFits, MissingIntIsLeast DEF AddExpandText, FreeIndex
<1>3. row.index = FreeIndex /\ row.id = id /\ EntryOf(row) = new
  BY DEF EntryOf
<1> HIDE DEF row
<1>4. CASE \E r \in rows : r.id = id
  <2>1. rows' = rows
    BY <1>1, <1>3, <1>4
  <2> QED
    BY <1>4, <2>1 DEF PromiseInv, IdsDistinct, IndexesBelow, Shown
<1>5. CASE ~\E r \in rows : r.id = id
  <2>1. rows' = rows \cup {row}
    BY <1>1, <1>2, <1>3, <1>5
  <2>2. Shown' = Shown \cup {new} /\ \A e \in Shown : e.id # id
    <3>1. \A e \in Shown : \E r \in rows : e.id = r.id
      BY DEF Shown, EntryOf
    <3> HIDE DEF new
    <3> QED
      BY <1>3, <1>5, <2>1, <3>1 DEF Shown
  <2>3. IdsDistinct'
    BY <1>3, <1>5, <2>1 DEF PromiseInv, IdsDistinct
  <2>4. IndexesBelow'
    BY <1>2, <1>3, <2>1, StoreAssumption DEF PromiseInv, IndexesBelow
  <2> QED
    BY <1>5, <2>2, <2>3, <2>4
<1> QED
  BY <1>4, <1>5

(* What is asked for by match, group or id is the same of a row and of what is *)
(* shown of it.                                                                *)
LEMMA AskedBy ==
    ASSUME NEW i \in Identifiers
    PROVE  /\ i[1] \in {"match", "group", "id"} /\ i[2] \in Matches \cup Groups \cup Ids
           /\ \A r : EntryOf(r)[i[1]] = r[i[1]]
<1>1. i[1] \in {"match", "group", "id"} /\ i[2] \in Matches \cup Groups \cup Ids
  BY DEF Identifiers
<1>2. \A r : EntryOf(r)["match"] = r["match"] /\ EntryOf(r)["group"] = r["group"]
             /\ EntryOf(r)["id"] = r["id"]
  BY DEF EntryOf
<1> QED
  BY <1>1, <1>2

\* The sets of shown entries an identifier can mean
MeantShown(by, v) ==
    IF v \in Quoted THEN SUBSET Shown ELSE {{e \in Shown : e[by] = v}}

(* Rows that a condition selects are shown as entries that it can mean.        *)
LEMMA SelectedAreMeant ==
    ASSUME NEW i \in Identifiers, NEW chosen \in Selections(i[1], i[2])
    PROVE  {EntryOf(r) : r \in chosen} \in MeantShown(i[1], i[2])
<1>1. CASE i[2] \in Quoted
  BY <1>1 DEF Selections, MeantShown, Shown
<1>2. CASE i[2] \notin Quoted
  <2>1. chosen = {r \in rows : r[i[1]] = i[2]}
    BY <1>2 DEF Selections
  <2>2. {EntryOf(r) : r \in chosen} = {e \in Shown : e[i[1]] = i[2]}
    BY <2>1, AskedBy DEF Shown
  <2> QED
    BY <1>2, <2>2 DEF MeantShown
<1> QED
  BY <1>1, <1>2

(* With distinct ids, taking rows away takes what is shown of them, and        *)
(* nothing else.                                                               *)
LEMMA LeftIsShown ==
    ASSUME IdsDistinct, NEW chosen \in SUBSET rows
    PROVE  {EntryOf(r) : r \in rows \ chosen} = Shown \ {EntryOf(r) : r \in chosen}
<1>1. \A r \in rows, s \in chosen : EntryOf(r) = EntryOf(s) => r = s
  <2> SUFFICES ASSUME NEW r \in rows, NEW s \in chosen, EntryOf(r) = EntryOf(s)
               PROVE  r = s
    OBVIOUS
  <2>1. EntryOf(r).id = r.id /\ EntryOf(s).id = s.id
    BY DEF EntryOf
  <2> QED
    BY <2>1 DEF IdsDistinct
<1> QED
  BY <1>1 DEF Shown

(* Enabling changes what is shown of the rows it changes, and in nothing else. *)
LEMMA ConfigShows ==
    ASSUME TypeOK, IdsDistinct, NEW chosen \in SUBSET rows, NEW on \in BOOLEAN,
           rows' = (rows \ chosen) \cup {[r EXCEPT !.enabled = on] : r \in chosen}
    PROVE  LET some == {EntryOf(r) : r \in chosen}
           IN Shown' = (Shown \ some) \cup {[e EXCEPT !.enabled = on] : e \in some}
<1>1. \A r \in rows : EntryOf([r EXCEPT !.enabled = on]) = [EntryOf(r) EXCEPT !.enabled = on]
  BY DEF EntryOf, TypeOK, Row
<1>2. Shown' = {EntryOf(r) : r \in rows \ chosen}
                 \cup {EntryOf([r EXCEPT !.enabled = on]) : r \in chosen}
  BY DEF Shown
<1> DEFINE some == {EntryOf(r) : r \in chosen}
           switched(e) == [e EXCEPT !.enabled = on]
           shown(r) == EntryOf([r EXCEPT !.enabled = on])
           of(r) == EntryOf(r)
<1>3. /\ \A r \in chosen : shown(r) = switched(of(r))
      /\ some = {of(r) : r \in chosen}
  BY <1>1
<1>4. {shown(r) : r \in chosen} = {switched(e) : e \in some}
  <2> HIDE DEF some, switched, shown, of
  <2> QED
    BY <1>3
<1> QED
  BY <1>2, <1>4, LeftIsShown DEF some, switched, shown
-----------------------------------------------------------------------------
(* Nobody has asked for anything while the files are loaded, and what is shown *)
(* keeps distinct ids.                                                         *)
LEMMA PromiseInit == Init => PromiseInv /\ Promise!CatalogInit
BY DEF Init, PromiseInv, IdsDistinct, IndexesBelow, LoadingUnasked, Answer,
       Promise!CatalogInit, Promise!NoAnswer, Promise!Answer
(* The steps of the catalog, in terms of what is shown                         *)
LEMMA CatalogSteps ==
    LET Kept == [Promise!CatalogNext]_(Promise!catalogVars)
        Switched(some, on) == {[e EXCEPT !.enabled = on] : e \in some}
    IN /\ Shown' = Shown /\ UNCHANGED reply => Kept
       /\ \A e \in Promise!Entry :
            /\ \A f \in Shown : f.id # e.id
            /\ Shown' = Shown \cup {e}
            /\ \/ reply = Answer("load", {}, TRUE) /\ UNCHANGED reply
               \/ reply' = Answer("add", {}, TRUE) /\ e.id >= 0
            => Kept
       /\ Shown' = Shown /\ reply' = Answer("add", {}, FALSE) => Kept
       /\ \A i \in Identifiers :
            /\ Shown' = Shown /\ reply' = Answer("config", {<<i[1], i[2]>>}, FALSE) => Kept
            /\ Shown' = Shown /\ reply' = Answer("remove", {<<i[1], i[2]>>}, TRUE)
                 /\ i[2] \in Quoted => Kept
            /\ \A some \in MeantShown(i[1], i[2]) :
                 Shown' = Shown \ some
                 /\ reply' = Answer("remove", {<<i[1], i[2]>>}, some # {}) => Kept
            /\ \A on \in BOOLEAN, some \in MeantShown(i[1], i[2]) :
                 /\ some # {} /\ reply' = Answer("config", {<<i[1], i[2]>>}, TRUE)
                 /\ Shown' = (Shown \ some) \cup Switched(some, on)
                 => Kept
<1> DEFINE Kept == [Promise!CatalogNext]_(Promise!catalogVars)
           Switched(some, on) == {[e EXCEPT !.enabled = on] : e \in some}
<1>m. \A by, v : MeantShown(by, v) = Promise!Meant(by, v)
  BY DEF MeantShown, Shown, EntryOf, Promise!Meant, Promise!Named
<1> USE DEF Promise!Answer, Answer, Shown, EntryOf
<1>1. ASSUME Shown' = Shown, UNCHANGED reply PROVE Kept
  BY <1>1 DEF Promise!catalogVars
<1>2. ASSUME NEW e \in Promise!Entry, \A f \in Shown : f.id # e.id, Shown' = Shown \cup {e},
             \/ reply = Answer("load", {}, TRUE) /\ UNCHANGED reply
             \/ reply' = Answer("add", {}, TRUE) /\ e.id >= 0
      PROVE  Kept
  BY <1>2 DEF Promise!CatalogNext, Promise!Recover, Promise!Insert, Promise!Include,
              Promise!NoAnswer
<1>3. ASSUME Shown' = Shown, reply' = Answer("add", {}, FALSE) PROVE Kept
  BY <1>3 DEF Promise!CatalogNext, Promise!Refuse
<1>4. ASSUME NEW i \in Identifiers, Shown' = Shown,
             reply' = Answer("config", {<<i[1], i[2]>>}, FALSE)
      PROVE  Kept
  BY <1>4, AskedBy DEF Promise!CatalogNext, Promise!Refuse
<1>5. ASSUME NEW i \in Identifiers, Shown' = Shown, i[2] \in Quoted,
             reply' = Answer("remove", {<<i[1], i[2]>>}, TRUE)
      PROVE  Kept
  BY <1>5, AskedBy DEF Promise!CatalogNext, Promise!Remove
<1>6. ASSUME NEW i \in Identifiers, NEW some \in MeantShown(i[1], i[2]), Shown' = Shown \ some,
             reply' = Answer("remove", {<<i[1], i[2]>>}, some # {})
      PROVE  Kept
  <2>1. Promise!Remove(i[1], i[2])
    <3>1. (some # {}) \in BOOLEAN /\ some \in Promise!Meant(i[1], i[2])
      BY <1>m
    <3> QED
      BY <1>6, <3>1 DEF Promise!Remove
  <2> QED
    BY <2>1, AskedBy DEF Promise!CatalogNext
<1>7. ASSUME NEW i \in Identifiers, NEW on \in BOOLEAN, NEW some \in MeantShown(i[1], i[2]),
             some # {}, reply' = Answer("config", {<<i[1], i[2]>>}, TRUE),
             Shown' = (Shown \ some) \cup Switched(some, on)
      PROVE  Kept
  <2>1. Promise!SetEnabled(i[1], i[2], on)
    BY <1>m, <1>7 DEF Promise!SetEnabled
  <2> QED
    BY <2>1, AskedBy DEF Promise!CatalogNext
<1> QED
  <2> HIDE DEF Shown, Answer
  <2> QED
    BY <1>1, <1>2, <1>3, <1>4, <1>5, <1>6, <1>7
(* Steps that leave the table and the answer alone, and do not begin to load.  *)
LEMMA Unshown ==
    ASSUME PromiseInv, UNCHANGED rows, phase' = "loading" => phase = "loading" /\ UNCHANGED reply
    PROVE  PromiseInv' /\ Shown' = Shown
BY DEF PromiseInv, IdsDistinct, IndexesBelow, LoadingUnasked, Shown

(* Every step of the store is a step of the catalog, or none.                  *)
LEMMA PromiseStep ==
    StoreInv /\ PromiseInv /\ [Next]_vars
      => PromiseInv' /\ [Promise!CatalogNext]_(Promise!catalogVars)
<1> DEFINE Kept == [Promise!CatalogNext]_(Promise!catalogVars)
<1> SUFFICES ASSUME StoreInv, PromiseInv, [Next]_vars PROVE PromiseInv' /\ Kept
  OBVIOUS
<1>0. TypeOK
  BY DEF StoreInv
<1>s. Shown' = Shown /\ UNCHANGED reply => Kept
  BY CatalogSteps
<1>1. ASSUME NEW g \in Groups, g \in DOMAIN todo, NEW line \in todo[g], LoadLine(g, line)
      PROVE  PromiseInv' /\ Kept
  <2> DEFINE new == [match |-> line.match, expand |-> line.expand, id |-> line.id,
                     enabled |-> line.enabled, group |-> g]
  <2>1. line \in Line
    BY <1>0, <1>1 DEF TypeOK, SaveFiles
  <2>2. /\ phase = "loading" /\ UNCHANGED <<phase, reply>>
        /\ AddExpandText(line.match, line.expand, line.id, line.enabled, g)
    BY <1>1 DEF LoadLine, Loading, NextLine
  <2>3. /\ IF \E r \in rows : r.id = line.id THEN Shown' = Shown
           ELSE Shown' = Shown \cup {new} /\ \A e \in Shown : e.id # line.id
        /\ IdsDistinct' /\ IndexesBelow'
    BY <2>1, <2>2, AddShows DEF Line
  <2>4. new \in Promise!Entry /\ new.id = line.id
    BY <2>1 DEF Line, Promise!Entry
  <2>5. reply = Answer("load", {}, TRUE)
    BY <2>2 DEF PromiseInv, LoadingUnasked
  <2> HIDE DEF new
  <2>6. Kept
    <3>1. CASE \E r \in rows : r.id = line.id
      BY <1>s, <2>2, <2>3, <3>1
    <3>2. CASE ~\E r \in rows : r.id = line.id
      BY <2>2, <2>3, <2>4, <2>5, <3>2, CatalogSteps
    <3> QED
      BY <3>1, <3>2
  <2>7. LoadingUnasked'
    BY <2>2, <2>5 DEF LoadingUnasked, Answer
  <2> QED
    BY <2>3, <2>6, <2>7 DEF PromiseInv
<1>2. ASSUME NEW q \in Request, Add(q) PROVE PromiseInv' /\ Kept
  <2> DEFINE new == [match |-> q.match, expand |-> q.expand, id |-> FreeId,
                     enabled |-> q.enabled, group |-> q.group]
  <2>1. /\ phase = "serving" /\ phase' = phase /\ reply' = Answer("add", {}, TRUE)
        /\ AddExpandText(q.match, q.expand, FreeId, q.enabled, q.group)
    BY <1>2 DEF Add, Added
  <2>2. FreeId >= 0 /\ FreeId \in Ids /\ \A r \in rows : r.id # FreeId
    BY <2>1, IdLeft DEF AddExpandText
  <2>3. /\ Shown' = Shown \cup {new} /\ \A e \in Shown : e.id # FreeId
        /\ IdsDistinct' /\ IndexesBelow'
    BY <2>1, <2>2, AddShows DEF Request
  <2>4. new \in Promise!Entry /\ new.id = FreeId
    BY <2>2 DEF Request, Promise!Entry
  <2> HIDE DEF new
  <2>5. Kept
    BY <2>1, <2>2, <2>3, <2>4, CatalogSteps
  <2>6. LoadingUnasked'
    BY <2>1 DEF LoadingUnasked
  <2> QED
    BY <2>3, <2>5, <2>6 DEF PromiseInv
<1>3. ASSUME NEW q \in Request, AddRefused(q) PROVE PromiseInv' /\ Kept
  <2>1. UNCHANGED <<phase, rows>> /\ phase = "serving" /\ reply' = Answer("add", {}, FALSE)
    BY <1>3 DEF AddRefused
  <2> QED
    BY <2>1, Unshown, CatalogSteps
<1>4. ASSUME NEW i \in Identifiers, RemoveUnparsed(i[1], i[2]) PROVE PromiseInv' /\ Kept
  <2>1. /\ UNCHANGED <<phase, rows>> /\ phase = "serving" /\ i[2] \in Quoted
        /\ reply' = Answer("remove", {<<i[1], i[2]>>}, TRUE)
    BY <1>4 DEF RemoveUnparsed
  <2> QED
    BY <2>1, Unshown, CatalogSteps
<1>5. ASSUME NEW i \in Identifiers, Remove(i[1], i[2]) PROVE PromiseInv' /\ Kept
  <2>1. PICK gone \in Selections(i[1], i[2]) :
          /\ rows' = rows \ gone
          /\ reply' = Answer("remove", {<<i[1], i[2]>>}, gone # {})
    BY <1>5 DEF Remove
  <2>2. phase = "serving" /\ phase' = phase /\ gone \in SUBSET rows
    BY <1>5, SelectionsAreRows DEF Remove
  <2> DEFINE some == {EntryOf(r) : r \in gone}
  <2>3. Shown' = Shown \ some
    BY <2>1, <2>2, LeftIsShown DEF PromiseInv, Shown
  <2>4. some \in MeantShown(i[1], i[2]) /\ (gone = {} <=> some = {})
    BY SelectedAreMeant
  <2>5. reply' = Answer("remove", {<<i[1], i[2]>>}, some # {})
    <3> HIDE DEF some
    <3>1. (gone # {}) = (some # {})
      BY <2>4
    <3> QED
      BY <2>1, <3>1
  <2>6. Kept
    <3> HIDE DEF some
    <3> QED
      BY <2>3, <2>4, <2>5, CatalogSteps
  <2>7. PromiseInv'
    BY <2>1, <2>2 DEF PromiseInv, IdsDistinct, IndexesBelow, LoadingUnasked
  <2> QED
    BY <2>6, <2>7
<1>6. ASSUME NEW i \in Identifiers, NEW enabled, ConfigRefused(i[1], i[2], enabled)
      PROVE  PromiseInv' /\ Kept
  <2>1. /\ UNCHANGED <<phase, rows>> /\ phase = "serving"
        /\ reply' = Answer("config", {<<i[1], i[2]>>}, FALSE)
    BY <1>6 DEF ConfigRefused
  <2> QED
    BY <2>1, Unshown, CatalogSteps
<1>7. ASSUME NEW i \in Identifiers, NEW enabled, Config(i[1], i[2], enabled)
      PROVE  PromiseInv' /\ Kept
  <2> DEFINE on == (enabled = "true")
  <2>1. PICK chosen \in Selections(i[1], i[2]) :
          /\ chosen # {}
          /\ rows' = (rows \ chosen) \cup {[r EXCEPT !.enabled = on] : r \in chosen}
    BY <1>7 DEF Config
  <2>2. /\ phase = "serving" /\ phase' = phase /\ chosen \in SUBSET rows
        /\ reply' = Answer("config", {<<i[1], i[2]>>}, TRUE)
    BY <1>7, SelectionsAreRows DEF Config
  <2> DEFINE some == {EntryOf(r) : r \in chosen}
  <2>3. on \in BOOLEAN
    OBVIOUS
  <2>4. Shown' = (Shown \ some) \cup {[e EXCEPT !.enabled = on] : e \in some}
    <3> HIDE DEF on
    <3> QED
      BY <1>0, <2>1, <2>2, <2>3, ConfigShows DEF PromiseInv
  <2>5. some \in MeantShown(i[1], i[2]) /\ some # {}
    BY <2>1, SelectedAreMeant
  <2>6. Kept
    <3> HIDE DEF on, some
    <3> QED
      BY <2>2, <2>3, <2>4, <2>5, CatalogSteps
  <2>7. \A s \in rows' : \E r \in rows : s.id = r.id /\ s.index = r.index /\
          s = IF r \in chosen THEN [r EXCEPT !.enabled = on] ELSE r
    BY <1>0, <2>1, <2>2 DEF TypeOK, Row
  <2>8. PromiseInv'
    BY <2>1, <2>2, <2>7 DEF PromiseInv, IdsDistinct, IndexesBelow, LoadingUnasked
  <2> QED
    BY <2>6, <2>8
<1>8. ASSUME UNCHANGED <<rows, reply>>, phase' = "loading" => phase = "loading"
      PROVE  PromiseInv' /\ Kept
  BY <1>8, <1>s, Unshown
<1>9. ASSUME NEW g \in Groups, g \in DOMAIN todo, NEW line \in todo[g], LoadBadLine(g, line)
      PROVE  PromiseInv' /\ Kept
  BY <1>8, <1>9 DEF LoadBadLine
<1>10. ASSUME NEW q \in Request, AddUnsaved(q) PROVE PromiseInv' /\ Kept
  BY <1>8, <1>10 DEF AddUnsaved
<1>11. CASE LoadDone \/ AddUnreadable \/ TableFull \/ Free \/ FreeOverrun \/ Done
              \/ UNCHANGED vars
  BY <1>8, <1>11
     DEF LoadDone, AddUnreadable, TableFull, Crash, Free, FreeOverrun, Done, vars
<1> QED
  BY <1>1, <1>2, <1>3, <1>4, <1>5, <1>6, <1>7, <1>9, <1>10, <1>11 DEF Next

(* The store implements the catalog: an id that is taken is never given again, *)
(* a removal or a change takes exactly what its identifier names when there is *)
(* no apostrophe in it, and otherwise whole entries of the store, and every    *)
(* answer but that of a removal that does not parse says what became of the    *)
(* request (expandtext_add, expandtext_delete, expandtext_config).             *)
THEOREM PromiseIsKept == Spec => KeepsPromise
<1> QED
  BY StoreInvariant, PromiseInit, PromiseStep, PTL DEF Spec, KeepsPromise, Promise!CatalogSpec

(* Files that data_io_save may write are up to date.                           *)
LEMMA SavesAreUpToDate ==
    ASSUME NEW rs, NEW saved \in Saves(rs)
    PROVE  UpToDate(saved, rs)
<1>1. /\ DOMAIN saved = GroupsOf(rs)
      /\ \A g \in GroupsOf(rs) : saved[g] \in GroupFiles(rs, g)
  BY DEF Saves
<1>2. \A g \in GroupsOf(rs) \ Quoted : saved[g] = Lines({r \in rs : r.group = g})
  BY <1>1 DEF GroupFiles
<1> QED
  BY <1>1, <1>2 DEF UpToDate, GroupsOf

(* What a request changes in the table is on disk before it is answered, group *)
(* by group for every group without an apostrophe in its name, and the disk    *)
(* changes for nothing else (data_io_save after every handler).                *)
THEOREM ChangesAreSaved == Spec => ChangesSaved
<1> DEFINE Saving == phase = "serving" /\ phase' = "serving" =>
                       /\ rows' # rows => UpToDate(files', rows')
                       /\ files' # files => UpToDate(files', rows')
<1>1. ASSUME [Next]_vars, phase = "serving", phase' = "serving",
             rows' # rows \/ files' # files
      PROVE  Save
  BY <1>1 DEF Next, vars, array, LoadLine, LoadBadLine, Loading, NextLine, LoadDone, AddRefused,
         Add, AddUnsaved, AddUnreadable, TableFull, Crash, RemoveUnparsed, Remove,
         ConfigRefused, Config, Free, FreeOverrun, Done
<1>2. Save => UpToDate(files', rows')
  BY SavesAreUpToDate DEF Save
<1>3. [Next]_vars => Saving
  BY <1>1, <1>2
<1> QED
  BY <1>3, PTL DEF Spec, ChangesSaved
=============================================================================
