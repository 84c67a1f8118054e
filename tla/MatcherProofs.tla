--------------------------- MODULE MatcherProofs ---------------------------
(***************************************************************************)
(* Proofs about Matcher and Tags, for any sources and phrases, any         *)
(* characters and any depth of the trees: numbers and loops; the trees and *)
(* the functions that go through them; what an expansion types, and the    *)
(* keys it leaves down; the joined lines of a source; the walk of a match  *)
(* against what the match stands for; the query by its last character; the *)
(* check after a key, which is the two together; and what is read back     *)
(* from a text that is written as docs/info.md asks for.                   *)
(***************************************************************************)
EXTENDS Matcher, SequenceTheorems, FunctionTheorems, FiniteSetTheorems,
    WellFoundedInduction, TLAPS

-----------------------------------------------------------------------------
(* Numbers and loops                                                           *)

(* What is true of 0 and, when of a number, of the next one, is true of all up *)
(* to N.                                                                       *)
LEMMA UpTo ==
    ASSUME NEW N \in Nat, NEW S, 0 \in S, \A i \in 0 .. N - 1 : i \in S => i + 1 \in S
    PROVE  \A i \in 0 .. N : i \in S
<1> DEFINE R == {ss \in Nat \X Nat : ss[1] < ss[2]}
           rest == {i \in 0 .. N : i \notin S}
<1> SUFFICES ASSUME rest # {} PROVE FALSE
  OBVIOUS
<1>1. rest \subseteq Nat
  OBVIOUS
<1>2. IsWellFoundedOn(R, Nat)
  BY NatLessThanWellFounded, Zenon DEF OpToRel
<1>3. PICK k \in rest : \A l \in rest : ~(<<l, k>> \in R)
  <2> HIDE DEF R, rest
  <2> QED
    BY <1>1, <1>2, WFMin
<1>4. k \in 0 .. N /\ k \notin S /\ k # 0
  BY <1>3
<1>5. k - 1 \in 0 .. N - 1 /\ k - 1 \in 0 .. N
  BY <1>4
<1>6. k - 1 \in S
  <2> SUFFICES ASSUME k - 1 \notin S PROVE FALSE
    OBVIOUS
  <2> DEFINE ss == <<k - 1, k>>
  <2>1. ss \in Nat \X Nat /\ ss[1] < ss[2]
    BY <1>4, <1>5
  <2>2. ss \in R
    BY ONLY <2>1, Zenon DEF R
  <2>3. k - 1 \in rest
    BY <1>5
  <2> QED
    BY <2>2, <2>3, <1>3
<1>7. k - 1 \in S => (k - 1) + 1 \in S
  BY <1>5
<1> QED
  BY <1>4, <1>6, <1>7

\* A step of a loop over the numbers up to N, with a value of V that it carries along
Step(step, N, V) == step \in [(1 .. N) \X V -> V]

\* The value after each of the numbers
Computed(f, start, step, N, V) ==
    f \in [0 .. N -> V] /\ f[0] = start /\ \A i \in 1 .. N : f[i] = step[<<i, f[i - 1]>>]

(* A loop over the numbers up to N computes something.                         *)
LEMMA LoopComputes ==
    ASSUME NEW N \in Nat, NEW V, NEW start \in V, NEW step, Step(step, N, V)
    PROVE  \E f : Computed(f, start, step, N, V)
<1> DEFINE Reaches(n, f) ==
        f \in [0 .. n -> V] /\ f[0] = start /\ \A i \in 1 .. n : f[i] = step[<<i, f[i - 1]>>]
    S == {n \in 0 .. N : \E f : Reaches(n, f)}
<1>1. 0 \in S
  <2>1. Reaches(0, [i \in 0 .. 0 |-> start])
    OBVIOUS
  <2> HIDE DEF Reaches
  <2> QED
    BY <2>1
<1>2. ASSUME NEW n \in 0 .. N - 1, n \in S PROVE n + 1 \in S
  <2>1. PICK f : Reaches(n, f)
    BY <1>2
  <2> DEFINE next == step[<<n + 1, f[n]>>]
             g == [i \in 0 .. n + 1 |-> IF i = n + 1 THEN next ELSE f[i]]
  <2>2. n + 1 \in 1 .. N /\ f[n] \in V
    BY <2>1
  <2>3. next \in V
    BY <2>2 DEF Step
  <2> HIDE DEF next
  <2>4. g \in [0 .. n + 1 -> V] /\ g[0] = start
    BY <2>1, <2>3
  <2>5. ASSUME NEW i \in 1 .. n + 1 PROVE g[i] = step[<<i, g[i - 1]>>]
    <3>1. CASE i = n + 1
      <4>1. i - 1 = n /\ g[i - 1] = f[n] /\ g[i] = next
        BY <3>1
      <4> QED
        BY <3>1, <4>1 DEF next
    <3>2. CASE i # n + 1
      <4>1. i \in 1 .. n /\ i - 1 \in 0 .. n /\ g[i] = f[i] /\ g[i - 1] = f[i - 1]
        BY <3>2
      <4> QED
        BY <2>1, <4>1
    <3> QED
      BY <3>1, <3>2
  <2>6. Reaches(n + 1, g)
    BY <2>4, <2>5
  <2> HIDE DEF Reaches, g
  <2> QED
    BY <2>2, <2>6
<1>3. N \in S
  <2> HIDE DEF S
  <2> QED
    BY <1>1, <1>2, UpTo
<1> QED
  BY <1>3 DEF Computed

-----------------------------------------------------------------------------
(* The trees.  Each of the recursive functions over them is there: it is built *)
(* from the trees of no tags up.                                               *)

\* A tag with tags in it, each from S
Branches(S) == [name : Texts, text : {NoText}, tags : Seq(S)]

(* A tree of some depth is a leaf, or holds trees of a smaller depth.          *)
LEMMA TreesAre ==
    /\ Trees[0] = {}
    /\ \A n \in 1 .. Nesting : Trees[n] = Leaves \cup Branches(Trees[n - 1])
<1>0. Nesting \in Nat
  BY TagsAssumption
<1> DEFINE Level(n, below) == IF n = 0 THEN {} ELSE Leaves \cup Branches(below)
           Rule(k, f) == f = [n \in 0 .. k |-> Level(n, f[n - 1])]
           S == {k \in 0 .. Nesting : \E f : Rule(k, f)}
<1>1. \A x, y : Level(0, x) = Level(0, y)
  OBVIOUS
<1> HIDE DEF Level
<1>2. 0 \in S
  <2> DEFINE f == [n \in 0 .. 0 |-> Level(0, 0)]
  <2>1. f = [n \in 0 .. 0 |-> Level(n, f[n - 1])]
    BY <1>1
  <2> HIDE DEF f
  <2> QED
    BY <2>1, <1>0
<1>3. ASSUME NEW k \in 0 .. Nesting - 1, k \in S PROVE k + 1 \in S
  <2>1. PICK f : Rule(k, f)
    BY <1>3
  <2> DEFINE g == [n \in 0 .. k + 1 |-> IF n = k + 1 THEN Level(k + 1, f[k]) ELSE f[n]]
  <2>2. \A n \in 0 .. k + 1 : g[n] = Level(n, g[n - 1])
    <3> SUFFICES ASSUME NEW n \in 0 .. k + 1 PROVE g[n] = Level(n, g[n - 1])
      OBVIOUS
    <3>1. \A i \in 0 .. k : g[i] = f[i] /\ f[i] = Level(i, f[i - 1])
      BY <2>1
    <3>2. CASE n = k + 1
      BY <3>1, <3>2
    <3>3. CASE n \in 1 .. k
      <4>1. n \in 0 .. k /\ n - 1 \in 0 .. k /\ n # k + 1
        BY <3>3
      <4>2. g[n] = f[n] /\ g[n - 1] = f[n - 1]
        BY <4>1, <3>1
      <4> QED
        BY <4>1, <4>2, <3>1
    <3>4. CASE n = 0
      BY <3>1, <3>4, <1>1
    <3> QED
      BY <3>2, <3>3, <3>4
  <2>3. Rule(k + 1, g)
    BY <2>2
  <2> HIDE DEF g, Rule
  <2> QED
    BY <2>3, <1>0
<1>4. Nesting \in S
  <2> HIDE DEF S
  <2> QED
    BY <1>0, <1>2, <1>3, UpTo
<1>5. Rule(Nesting, Trees)
  BY <1>4, Zenon DEF Trees, Level, Branches
<1>6. ASSUME NEW n \in 0 .. Nesting PROVE Trees[n] = Level(n, Trees[n - 1])
  <2> HIDE DEF Level
  <2> QED
    BY <1>5
<1>7. Trees[0] = {}
  <2>1. Trees[0] = Level(0, Trees[0 - 1])
    BY <1>0, <1>6
  <2> QED
    BY <2>1 DEF Level
<1>8. ASSUME NEW n \in 1 .. Nesting PROVE Trees[n] = Leaves \cup Branches(Trees[n - 1])
  <2>1. n \in 0 .. Nesting /\ n # 0
    BY <1>0
  <2>2. Trees[n] = Level(n, Trees[n - 1])
    BY <2>1, <1>6
  <2> QED
    BY <2>1, <2>2 DEF Level
<1> QED
  BY <1>7, <1>8

(* What a tag consists of: a text, which may be missing, or smaller tags.      *)
LEMMA PartsOfTag ==
    ASSUME NEW n \in 1 .. Nesting, NEW tag \in Trees[n]
    PROVE  /\ n - 1 \in 0 .. Nesting /\ n \in 0 .. Nesting
           /\ tag.name \in Texts /\ tag.text \in SUBSET Texts
           /\ tag.tags \in Seq(Trees[n - 1])
           /\ Len(tag.tags) \in Nat
           /\ \A i \in 1 .. Len(tag.tags) : tag.tags[i] \in Trees[n - 1]
           /\ tag.text # NoText =>
                /\ tag.tags = <<>> /\ The(tag.text) \in Texts /\ tag.text = {The(tag.text)}
<1>0. Nesting \in Nat
  BY TagsAssumption
<1>1. tag \in Leaves \cup Branches(Trees[n - 1])
  BY TreesAre
<1> DEFINE below == Trees[n - 1]
<1>2. <<>> \in Seq(below)
  OBVIOUS
<1> HIDE DEF below
<1>3. CASE tag \in Branches(below)
  <2>1. tag.name \in Texts /\ tag.text = NoText /\ tag.tags \in Seq(below)
    BY <1>3 DEF Branches
  <2>2. Len(tag.tags) \in Nat /\ \A i \in 1 .. Len(tag.tags) : tag.tags[i] \in below
    BY <2>1, LenProperties, ElementOfSeq
  <2> QED
    BY <1>0, <2>1, <2>2 DEF NoText, below
<1>4. CASE tag \in Leaves
  <2>1. /\ tag.name \in Texts /\ tag.tags = <<>>
        /\ tag.text \in {some \in SUBSET Texts : \A s, t \in some : s = t}
    BY <1>4 DEF Leaves
  <2>2. Len(tag.tags) = 0
    BY <2>1
  <2>3. ASSUME tag.text # NoText PROVE The(tag.text) \in Texts /\ tag.text = {The(tag.text)}
    <3>1. PICK x : x \in tag.text
      BY <2>3 DEF NoText
    <3>2. The(tag.text) \in tag.text
      BY <3>1 DEF The
    <3> QED
      BY <2>1, <3>2
  <2> QED
    BY <1>0, <1>2, <2>1, <2>2, <2>3 DEF below
<1> QED
  BY <1>1, <1>3, <1>4 DEF below

(* What is in a tag is the tag, and what is in its tags.                       *)
LEMMA WithinIs ==
    \A n \in 1 .. Nesting : \A tag \in Trees[n] :
      Within[n][tag] = {tag} \cup UNION {Within[n - 1][tag.tags[i]] : i \in DOMAIN tag.tags}
<1>0. Nesting \in Nat
  BY TagsAssumption
<1> DEFINE Inside(below, tag) == {tag} \cup UNION {below[tag.tags[i]] : i \in DOMAIN tag.tags}
           Level(n, below) == [tag \in Trees[n] |-> Inside(below, tag)]
           Rule(k, f) == f = [n \in 0 .. k |-> Level(n, f[n - 1])]
           S == {k \in 0 .. Nesting : \E f : Rule(k, f)}
<1>1. \A x, y : Level(0, x) = Level(0, y)
  <2> HIDE DEF Inside
  <2> QED
    BY TreesAre
<1> HIDE DEF Level
<1>2. 0 \in S
  <2> DEFINE f == [n \in 0 .. 0 |-> Level(0, 0)]
  <2>1. f = [n \in 0 .. 0 |-> Level(n, f[n - 1])]
    BY <1>1
  <2> HIDE DEF f
  <2> QED
    BY <2>1, <1>0
<1>3. ASSUME NEW k \in 0 .. Nesting - 1, k \in S PROVE k + 1 \in S
  <2>1. PICK f : Rule(k, f)
    BY <1>3
  <2> DEFINE g == [n \in 0 .. k + 1 |-> IF n = k + 1 THEN Level(k + 1, f[k]) ELSE f[n]]
  <2>2. \A n \in 0 .. k + 1 : g[n] = Level(n, g[n - 1])
    <3> SUFFICES ASSUME NEW n \in 0 .. k + 1 PROVE g[n] = Level(n, g[n - 1])
      OBVIOUS
    <3>1. \A i \in 0 .. k : g[i] = f[i] /\ f[i] = Level(i, f[i - 1])
      BY <2>1
    <3>2. CASE n = k + 1
      BY <3>1, <3>2
    <3>3. CASE n \in 1 .. k
      <4>1. n \in 0 .. k /\ n - 1 \in 0 .. k /\ n # k + 1
        BY <3>3
      <4>2. g[n] = f[n] /\ g[n - 1] = f[n - 1]
        BY <4>1, <3>1
      <4> QED
        BY <4>1, <4>2, <3>1
    <3>4. CASE n = 0
      BY <3>1, <3>4, <1>1
    <3> QED
      BY <3>2, <3>3, <3>4
  <2>3. Rule(k + 1, g)
    BY <2>2
  <2> HIDE DEF g, Rule
  <2> QED
    BY <2>3, <1>0
<1>4. Nesting \in S
  <2> HIDE DEF S
  <2> QED
    BY <1>0, <1>2, <1>3, UpTo
<1>5. Rule(Nesting, Within)
  BY <1>4, Zenon DEF Within, Level
<1>6. ASSUME NEW n \in 0 .. Nesting PROVE Within[n] = Level(n, Within[n - 1])
  BY <1>5
<1>7. ASSUME NEW n \in 1 .. Nesting, NEW tag \in Trees[n]
      PROVE  Within[n][tag] = Inside(Within[n - 1], tag)
  <2> HIDE DEF Inside
  <2>1. n \in 0 .. Nesting
    BY <1>0
  <2> QED
    BY <2>1, <1>6 DEF Level
<1> QED
  BY <1>7

-----------------------------------------------------------------------------
(* The walk of an expansion                                                    *)

StrokeSet == [does : {"type", "down", "up"}, key : Texts]

Typings == [strokes : Seq(StrokeSet), counted : Nat, undoable : BOOLEAN]

\* What is typed for each tag, by the depth
TypedRule(typed) ==
    \A n \in 1 .. Nesting : \A tag \in Trees[n] : typed[n][tag] = ExpandedBy(typed[n - 1], tag)

(* The walk goes to every tag, and does with it what ExpandedBy says.          *)
LEMMA ExpandedGoes ==
    \E typed : TypedRule(typed) /\ \A top : Expanded(top) = typed[Nesting][top]
<1>0. Nesting \in Nat
  BY TagsAssumption
<1> DEFINE Level(n, below) == [tag \in Trees[n] |-> ExpandedBy(below, tag)]
           Rule(k, f) == f = [n \in 0 .. k |-> Level(n, f[n - 1])]
           S == {k \in 0 .. Nesting : \E f : Rule(k, f)}
           typed == CHOOSE f : Rule(Nesting, f)
<1>1. \A x, y : Level(0, x) = Level(0, y)
  BY TreesAre
<1>2. \A top : Expanded(top) = typed[Nesting][top]
  BY Zenon DEF Expanded
<1> HIDE DEF Level
<1>3. 0 \in S
  <2> DEFINE f == [n \in 0 .. 0 |-> Level(0, 0)]
  <2>1. f = [n \in 0 .. 0 |-> Level(n, f[n - 1])]
    BY <1>1
  <2> HIDE DEF f
  <2> QED
    BY <2>1, <1>0
<1>4. ASSUME NEW k \in 0 .. Nesting - 1, k \in S PROVE k + 1 \in S
  <2>1. PICK f : Rule(k, f)
    BY <1>4
  <2> DEFINE g == [n \in 0 .. k + 1 |-> IF n = k + 1 THEN Level(k + 1, f[k]) ELSE f[n]]
  <2>2. \A n \in 0 .. k + 1 : g[n] = Level(n, g[n - 1])
    <3> SUFFICES ASSUME NEW n \in 0 .. k + 1 PROVE g[n] = Level(n, g[n - 1])
      OBVIOUS
    <3>1. \A i \in 0 .. k : g[i] = f[i] /\ f[i] = Level(i, f[i - 1])
      BY <2>1
    <3>2. CASE n = k + 1
      BY <3>1, <3>2
    <3>3. CASE n \in 1 .. k
      <4>1. n \in 0 .. k /\ n - 1 \in 0 .. k /\ n # k + 1
        BY <3>3
      <4>2. g[n] = f[n] /\ g[n - 1] = f[n - 1]
        BY <4>1, <3>1
      <4> QED
        BY <4>1, <4>2, <3>1
    <3>4. CASE n = 0
      BY <3>1, <3>4, <1>1
    <3> QED
      BY <3>2, <3>3, <3>4
  <2>3. Rule(k + 1, g)
    BY <2>2
  <2> HIDE DEF g, Rule
  <2> QED
    BY <2>3, <1>0
<1>5. Nesting \in S
  <2> HIDE DEF S
  <2> QED
    BY <1>0, <1>3, <1>4, UpTo
<1>6. Rule(Nesting, typed)
  <2> HIDE DEF Rule
  <2> QED
    BY <1>5
<1> HIDE DEF typed
<1>7. ASSUME NEW n \in 0 .. Nesting PROVE typed[n] = Level(n, typed[n - 1])
  BY <1>6
<1>8. ASSUME NEW n \in 1 .. Nesting, NEW tag \in Trees[n]
      PROVE  typed[n][tag] = ExpandedBy(typed[n - 1], tag)
  <2>1. n \in 0 .. Nesting
    BY <1>0
  <2> QED
    BY <2>1, <1>7 DEF Level
<1> QED
  BY <1>2, <1>8 DEF TypedRule

-----------------------------------------------------------------------------
(* The keys that are down.  Strokes that bring whatever is held back to itself *)
(* do so one after the other, and between a key that goes down and comes up.   *)

Holds == Seq(Texts)

\* held is what is down after each of the strokes, when start was down before.
HeldRule(held, start, strokes) ==
    /\ held \in [0 .. Len(strokes) -> Holds] /\ held[0] = start
    /\ \A k \in 1 .. Len(strokes) : held[k] = HeldAfter(held[k - 1], strokes[k])

Balanced(strokes) ==
    \A start \in Holds : \E held : HeldRule(held, start, strokes) /\ held[Len(strokes)] = start

(* What is held is told by the strokes.                                        *)
LEMMA HeldIsOne ==
    ASSUME NEW strokes \in Seq(StrokeSet), NEW start,
           NEW g, HeldRule(g, start, strokes),
           NEW h, h[0] = start,
           \A k \in 1 .. Len(strokes) : h[k] = HeldAfter(h[k - 1], strokes[k])
    PROVE  g[Len(strokes)] = h[Len(strokes)]
<1> DEFINE N == Len(strokes)
           S == {k \in 0 .. N : g[k] = h[k]}
<1>1. N \in Nat
  BY LenProperties
<1>2. 0 \in S
  BY <1>1 DEF HeldRule
<1>3. ASSUME NEW k \in 0 .. N - 1, k \in S PROVE k + 1 \in S
  <2>1. k + 1 \in 1 .. N /\ (k + 1) - 1 = k /\ k + 1 \in 0 .. N
    BY <1>1
  <2>2. g[k + 1] = HeldAfter(g[k], strokes[k + 1])
    BY <2>1 DEF HeldRule
  <2>3. h[k + 1] = HeldAfter(h[k], strokes[k + 1])
    BY <2>1
  <2> QED
    BY <1>3, <2>1, <2>2, <2>3
<1>4. N \in S
  <2> HIDE DEF N, S
  <2>1. \A k \in 0 .. N - 1 : k \in S => k + 1 \in S
    BY <1>3
  <2>2. \A k \in 0 .. N : k \in S
    BY ONLY <1>1, <1>2, <2>1, UpTo
  <2> QED
    BY <1>1, <2>2
<1> QED
  BY <1>4

(* Nothing, or characters alone, change nothing.                               *)
LEMMA TypedIsBalanced ==
    ASSUME NEW strokes \in Seq(StrokeSet),
           \A k \in 1 .. Len(strokes) : strokes[k].does = "type"
    PROVE  Balanced(strokes)
<1> SUFFICES ASSUME NEW start \in Holds
             PROVE  \E held : HeldRule(held, start, strokes) /\ held[Len(strokes)] = start
  BY DEF Balanced
<1>1. Len(strokes) \in Nat
  BY LenProperties
<1> DEFINE held == [k \in 0 .. Len(strokes) |-> start]
<1>2. \A k \in 1 .. Len(strokes) : held[k] = HeldAfter(held[k - 1], strokes[k])
  <2>1. ASSUME NEW k \in 1 .. Len(strokes) PROVE held[k] = HeldAfter(held[k - 1], strokes[k])
    <3>1. held[k] = start /\ held[k - 1] = start
      BY <1>1
    <3>2. strokes[k].does = "type"
      OBVIOUS
    <3> QED
      BY <3>1, <3>2 DEF HeldAfter
  <2> QED
    BY <2>1
<1>3. HeldRule(held, start, strokes) /\ held[Len(strokes)] = start
  BY <1>1, <1>2 DEF HeldRule
<1> QED
  BY <1>3

LEMMA ConcatIsBalanced ==
    ASSUME NEW u \in Seq(StrokeSet), NEW v \in Seq(StrokeSet), Balanced(u), Balanced(v)
    PROVE  Balanced(u \o v)
<1> SUFFICES ASSUME NEW start \in Holds
             PROVE  \E held : HeldRule(held, start, u \o v) /\ held[Len(u \o v)] = start
  BY DEF Balanced
<1> DEFINE a == Len(u)  b == Len(v)
<1>1. /\ a \in Nat /\ b \in Nat /\ Len(u \o v) = a + b
      /\ \A k \in 1 .. a : (u \o v)[k] = u[k]
      /\ \A k \in 1 .. a + b : k > a => (u \o v)[k] = v[k - a]
  BY LenProperties, ConcatProperties
<1>2. PICK g : HeldRule(g, start, u) /\ g[a] = start
  BY DEF Balanced
<1>3. PICK h : HeldRule(h, start, v) /\ h[b] = start
  BY DEF Balanced
<1>4. /\ g \in [0 .. a -> Holds] /\ g[0] = start /\ g[a] = start
      /\ \A k \in 1 .. a : g[k] = HeldAfter(g[k - 1], u[k])
  BY <1>2 DEF HeldRule
<1>5. /\ h \in [0 .. b -> Holds] /\ h[0] = start /\ h[b] = start
      /\ \A k \in 1 .. b : h[k] = HeldAfter(h[k - 1], v[k])
  BY <1>3 DEF HeldRule
<1> DEFINE both == u \o v
<1> HIDE DEF a, b, both
<1> DEFINE held == [k \in 0 .. a + b |-> IF k <= a THEN g[k] ELSE h[k - a]]
<1>6. held \in [0 .. a + b -> Holds] /\ held[0] = start /\ held[a + b] = start
  <2>1. ASSUME NEW k \in 0 .. a + b PROVE held[k] \in Holds
    <3>1. CASE k <= a
      <4>1. k \in 0 .. a /\ held[k] = g[k]
        BY <1>1, <3>1
      <4> QED
        BY <4>1, <1>4
    <3>2. CASE k > a
      <4>1. k - a \in 0 .. b /\ held[k] = h[k - a]
        BY <1>1, <3>2
      <4> QED
        BY <4>1, <1>5
    <3> QED
      BY <1>1, <3>1, <3>2
  <2> QED
    BY <2>1, <1>1, <1>4, <1>5
<1>7. ASSUME NEW k \in 1 .. a + b PROVE held[k] = HeldAfter(held[k - 1], both[k])
  <2>1. CASE k <= a
    <3>1. k \in 1 .. a /\ held[k] = g[k] /\ held[k - 1] = g[k - 1]
      BY <1>1, <2>1
    <3>2. both[k] = u[k]
      BY <3>1, <1>1 DEF both
    <3> QED
      BY <3>1, <3>2, <1>4
  <2>2. CASE k > a
    <3>1. k - a \in 1 .. b /\ held[k] = h[k - a]
      BY <1>1, <2>2
    <3>2. both[k] = v[k - a]
      BY <2>2, <1>1 DEF both
    <3>3. held[k - 1] = h[(k - a) - 1]
      <4>1. CASE k = a + 1
        <5>1. k - 1 = a /\ (k - a) - 1 = 0 /\ held[k - 1] = g[k - 1]
          BY <1>1, <4>1
        <5> QED
          BY <5>1, <1>4, <1>5
      <4>2. CASE k # a + 1
        BY <1>1, <2>2, <4>2
      <4> QED
        BY <4>1, <4>2
    <3> DEFINE i == k - a
    <3>4. i \in 1 .. b /\ h[i] = HeldAfter(h[i - 1], v[i])
      BY <3>1, <1>5
    <3> QED
      BY <3>1, <3>2, <3>3, <3>4
  <2> QED
    BY <1>1, <2>1, <2>2
<1>8. HeldRule(held, start, u \o v) /\ held[Len(u \o v)] = start
  <2> HIDE DEF held
  <2>1. Len(both) = a + b
    BY <1>1 DEF both
  <2>2. HeldRule(held, start, both) /\ held[Len(both)] = start
    BY <2>1, <1>6, <1>7 DEF HeldRule
  <2> QED
    BY <2>2 DEF both
<1> QED
  BY <1>8

\* A key, and strokes while it is down
Around(key, strokes) == <<Stroke("down", key)>> \o strokes \o <<Stroke("up", key)>>

LEMMA AroundIs ==
    ASSUME NEW key \in Texts, NEW w \in Seq(StrokeSet)
    PROVE  /\ Around(key, w) \in Seq(StrokeSet) /\ Len(Around(key, w)) = Len(w) + 2
           /\ Around(key, w)[1] = Stroke("down", key)
           /\ \A k \in 1 .. Len(w) : Around(key, w)[k + 1] = w[k]
           /\ Around(key, w)[Len(w) + 2] = Stroke("up", key)
<1> DEFINE first == <<Stroke("down", key)>>
           last == <<Stroke("up", key)>>
<1>1. /\ first \in Seq(StrokeSet) /\ Len(first) = 1 /\ first[1] = Stroke("down", key)
      /\ last \in Seq(StrokeSet) /\ Len(last) = 1 /\ last[1] = Stroke("up", key)
  BY DEF StrokeSet, Stroke
<1> HIDE DEF first, last
<1>2. Len(w) \in Nat
  BY LenProperties
<1>3. /\ first \o w \in Seq(StrokeSet) /\ Len(first \o w) = Len(w) + 1
      /\ (first \o w)[1] = first[1] /\ \A k \in 1 .. Len(w) : (first \o w)[k + 1] = w[k]
  <2>1. /\ first \o w \in Seq(StrokeSet) /\ Len(first \o w) = 1 + Len(w)
        /\ \A k \in 1 .. 1 + Len(w) :
              (first \o w)[k] = IF k <= 1 THEN first[k] ELSE w[k - 1]
    BY <1>1, ConcatProperties
  <2>2. 1 \in 1 .. 1 + Len(w)
    BY <1>2
  <2>3. (first \o w)[1] = first[1]
    BY <2>1, <2>2
  <2>4. ASSUME NEW k \in 1 .. Len(w) PROVE (first \o w)[k + 1] = w[k]
    <3>1. k + 1 \in 1 .. 1 + Len(w) /\ ~(k + 1 <= 1) /\ (k + 1) - 1 = k
      BY <1>2
    <3> QED
      BY <2>1, <3>1
  <2> QED
    BY <1>2, <2>1, <2>3, <2>4
<1> DEFINE front == first \o w
<1> HIDE DEF front
<1>4. /\ front \in Seq(StrokeSet) /\ Len(front) = Len(w) + 1
      /\ front[1] = first[1] /\ \A k \in 1 .. Len(w) : front[k + 1] = w[k]
  BY <1>3 DEF front
<1>5. /\ front \o last \in Seq(StrokeSet) /\ Len(front \o last) = Len(w) + 2
      /\ \A k \in 1 .. Len(w) + 1 : (front \o last)[k] = front[k]
      /\ (front \o last)[Len(w) + 2] = last[1]
  BY <1>1, <1>2, <1>4, ConcatProperties
<1> QED
  BY <1>1, <1>2, <1>4, <1>5 DEF front, first, last, Around

LEMMA AroundIsBalanced ==
    ASSUME NEW key \in Texts, NEW w \in Seq(StrokeSet), Balanced(w)
    PROVE  Balanced(Around(key, w))
<1> SUFFICES ASSUME NEW start \in Holds
             PROVE  \E held : /\ HeldRule(held, start, Around(key, w))
                              /\ held[Len(Around(key, w))] = start
  BY DEF Balanced
<1> DEFINE more == Append(start, key)  n == Len(w)  all == Around(key, w)
<1>1. n \in Nat
  BY LenProperties
<1>2. more \in Holds /\ more # <<>> /\ Last(more) = key /\ Front(more) = start
  <2>1. start \in Seq(Texts)
    BY DEF Holds
  <2>2. /\ more \in Seq(Texts) /\ Len(more) = Len(start) + 1 /\ Len(start) \in Nat
        /\ more[Len(more)] = key
    BY <2>1, AppendProperties, LenProperties
  <2>3. SubSeq(more, 1, Len(more) - 1) = start
    BY <2>1, <2>2, AppendProperties
  <2> QED
    BY <2>2, <2>3 DEF Last, Front, Holds
<1> HIDE DEF more
<1>3. PICK g : HeldRule(g, more, w) /\ g[n] = more
  BY <1>2 DEF Balanced
<1>4. /\ g \in [0 .. n -> Holds] /\ g[0] = more /\ g[n] = more
      /\ \A k \in 1 .. n : g[k] = HeldAfter(g[k - 1], w[k])
  BY <1>3 DEF HeldRule
<1>5. /\ Len(all) = n + 2 /\ all[1] = Stroke("down", key) /\ all[n + 2] = Stroke("up", key)
      /\ \A k \in 1 .. n : all[k + 1] = w[k]
  BY AroundIs
<1> HIDE DEF n, all
<1> DEFINE held == [k \in 0 .. n + 2 |-> IF k \in {0, n + 2} THEN start ELSE g[k - 1]]
<1>6. held \in [0 .. n + 2 -> Holds] /\ held[0] = start /\ held[n + 2] = start
  BY <1>1, <1>4
<1>7. ASSUME NEW k \in 1 .. n + 2 PROVE held[k] = HeldAfter(held[k - 1], all[k])
  <2>1. CASE k = 1
    <3>1. held[k - 1] = start /\ held[k] = more
      BY <1>1, <1>4, <2>1
    <3>2. HeldAfter(start, Stroke("down", key)) = more
      BY DEF HeldAfter, Stroke, more
    <3> QED
      BY <2>1, <3>1, <3>2, <1>5
  <2>2. CASE k = n + 2
    <3>1. held[k - 1] = more /\ held[k] = start
      BY <1>1, <1>4, <2>2
    <3>2. HeldAfter(more, Stroke("up", key)) = start
      BY <1>2 DEF HeldAfter, Stroke
    <3> QED
      BY <2>2, <3>1, <3>2, <1>5
  <2>3. CASE k \in 2 .. n + 1
    <3> DEFINE i == k - 1
    <3>1. i \in 1 .. n /\ k = i + 1 /\ held[k] = g[i] /\ held[k - 1] = g[i - 1]
      BY <1>1, <2>3
    <3>2. all[i + 1] = w[i] /\ g[i] = HeldAfter(g[i - 1], w[i])
      BY <3>1, <1>4, <1>5
    <3> HIDE DEF i
    <3> QED
      BY <3>1, <3>2
  <2> QED
    BY <1>1, <2>1, <2>2, <2>3
<1>8. HeldRule(held, start, all) /\ held[Len(all)] = start
  <2> HIDE DEF held
  <2> QED
    BY <1>5, <1>6, <1>7 DEF HeldRule
<1> QED
  BY <1>8 DEF all

-----------------------------------------------------------------------------
(* The keys and characters that show: all strokes but those of keys that come  *)
(* up.                                                                         *)

Downs(strokes) == {k \in DOMAIN strokes : strokes[k].does # "up"}

LEMMA DownsAreFinite ==
    ASSUME NEW w \in Seq(StrokeSet)
    PROVE  IsFiniteSet(Downs(w)) /\ Cardinality(Downs(w)) \in Nat /\ Downs(w) \subseteq 1 .. Len(w)
<1>1. Len(w) \in Nat /\ DOMAIN w = 1 .. Len(w)
  BY LenProperties
<1>2. IsFiniteSet(1 .. Len(w)) /\ Downs(w) \subseteq 1 .. Len(w)
  BY <1>1, FS_Interval DEF Downs
<1>3. IsFiniteSet(Downs(w))
  BY <1>2, FS_Subset
<1> QED
  BY <1>2, <1>3, FS_CardinalityType

Further(a, B) == {a + k : k \in B}

(* Places in one sequence, and in another that follows it                      *)
LEMMA CountTogether ==
    ASSUME NEW a \in Nat, NEW b \in Nat, NEW A, NEW B, A \subseteq 1 .. a, B \subseteq 1 .. b
    PROVE  /\ Cardinality(A) \in Nat /\ Cardinality(B) \in Nat
           /\ Cardinality(A \cup Further(a, B)) = Cardinality(A) + Cardinality(B)
<1> DEFINE moved == {a + k : k \in B}
           f == [k \in B |-> a + k]
<1>1. IsFiniteSet(A) /\ IsFiniteSet(B)
  <2>1. IsFiniteSet(1 .. a) /\ IsFiniteSet(1 .. b)
    BY FS_Interval
  <2> QED
    BY <2>1, FS_Subset
<1>2. f \in Bijection(B, moved)
  <2>1. f \in [B -> moved] /\ \A x \in moved : \E k \in B : f[k] = x
    OBVIOUS
  <2>2. \A k, l \in B : f[k] = f[l] => k = l
    <3>1. \A k \in B : k \in Nat /\ f[k] = a + k
      OBVIOUS
    <3> HIDE DEF f
    <3> QED
      BY <3>1
  <2> HIDE DEF f, moved
  <2> QED
    BY <2>1, <2>2, Fun_IsBij
<1>3. IsFiniteSet(moved) /\ Cardinality(moved) = Cardinality(B)
  <2> HIDE DEF f, moved
  <2>1. ExistsBijection(B, moved)
    BY <1>2 DEF ExistsBijection
  <2> QED
    BY <1>1, <2>1, FS_Bijection
<1>4. A \cap moved = {}
  <2>1. \A k \in moved : ~(k <= a)
    OBVIOUS
  <2>2. \A k \in A : k <= a
    OBVIOUS
  <2> QED
    BY <2>1, <2>2
<1>5. Cardinality(A) \in Nat /\ Cardinality(B) \in Nat
  BY <1>1, FS_CardinalityType
<1>6. Cardinality(A \cup moved) = Cardinality(A) + Cardinality(moved)
  <2>1. Cardinality(A \cap moved) = 0
    BY <1>4, FS_EmptySet
  <2>2. Cardinality(A \cup moved) = Cardinality(A) + Cardinality(moved) - Cardinality(A \cap moved)
    BY <1>1, <1>3, FS_Union
  <2> QED
    BY <1>3, <1>5, <2>1, <2>2
<1> QED
  BY <1>3, <1>5, <1>6 DEF Further

LEMMA DownsOfConcat ==
    ASSUME NEW u \in Seq(StrokeSet), NEW v \in Seq(StrokeSet)
    PROVE  Cardinality(Downs(u \o v)) = Cardinality(Downs(u)) + Cardinality(Downs(v))
<1> DEFINE a == Len(u)  b == Len(v)  both == u \o v
           moved == Further(a, Downs(v))
<1>1. /\ a \in Nat /\ b \in Nat /\ Len(both) = a + b
      /\ DOMAIN u = 1 .. a /\ DOMAIN v = 1 .. b /\ both \in Seq(StrokeSet)
      /\ \A k \in 1 .. a : both[k] = u[k]
      /\ \A k \in 1 .. a + b : k > a => both[k] = v[k - a]
  BY LenProperties, ConcatProperties
<1>2. DOMAIN both = 1 .. a + b
  BY <1>1, LenProperties
<1>3. Downs(u) \subseteq 1 .. a /\ Downs(v) \subseteq 1 .. b
  BY DownsAreFinite
<1> HIDE DEF a, b, both
<1>4. \A k \in 1 .. b : both[a + k] = v[k]
  <2>1. ASSUME NEW k \in 1 .. b PROVE both[a + k] = v[k]
    <3>1. a + k \in 1 .. a + b /\ a + k > a /\ (a + k) - a = k
      BY <1>1
    <3> QED
      BY <3>1, <1>1
  <2> QED
    BY <2>1
<1>5. Downs(both) = Downs(u) \cup moved
  <2>0. moved = {a + k : k \in Downs(v)}
    BY DEF Further
  <2>1. ASSUME NEW k \in Downs(both) PROVE k \in Downs(u) \cup moved
    <3>1. k \in 1 .. a + b /\ both[k].does # "up"
      BY <1>2 DEF Downs
    <3>2. CASE k <= a
      BY <1>1, <3>1, <3>2 DEF Downs
    <3>3. CASE k > a
      <4>1. k - a \in 1 .. b /\ v[k - a].does # "up" /\ k = a + (k - a)
        BY <1>1, <3>1, <3>3
      <4>2. k - a \in Downs(v)
        BY <4>1, <1>1 DEF Downs
      <4> QED
        BY <2>0, <4>1, <4>2
    <3> QED
      BY <1>1, <3>1, <3>2, <3>3
  <2>2. ASSUME NEW k \in Downs(u) PROVE k \in Downs(both)
    <3>1. k \in 1 .. a /\ u[k].does # "up"
      BY <1>1 DEF Downs
    <3>2. k \in 1 .. a + b /\ both[k] = u[k]
      BY <3>1, <1>1
    <3> QED
      BY <3>1, <3>2, <1>2 DEF Downs
  <2>3. ASSUME NEW k \in Downs(v) PROVE a + k \in Downs(both)
    <3>1. k \in 1 .. b /\ v[k].does # "up"
      BY <1>1 DEF Downs
    <3>2. a + k \in 1 .. a + b /\ both[a + k] = v[k]
      BY <3>1, <1>1, <1>4
    <3> QED
      BY <3>1, <3>2, <1>2 DEF Downs
  <2> QED
    BY <2>0, <2>1, <2>2, <2>3
<1>7. Cardinality(Downs(u) \cup moved) = Cardinality(Downs(u)) + Cardinality(Downs(v))
  BY <1>1, <1>3, CountTogether
<1> QED
  BY <1>5, <1>7 DEF both

LEMMA DownsOfOne ==
    ASSUME NEW key \in Texts
    PROVE  /\ <<Stroke("down", key)>> \in Seq(StrokeSet)
           /\ <<Stroke("up", key)>> \in Seq(StrokeSet)
           /\ Cardinality(Downs(<<Stroke("down", key)>>)) = 1
           /\ Cardinality(Downs(<<Stroke("up", key)>>)) = 0
<1>1. Downs(<<Stroke("down", key)>>) = {1} /\ Downs(<<Stroke("up", key)>>) = {}
  BY DEF Downs, Stroke
<1>2. Cardinality({1}) = 1 /\ Cardinality({}) = 0
  BY FS_Singleton, FS_EmptySet
<1>3. Stroke("down", key) \in StrokeSet /\ Stroke("up", key) \in StrokeSet
  BY DEF StrokeSet, Stroke
<1> QED
  BY <1>1, <1>2, <1>3

LEMMA DownsOfAround ==
    ASSUME NEW key \in Texts, NEW w \in Seq(StrokeSet)
    PROVE  Cardinality(Downs(Around(key, w))) = Cardinality(Downs(w)) + 1
<1> DEFINE first == <<Stroke("down", key)>>
           last == <<Stroke("up", key)>>
<1>1. /\ first \in Seq(StrokeSet) /\ last \in Seq(StrokeSet)
      /\ Cardinality(Downs(first)) = 1 /\ Cardinality(Downs(last)) = 0
  BY DownsOfOne
<1> HIDE DEF first, last
<1>2. first \o w \in Seq(StrokeSet)
  BY <1>1, ConcatProperties
<1>3. Cardinality(Downs(first \o w)) = 1 + Cardinality(Downs(w))
  BY <1>1, DownsOfConcat
<1>4. Cardinality(Downs((first \o w) \o last)) = Cardinality(Downs(first \o w)) + 0
  BY <1>1, <1>2, DownsOfConcat
<1>5. Cardinality(Downs(w)) \in Nat
  BY DownsAreFinite
<1> QED
  BY <1>3, <1>4, <1>5 DEF Around, first, last

-----------------------------------------------------------------------------
(* What the tags of an expansion type                                          *)

\* A walk that leaves no key down
Fair(w) == w \in Typings /\ Balanced(w.strokes)

\* It counts what shows, when it can be undone.
Right(w) == w.undoable => w.counted = Cardinality(Downs(w.strokes))

\* Its text counts.
Plain(tag) == tag.text # NoText => tag.name \in {<<"expand">>, <<"text">>}

LEMMA OneCharacter ==
    ASSUME NEW C, NEW text \in Seq(C), NEW i \in 1 .. Len(text)
    PROVE  <<text[i]>> \in Seq(C)
<1>1. text[i] \in C
  BY ElementOfSeq
<1> QED
  BY <1>1

LEMMA FunctionIsSeq ==
    ASSUME NEW S, NEW n \in Nat, NEW f \in [1 .. n -> S]
    PROVE  f \in Seq(S) /\ Len(f) = n /\ DOMAIN f = 1 .. n
  OBVIOUS

LEMMA TypeStringIs ==
    ASSUME NEW text \in Texts
    PROVE  /\ TypeString(text) \in Seq(StrokeSet) /\ Len(text) \in Nat
           /\ Balanced(TypeString(text)) /\ Cardinality(Downs(TypeString(text))) = Len(text)
<1>1. Len(text) \in Nat
  BY LenProperties DEF Texts
<1>2. \A i \in 1 .. Len(text) : <<text[i]>> \in Texts
  <2>1. ASSUME NEW C, NEW t \in Seq(C) PROVE \A i \in 1 .. Len(t) : <<t[i]>> \in Seq(C)
    BY OneCharacter
  <2> QED
    BY <2>1 DEF Texts
<1> DEFINE n == Len(text)  strokes == [i \in 1 .. n |-> Stroke("type", <<text[i]>>)]
<1>3. \A i \in 1 .. n : Stroke("type", <<text[i]>>) \in StrokeSet
  BY <1>2 DEF Stroke, StrokeSet
<1>4. strokes \in Seq(StrokeSet) /\ Len(strokes) = n /\ DOMAIN strokes = 1 .. n
  <2>1. n \in Nat
    BY <1>1
  <2>2. strokes \in [1 .. n -> StrokeSet]
    BY <1>3
  <2> HIDE DEF n, strokes
  <2> QED
    BY <2>1, <2>2, FunctionIsSeq
<1>5. \A k \in 1 .. n : strokes[k].does = "type"
  BY DEF Stroke
<1>6. TypeString(text) = strokes
  BY DEF TypeString
<1> HIDE DEF strokes, n
<1>7. Balanced(strokes)
  BY <1>4, <1>5, TypedIsBalanced
<1>8. Downs(strokes) = 1 .. n
  BY <1>4, <1>5 DEF Downs
<1>9. Cardinality(1 .. n) = n
  <2>1. n \in Nat
    BY <1>1 DEF n
  <2> QED
    BY <2>1, FS_Interval
<1> QED
  BY <1>1, <1>4, <1>6, <1>7, <1>8, <1>9 DEF n

LEMMA NothingTyped ==
    /\ Typing(<<>>, 0, TRUE) \in Typings /\ Balanced(<<>>) /\ Cardinality(Downs(<<>>)) = 0
<1>1. <<>> \in Seq(StrokeSet) /\ Len(<<>>) = 0
  OBVIOUS
<1>2. Balanced(<<>>)
  <2>1. \A k \in 1 .. Len(<<>>) : <<>>[k].does = "type"
    BY <1>1
  <2> DEFINE none == <<>>
  <2>2. none \in Seq(StrokeSet) /\ \A k \in 1 .. Len(none) : none[k].does = "type"
    BY <1>1, <2>1
  <2>3. Balanced(none)
    <3> HIDE DEF none
    <3> QED
      BY <2>2, TypedIsBalanced
  <2> QED
    BY <2>3
<1>3. Downs(<<>>) = {}
  BY DEF Downs
<1> QED
  BY <1>1, <1>2, <1>3, FS_EmptySet DEF Typing, Typings

LEMMA TypedThenIs ==
    ASSUME NEW v \in Typings, NEW w \in Typings
    PROVE  /\ TypedThen(v, w) \in Typings
           /\ Fair(v) /\ Fair(w) => Fair(TypedThen(v, w))
           /\ Right(v) /\ Right(w) => Right(TypedThen(v, w))
<1>1. /\ v.strokes \in Seq(StrokeSet) /\ v.counted \in Nat /\ v.undoable \in BOOLEAN
      /\ w.strokes \in Seq(StrokeSet) /\ w.counted \in Nat /\ w.undoable \in BOOLEAN
  BY DEF Typings
<1> DEFINE both == v.strokes \o w.strokes  sum == v.counted + w.counted
           each == v.undoable /\ w.undoable
<1>2. TypedThen(v, w) = [strokes |-> both, counted |-> sum, undoable |-> each]
  BY DEF TypedThen, Typing
<1>3. both \in Seq(StrokeSet) /\ sum \in Nat /\ each \in BOOLEAN
  BY <1>1, ConcatProperties
<1>4. TypedThen(v, w) \in Typings
  <2> HIDE DEF both, sum, each
  <2> QED
    BY <1>2, <1>3 DEF Typings
<1>5. Fair(v) /\ Fair(w) => Fair(TypedThen(v, w))
  <2> SUFFICES ASSUME Fair(v), Fair(w) PROVE Fair(TypedThen(v, w))
    OBVIOUS
  <2>1. Balanced(both)
    BY <1>1, ConcatIsBalanced DEF Fair
  <2> HIDE DEF both, sum, each
  <2> QED
    BY <1>2, <1>4, <2>1 DEF Fair
<1>6. Right(v) /\ Right(w) => Right(TypedThen(v, w))
  <2> SUFFICES ASSUME Right(v), Right(w), each
               PROVE  sum = Cardinality(Downs(both))
    <3> HIDE DEF each, sum, both
    <3> QED
      BY <1>2 DEF Right
  <2>1. v.counted = Cardinality(Downs(v.strokes)) /\ w.counted = Cardinality(Downs(w.strokes))
    BY DEF Right
  <2>2. Cardinality(Downs(both)) = Cardinality(Downs(v.strokes)) + Cardinality(Downs(w.strokes))
    BY <1>1, DownsOfConcat
  <2> QED
    BY <2>1, <2>2
<1> QED
  BY <1>4, <1>5, <1>6

(* Tags that leave no key down, and count what shows, do so together.          *)
LEMMA TagsTypedIs ==
    ASSUME NEW S, NEW tags \in Seq(S), NEW typed,
           \A i \in 1 .. Len(tags) : Fair(typed[tags[i]])
    PROVE  /\ Fair(TagsTyped(typed, tags))
           /\ (\A i \in 1 .. Len(tags) : Right(typed[tags[i]])) => Right(TagsTyped(typed, tags))
<1> DEFINE N == Len(tags)
           start == Typing(<<>>, 0, TRUE)
           step == [p \in (1 .. N) \X Typings |-> TypedThen(p[2], typed[tags[p[1]]])]
           Rule(f) == f = [k \in 0 .. N |-> IF k = 0 THEN start
                                            ELSE TypedThen(f[k - 1], typed[tags[k]])]
           upTo == CHOOSE f : Rule(f)
<1>1. N \in Nat
  BY LenProperties
<1>2. TagsTyped(typed, tags) = upTo[N]
  BY Zenon DEF TagsTyped
<1>3. Step(step, N, Typings)
  <2>1. ASSUME NEW p \in (1 .. N) \X Typings PROVE TypedThen(p[2], typed[tags[p[1]]]) \in Typings
    <3>1. p[1] \in 1 .. N /\ p[2] \in Typings
      OBVIOUS
    <3>2. typed[tags[p[1]]] \in Typings
      BY <3>1 DEF Fair
    <3> QED
      BY <3>1, <3>2, TypedThenIs
  <2> QED
    BY <2>1 DEF Step
<1>4. PICK g : Computed(g, start, step, N, Typings)
  <2> HIDE DEF step, start, N
  <2>1. start \in Typings
    BY NothingTyped DEF start
  <2> QED
    BY <1>1, <1>3, <2>1, LoopComputes
<1>5. \A k \in 1 .. N : g[k] = TypedThen(g[k - 1], typed[tags[k]])
  <2>1. ASSUME NEW k \in 1 .. N PROVE g[k] = TypedThen(g[k - 1], typed[tags[k]])
    <3> HIDE DEF step, start
    <3>0. g \in [0 .. N -> Typings] /\ \A i \in 1 .. N : g[i] = step[<<i, g[i - 1]>>]
      BY <1>4 DEF Computed
    <3>1. g[k - 1] \in Typings /\ g[k] = step[<<k, g[k - 1]>>]
      BY <1>1, <3>0
    <3>2. <<k, g[k - 1]>> \in (1 .. N) \X Typings
      BY <3>1
    <3> QED
      BY <3>1, <3>2 DEF step
  <2> QED
    BY <2>1
<1>6. Rule(g)
  <2>1. \A k \in 0 .. N : g[k] = IF k = 0 THEN start ELSE TypedThen(g[k - 1], typed[tags[k]])
    <3> HIDE DEF start
    <3> QED
      BY <1>1, <1>4, <1>5 DEF Computed
  <2>2. g = [k \in 0 .. N |-> g[k]]
    BY <1>4 DEF Computed
  <2> HIDE DEF start
  <2> QED
    BY <2>1, <2>2
<1>7. Rule(upTo)
  <2> HIDE DEF Rule
  <2> QED
    BY <1>6
<1> HIDE DEF upTo, step
<1>8. upTo[0] = start /\ \A k \in 1 .. N : upTo[k] = TypedThen(upTo[k - 1], typed[tags[k]])
  <2>1. \A k \in 0 .. N : upTo[k] = IF k = 0 THEN start
                                   ELSE TypedThen(upTo[k - 1], typed[tags[k]])
    <3> HIDE DEF start
    <3> QED
      BY <1>7
  <2> HIDE DEF start, N
  <2> QED
    BY <1>1, <2>1
<1> DEFINE EachRight == \A i \in 1 .. N : Right(typed[tags[i]])
           U == {k \in 0 .. N : Fair(upTo[k]) /\ (EachRight => Right(upTo[k]))}
<1>9. 0 \in U
  <2>1. Fair(start) /\ Right(start)
    BY NothingTyped DEF Fair, Right, Typing
  <2> HIDE DEF start
  <2> QED
    BY <1>1, <1>8, <2>1
<1>10. ASSUME NEW k \in 0 .. N - 1, k \in U PROVE k + 1 \in U
  <2> DEFINE v == upTo[k]  w == typed[tags[k + 1]]
  <2>1. k + 1 \in 1 .. N /\ k + 1 \in 0 .. N /\ (k + 1) - 1 = k
    BY <1>1
  <2>2. upTo[k + 1] = TypedThen(v, w)
    BY <1>8, <2>1
  <2>3. Fair(v) /\ Fair(w) /\ (EachRight => Right(v) /\ Right(w))
    BY <1>10, <2>1
  <2> HIDE DEF v, w, EachRight
  <2>4. v \in Typings /\ w \in Typings
    BY <2>3 DEF Fair
  <2>5. Fair(TypedThen(v, w)) /\ (EachRight => Right(TypedThen(v, w)))
    BY <2>3, <2>4, TypedThenIs
  <2> QED
    BY <2>1, <2>2, <2>5
<1>11. N \in U
  <2> HIDE DEF N, U
  <2>1. \A k \in 0 .. N - 1 : k \in U => k + 1 \in U
    BY <1>10
  <2>2. \A k \in 0 .. N : k \in U
    BY ONLY <1>1, <1>9, <2>1, UpTo
  <2> QED
    BY <1>1, <2>2
<1> QED
  BY <1>2, <1>11

\* Strokes with the keys of a tag around them
Keyed(name, w) ==
    Pressed(name, Kind(name, "expand")) \o w \o Released(name, Kind(name, "expand"))

KeyCount(name) == CountOf(Kind(name, "expand"))

(* The keys of a tag go down before what is in it and come up after it.        *)
LEMMA KeysOfTag ==
    ASSUME NEW name \in Texts, NEW w \in Seq(StrokeSet), Balanced(w)
    PROVE  /\ KeyCount(name) \in Nat
           /\ Keyed(name, w) \in Seq(StrokeSet) /\ Balanced(Keyed(name, w))
           /\ Cardinality(Downs(Keyed(name, w))) = KeyCount(name) + Cardinality(Downs(w))
<1> DEFINE kind == Kind(name, "expand")
<1>1. kind \in {"char", "press", "none"}
  BY DEF Kind
<1> DEFINE c == Cardinality(Downs(w))
<1>2. c \in Nat
  BY DownsAreFinite
<1>3. CASE kind = "none"
  <2>1. Keyed(name, w) = (<<>> \o w) \o <<>>
    BY <1>3 DEF Keyed, Pressed, Released
  <2>2. Keyed(name, w) = w
    BY <2>1, ConcatEmptySeq
  <2>3. KeyCount(name) = 0
    BY <1>3 DEF KeyCount, CountOf
  <2>4. Cardinality(Downs(Keyed(name, w))) = c
    BY <2>2
  <2>5. Cardinality(Downs(Keyed(name, w))) = KeyCount(name) + c
    <3> HIDE DEF c
    <3> QED
      BY <1>2, <2>3, <2>4
  <2> QED
    BY <2>2, <2>3, <2>5
<1>4. CASE kind # "none"
  <2>1. Keyed(name, w) = Around(name, w)
    BY <1>4 DEF Keyed, Pressed, Released, Around
  <2>2. KeyCount(name) = 1
    BY <1>1, <1>4 DEF KeyCount, CountOf
  <2>3. /\ Keyed(name, w) \in Seq(StrokeSet) /\ Balanced(Keyed(name, w))
        /\ Cardinality(Downs(Keyed(name, w))) = c + 1
    BY <2>1, AroundIs, AroundIsBalanced, DownsOfAround
  <2>4. Cardinality(Downs(Keyed(name, w))) = KeyCount(name) + c
    <3> HIDE DEF c
    <3> QED
      BY <1>2, <2>2, <2>3
  <2> QED
    BY <2>2, <2>3, <2>4
<1> QED
  BY <1>3, <1>4

\* What ExpandedBy has before the keys of the tag
InnerOf(typed, tag) ==
    IF tag.text # NoText THEN Typing(TypeString(The(tag.text)), 0, TRUE)
    ELSE TagsTyped(typed, tag.tags)

LEMMA ExpandedByIs ==
    ASSUME NEW n \in 1 .. Nesting, NEW tag \in Trees[n], NEW typed,
           \A i \in 1 .. Len(tag.tags) : Fair(typed[tag.tags[i]])
    PROVE  /\ Fair(ExpandedBy(typed, tag))
           /\ Plain(tag) /\ (\A i \in 1 .. Len(tag.tags) : Right(typed[tag.tags[i]]))
                => Right(ExpandedBy(typed, tag))
<1> DEFINE kind == Kind(tag.name, "expand")
           inner == InnerOf(typed, tag)
           strokes == Keyed(tag.name, inner.strokes)
           count == KeyCount(tag.name) + inner.counted
           undo == kind # "press" /\ inner.undoable
           Own == tag.name \in {<<"expand">>, <<"text">>} /\ tag.text # NoText
           Apart == \A i \in 1 .. Len(tag.tags) : Right(typed[tag.tags[i]])
<1>1. /\ tag.name \in Texts /\ tag.tags \in Seq(Trees[n - 1])
      /\ tag.text # NoText => The(tag.text) \in Texts
  BY PartsOfTag
<1>2. ExpandedBy(typed, tag) = IF Own THEN [inner EXCEPT !.counted = Len(The(tag.text))]
                               ELSE Typing(strokes, count, undo)
  BY DEF ExpandedBy, InnerOf, Keyed, KeyCount
<1>3. /\ Fair(inner)
      /\ tag.text # NoText =>
           /\ Cardinality(Downs(inner.strokes)) = Len(The(tag.text))
           /\ Len(The(tag.text)) \in Nat
      /\ tag.text = NoText /\ Apart => Right(inner)
  <2>1. CASE tag.text # NoText
    <3> DEFINE text == The(tag.text)  w == TypeString(text)
    <3>1. /\ w \in Seq(StrokeSet) /\ Balanced(w) /\ Len(text) \in Nat
          /\ Cardinality(Downs(w)) = Len(text)
      BY <1>1, <2>1, TypeStringIs
    <3>2. inner = Typing(w, 0, TRUE)
      BY <2>1 DEF InnerOf
    <3> HIDE DEF w, text, inner
    <3>3. inner \in Typings /\ inner.strokes = w
      BY <3>1, <3>2 DEF Typing, Typings
    <3> QED
      BY <2>1, <3>1, <3>3 DEF Fair, text
  <2>2. CASE tag.text = NoText
    <3>1. inner = TagsTyped(typed, tag.tags)
      BY <2>2 DEF InnerOf
    <3>2. Fair(TagsTyped(typed, tag.tags)) /\ (Apart => Right(TagsTyped(typed, tag.tags)))
      BY <1>1, TagsTypedIs
    <3> HIDE DEF inner, Apart
    <3> QED
      BY <2>2, <3>1, <3>2
  <2> QED
    BY <2>1, <2>2
<1> HIDE DEF inner, kind
<1>4. /\ inner = [strokes |-> inner.strokes, counted |-> inner.counted,
                  undoable |-> inner.undoable]
      /\ inner.strokes \in Seq(StrokeSet) /\ inner.counted \in Nat
      /\ inner.undoable \in BOOLEAN /\ Balanced(inner.strokes)
  BY <1>3 DEF Fair, Typings
<1>5. CASE Own
  <2> DEFINE w == [inner EXCEPT !.counted = Len(The(tag.text))]
  <2>1. w = [strokes |-> inner.strokes, counted |-> Len(The(tag.text)),
             undoable |-> inner.undoable]
    BY <1>4
  <2>2. ExpandedBy(typed, tag) = w
    BY <1>2, <1>5
  <2>3. Fair(w) /\ Right(w)
    <3> HIDE DEF w
    <3> QED
      BY <1>3, <1>4, <1>5, <2>1 DEF Fair, Right, Typings
  <2> HIDE DEF w
  <2> QED
    BY <2>2, <2>3
<1>6. CASE ~Own
  <2> DEFINE w == Typing(strokes, count, undo)
  <2>1. /\ KeyCount(tag.name) \in Nat /\ strokes \in Seq(StrokeSet) /\ Balanced(strokes)
        /\ Cardinality(Downs(strokes)) = KeyCount(tag.name) + Cardinality(Downs(inner.strokes))
    BY <1>1, <1>4, KeysOfTag
  <2>2. count \in Nat /\ undo \in BOOLEAN
    BY <1>4, <2>1
  <2>3. w = [strokes |-> strokes, counted |-> count, undoable |-> undo]
    BY DEF Typing
  <2>4. ExpandedBy(typed, tag) = w
    BY <1>2, <1>6
  <2>5. Fair(w)
    <3> HIDE DEF w, strokes, count, undo
    <3> QED
      BY <2>1, <2>2, <2>3 DEF Fair, Typings
  <2>6. ASSUME Plain(tag), Apart PROVE Right(w)
    <3>1. tag.text = NoText
      BY <1>6, <2>6 DEF Plain
    <3>2. undo => inner.counted = Cardinality(Downs(inner.strokes))
      BY <1>3, <2>6, <3>1 DEF Right
    <3>3. undo => count = Cardinality(Downs(strokes))
      BY <2>1, <3>2
    <3> HIDE DEF w, strokes, count, undo
    <3> QED
      BY <2>3, <3>3 DEF Right
  <2> HIDE DEF w
  <2> QED
    BY <2>4, <2>5, <2>6
<1> QED
  BY <1>5, <1>6

(* An expansion leaves no key down, and counts what shows.                     *)
LEMMA ExpandedIs ==
    ASSUME NEW top \in Tree
    PROVE  /\ Fair(Expanded(top))
           /\ (\A tag \in TagsIn(top) : Plain(tag)) => Right(Expanded(top))
<1>0. Nesting \in Nat
  BY TagsAssumption
<1>1. PICK typed : TypedRule(typed) /\ \A x : Expanded(x) = typed[Nesting][x]
  BY ExpandedGoes
<1> DEFINE Good(n, tag) == /\ Fair(typed[n][tag])
                           /\ (\A x \in Within[n][tag] : Plain(x)) => Right(typed[n][tag])
           S == {n \in 0 .. Nesting : \A tag \in Trees[n] : Good(n, tag)}
<1>2. 0 \in S
  <2> HIDE DEF Good
  <2> QED
    BY <1>0, TreesAre
<1>3. ASSUME NEW k \in 0 .. Nesting - 1, k \in S PROVE k + 1 \in S
  <2>1. k + 1 \in 1 .. Nesting /\ k + 1 \in 0 .. Nesting /\ (k + 1) - 1 = k
    BY <1>0
  <2> DEFINE n == k + 1
  <2>2. n \in 1 .. Nesting /\ n - 1 = k
    BY <2>1
  <2> HIDE DEF n
  <2>3. ASSUME NEW tag \in Trees[n] PROVE Good(n, tag)
    <3>1. Len(tag.tags) \in Nat /\ \A i \in 1 .. Len(tag.tags) : tag.tags[i] \in Trees[k]
      BY <2>2, PartsOfTag
    <3>2. \A i \in 1 .. Len(tag.tags) : Good(k, tag.tags[i])
      <4> HIDE DEF Good
      <4> QED
        BY <1>3, <3>1
    <3>3. typed[n][tag] = ExpandedBy(typed[k], tag)
      BY <1>1, <2>2 DEF TypedRule
    <3>4. /\ Fair(ExpandedBy(typed[k], tag))
          /\ Plain(tag) /\ (\A i \in 1 .. Len(tag.tags) : Right(typed[k][tag.tags[i]]))
               => Right(ExpandedBy(typed[k], tag))
      BY <2>2, <3>2, ExpandedByIs
    <3>5. ASSUME \A x \in Within[n][tag] : Plain(x) PROVE Right(typed[n][tag])
      <4>1. Within[n][tag]
              = {tag} \cup UNION {Within[k][tag.tags[i]] : i \in DOMAIN tag.tags}
        BY <2>2, WithinIs
      <4>2. DOMAIN tag.tags = 1 .. Len(tag.tags)
        BY <2>2, PartsOfTag, LenProperties
      <4>3. Plain(tag) /\ \A i \in 1 .. Len(tag.tags) : \A x \in Within[k][tag.tags[i]] : Plain(x)
        BY <3>5, <4>1, <4>2
      <4>4. \A i \in 1 .. Len(tag.tags) : Right(typed[k][tag.tags[i]])
        BY <3>2, <4>3
      <4> QED
        BY <3>3, <3>4, <4>3, <4>4
    <3> QED
      BY <3>3, <3>4, <3>5
  <2> QED
    BY <2>1, <2>3 DEF n
<1>4. Nesting \in S
  <2> HIDE DEF S
  <2>1. \A k \in 0 .. Nesting - 1 : k \in S => k + 1 \in S
    BY <1>3
  <2>2. \A k \in 0 .. Nesting : k \in S
    BY ONLY <1>0, <1>2, <2>1, UpTo
  <2> QED
    BY <1>0, <2>2
<1>5. Good(Nesting, top)
  <2> HIDE DEF Good
  <2> QED
    BY <1>4 DEF Tree
<1> QED
  BY <1>1, <1>5 DEF TagsIn

-----------------------------------------------------------------------------
(* What has been typed is the expansion of the tree that is there.             *)

TypingInv == typing # {} => \E t \in Tree : tree = {t} /\ typing = {Expanded(t)}

LEMMA TypingStays == Spec => []TypingInv
<1>1. Init => TypingInv
  BY DEF Init, TypingInv
<1>2. TypingInv /\ [Next]_vars => TypingInv'
  <2> SUFFICES ASSUME TypingInv, [Next]_vars PROVE TypingInv'
    OBVIOUS
  <2>1. ASSUME NEW input \in Inputs, NEW side \in {"match", "expand"}, Refuse(input, side)
        PROVE  TypingInv'
    BY <2>1 DEF Refuse, TypingInv
  <2>2. ASSUME NEW input \in Inputs, AddMatch(input) PROVE TypingInv'
    <3>1. tree = {} /\ typing' = typing
      BY <2>2, Zenon DEF AddMatch, Receive, Fresh
    <3>2. typing = {}
      BY <3>1 DEF TypingInv
    <3> QED
      BY <3>1, <3>2 DEF TypingInv
  <2>3. ASSUME NEW input \in Inputs, Expand(input) PROVE TypingInv'
    <3>1. Parsed(input.source, <<"expand">>) \subseteq Tree
      BY <2>3, Zenon DEF Expand, Receive
    <3>2. PICK t \in Parsed(input.source, <<"expand">>) :
              tree' = {t} /\ typing' = {Expanded(t)}
      BY <2>3, Zenon DEF Expand
    <3> QED
      BY <3>1, <3>2 DEF TypingInv
  <2>4. ASSUME NEW c \in Chars, Type(c) PROVE TypingInv'
    <3>1. tree' = tree /\ typing' = typing
      BY <2>4, Zenon DEF Type, rule
    <3> QED
      BY <3>1 DEF TypingInv
  <2>5. CASE Edit
    <3>1. tree' = tree /\ typing' = typing
      BY <2>5, Zenon DEF Edit, rule
    <3> QED
      BY <3>1 DEF TypingInv
  <2>6. CASE UNCHANGED vars
    BY <2>6 DEF vars, TypingInv
  <2> QED
    BY <2>1, <2>2, <2>3, <2>4, <2>5, <2>6 DEF Next
<1> QED
  BY <1>1, <1>2, PTL DEF Spec

(* No expansion leaves a key down: the strokes of any tree, however deep, come *)
(* up in reverse order (expand.c:33, the release functions of expand_tags.h).  *)
THEOREM KeysReleased == Spec => []KeysComeUp
<1>1. TypingInv => KeysComeUp
  <2> SUFFICES ASSUME TypingInv, NEW w \in typing
               PROVE  LET held[k \in 0 .. Len(w.strokes)] ==
                              IF k = 0 THEN <<>> ELSE HeldAfter(held[k - 1], w.strokes[k])
                      IN held[Len(w.strokes)] = <<>>
    BY Zenon DEF KeysComeUp
  <2>1. w \in Typings /\ Balanced(w.strokes)
    BY ExpandedIs DEF TypingInv, Fair
  <2>2. w.strokes \in Seq(StrokeSet)
    BY <2>1 DEF Typings
  <2> DEFINE s == w.strokes  N == Len(s)
             Rule(f) == f = [k \in 0 .. N |-> IF k = 0 THEN <<>> ELSE HeldAfter(f[k - 1], s[k])]
             held == CHOOSE f : Rule(f)
  <2>3. N \in Nat
    BY <2>2, LenProperties
  <2>4. <<>> \in Holds
    BY DEF Holds
  <2>5. PICK g : HeldRule(g, <<>>, s) /\ g[N] = <<>>
    BY <2>1, <2>4 DEF Balanced
  <2>6. /\ g \in [0 .. N -> Holds] /\ g[0] = <<>>
        /\ \A k \in 1 .. N : g[k] = HeldAfter(g[k - 1], s[k])
    BY <2>5 DEF HeldRule
  <2>7. Rule(g)
    <3> HIDE DEF N, s
    <3>1. \A k \in 0 .. N : g[k] = IF k = 0 THEN <<>> ELSE HeldAfter(g[k - 1], s[k])
      BY <2>3, <2>6
    <3>2. g = [k \in 0 .. N |-> g[k]]
      BY <2>6
    <3> QED
      BY <3>1, <3>2
  <2>8. Rule(held)
    <3> HIDE DEF Rule
    <3> QED
      BY <2>7
  <2> SUFFICES held[N] = <<>>
    OBVIOUS
  <2> HIDE DEF held, s
  <2>9. held[0] = <<>> /\ \A k \in 1 .. N : held[k] = HeldAfter(held[k - 1], s[k])
    <3>1. \A k \in 0 .. N : held[k] = IF k = 0 THEN <<>> ELSE HeldAfter(held[k - 1], s[k])
      BY <2>8
    <3> HIDE DEF N
    <3> QED
      BY <2>3, <3>1
  <2>10. g[N] = held[N]
    BY <2>2, <2>5, <2>9, HeldIsOne DEF s
  <2> QED
    BY <2>5, <2>10
<1> QED
  BY <1>1, TypingStays, PTL

(* What an expansion that can be undone counts, and an undo takes back, is     *)
(* what it types (expand.c:8-47, expand_tags.h), for any tree in which no text *)
(* stands in the tag of a key or of a match.                                   *)
THEOREM CountIsRight == Spec => []CountedIsTyped
<1>1. TypingInv => CountedIsTyped
  <2> SUFFICES ASSUME TypingInv, NEW w \in typing, NEW t \in tree, w.undoable, TextCounts(t)
               PROVE  w.counted = Cardinality({k \in DOMAIN w.strokes : w.strokes[k].does # "up"})
    BY Zenon DEF CountedIsTyped
  <2>1. t \in Tree /\ w = Expanded(t)
    BY DEF TypingInv
  <2>2. \A tag \in TagsIn(t) : Plain(tag)
    BY DEF TextCounts, Plain
  <2>3. Right(w)
    BY <2>1, <2>2, ExpandedIs
  <2> QED
    BY <2>3 DEF Right, Downs
<1> QED
  BY <1>1, TypingStays, PTL

-----------------------------------------------------------------------------
(* Joining lines                                                               *)

ScanSet ==
    [inside : BOOLEAN, started : BOOLEAN, spaced : BOOLEAN, line : Int, tagLine : Int,
     textLine : Int]

\* The space that the next text will be given
Owed(scan) == IF scan.spaced /\ ~scan.started THEN 1 ELSE 0

\* What a turn of the loop starts from when it reads s, whose lexemes are in C:
\* with the space that is owed, no more is written than has been read.
Joins(s, C) ==
    {m \in [next : 1 .. Len(s) + 1, written : Seq(C), scan : ScanSet] :
       Len(m.written) + Owed(m.scan) <= m.next - 1}

Gap == " "
Joined(m, taken, w, scan) ==
    [next |-> m.next + taken, written |-> m.written \o w, scan |-> scan]
Lined(scan) == [scan EXCEPT !.line = @ + 1]
Resting(scan) == [scan EXCEPT !.started = FALSE]
InsideSet(scan, is) == [scan EXCEPT !.inside = is]

(* The cases of a turn, without the characters that lead to them.              *)
LEMMA TurnIs ==
    ASSUME NEW s, NEW m, m.next \in Int, Len(s) \in Int, m.next <= Len(s)
    PROVE  LET c == s[m.next]
               turn == MinifyTurn(s, m)
           IN \E now \in {m.scan, Lined(m.scan)} :
                \/ m.scan.started /\ turn = Joined(m, 1, <<>>, Resting(m.scan))
                \/ m.next < Len(s) /\ turn = Joined(m, 2, <<c, c>>, now)
                \/ \E is \in BOOLEAN : turn = Joined(m, 1, <<c>>, InsideSet(now, is))
                \/ turn = Joined(m, 1, <<>>, now)
                \/ turn = Joined(m, 1, <<c>>, TagOpened(now))
                \/ now.spaced /\ ~now.started /\ turn = Joined(m, 1, <<Gap, c>>, TextGoesOn(now))
                \/ turn = Joined(m, 1, <<c>>, TextGoesOn(now))
<1> DEFINE c == s[m.next]
           now == IF c = "\n" THEN Lined(m.scan) ELSE m.scan
           A == c = "\n" /\ m.scan.started
           B == c \in Brackets /\ m.next < Len(s) /\ s[m.next + 1] = c
           D == now.inside
           E == c \in White /\ Indents(now)
           F == c = "<"
           G == now.spaced /\ ~now.started
           is == c # ">"
           turn == MinifyTurn(s, m)
<1>0. ~(m.next > Len(s))
  OBVIOUS
<1>1. turn = IF m.next > Len(s) THEN m
             ELSE IF A THEN Joined(m, 1, <<>>, Resting(m.scan))
             ELSE IF B THEN Joined(m, 2, <<c, c>>, now)
             ELSE IF D THEN Joined(m, 1, <<c>>, InsideSet(now, is))
             ELSE IF E THEN Joined(m, 1, <<>>, now)
             ELSE IF F THEN Joined(m, 1, <<c>>, TagOpened(now))
             ELSE Joined(m, 1, IF G THEN <<Gap, c>> ELSE <<c>>, TextGoesOn(now))
  BY Zenon DEF MinifyTurn, Joined, Lined, Resting, InsideSet, Gap
<1>2. now \in {m.scan, Lined(m.scan)} /\ is \in BOOLEAN
  BY Zenon
<1>3. A => m.scan.started
  OBVIOUS
<1>4. B => m.next < Len(s)
  OBVIOUS
<1>5. G => now.spaced /\ ~now.started
  OBVIOUS
<1> HIDE DEF c, now, A, B, D, E, F, G, is, turn
<1>6. \/ m.scan.started /\ turn = Joined(m, 1, <<>>, Resting(m.scan))
      \/ m.next < Len(s) /\ turn = Joined(m, 2, <<c, c>>, now)
      \/ turn = Joined(m, 1, <<c>>, InsideSet(now, is))
      \/ turn = Joined(m, 1, <<>>, now)
      \/ turn = Joined(m, 1, <<c>>, TagOpened(now))
      \/ now.spaced /\ ~now.started /\ turn = Joined(m, 1, <<Gap, c>>, TextGoesOn(now))
      \/ turn = Joined(m, 1, <<c>>, TextGoesOn(now))
  <2>1. CASE A
    BY <1>0, <1>1, <1>3, <2>1, Zenon
  <2>2. CASE ~A /\ B
    BY <1>0, <1>1, <1>4, <2>2, Zenon
  <2>3. CASE ~A /\ ~B /\ D
    BY <1>0, <1>1, <2>3, Zenon
  <2>4. CASE ~A /\ ~B /\ ~D /\ E
    BY <1>0, <1>1, <2>4, Zenon
  <2>5. CASE ~A /\ ~B /\ ~D /\ ~E /\ F
    BY <1>0, <1>1, <2>5, Zenon
  <2>6. CASE ~A /\ ~B /\ ~D /\ ~E /\ ~F /\ G
    BY <1>0, <1>1, <1>5, <2>6, Zenon
  <2>7. CASE ~A /\ ~B /\ ~D /\ ~E /\ ~F /\ ~G
    BY <1>0, <1>1, <2>7, Zenon
  <2> QED
    BY <2>1, <2>2, <2>3, <2>4, <2>5, <2>6, <2>7, Zenon
<1> QED
  BY <1>2, <1>6, Zenon DEF c, turn

(* A turn leaves no more written than read.                                    *)
LEMMA JoinedFits ==
    ASSUME NEW C, NEW s \in Seq(C), NEW m \in Joins(s, C),
           NEW taken \in {1, 2}, NEW w \in Seq(C), NEW scan \in ScanSet,
           m.next + taken <= Len(s) + 1, Len(w) + Owed(scan) <= taken + Owed(m.scan)
    PROVE  Joined(m, taken, w, scan) \in Joins(s, C)
<1> DEFINE N == Len(s)  p == m.next  a == Len(m.written)  b == Len(w)
           x == Owed(scan)  y == Owed(m.scan)  j == Joined(m, taken, w, scan)
<1>1. N \in Nat /\ p \in 1 .. N + 1 /\ m.written \in Seq(C) /\ a + y <= p - 1
  BY LenProperties DEF Joins
<1>2. a \in Nat /\ b \in Nat /\ x \in Nat /\ y \in Nat
  BY <1>1, LenProperties DEF Owed
<1>3. m.written \o w \in Seq(C) /\ Len(m.written \o w) = a + b
  BY <1>1, ConcatProperties
<1>4. p + taken <= N + 1 /\ b + x <= taken + y
  OBVIOUS
<1>5. /\ j.next = p + taken /\ j.written = m.written \o w /\ j.scan = scan
      /\ j = [next |-> p + taken, written |-> m.written \o w, scan |-> scan]
  BY DEF Joined
<1> DEFINE both == m.written \o w
<1> HIDE DEF N, p, a, b, x, y, j, both
<1>6. p + taken \in 1 .. N + 1 /\ (a + b) + x <= (p + taken) - 1
  BY <1>1, <1>2, <1>4
<1>7. j \in [next : 1 .. N + 1, written : Seq(C), scan : ScanSet]
  <2>1. both \in Seq(C)
    BY <1>3 DEF both
  <2>2. j = [next |-> p + taken, written |-> both, scan |-> scan]
    BY <1>5 DEF both
  <2> QED
    BY <1>6, <2>1, <2>2
<1>8. Len(j.written) + Owed(j.scan) <= j.next - 1
  BY <1>3, <1>5, <1>6 DEF x
<1> QED
  BY <1>7, <1>8 DEF Joins, N, j

LEMMA TurnFits ==
    ASSUME NEW C, NEW s \in Seq(C), Gap \in C, NEW m \in Joins(s, C)
    PROVE  MinifyTurn(s, m) \in Joins(s, C)
<1> DEFINE N == Len(s)  gap == Gap  p == m.next  scan == m.scan  y == Owed(scan)
           c == s[p]  turn == MinifyTurn(s, m)
<1>1. N \in Nat /\ p \in 1 .. N + 1 /\ scan \in ScanSet
  BY LenProperties DEF Joins
<1>2. gap \in C
  BY Zenon
<1>3. CASE p > N
  <2>1. MinifyTurn(s, m) = m
    BY <1>3, Zenon DEF MinifyTurn
  <2> QED
    BY <2>1
<1>4. CASE p <= N
  <2>1. PICK now \in {scan, Lined(scan)} :
            \/ scan.started /\ turn = Joined(m, 1, <<>>, Resting(scan))
            \/ p < N /\ turn = Joined(m, 2, <<c, c>>, now)
            \/ \E is \in BOOLEAN : turn = Joined(m, 1, <<c>>, InsideSet(now, is))
            \/ turn = Joined(m, 1, <<>>, now)
            \/ turn = Joined(m, 1, <<c>>, TagOpened(now))
            \/ now.spaced /\ ~now.started /\ turn = Joined(m, 1, <<gap, c>>, TextGoesOn(now))
            \/ turn = Joined(m, 1, <<c>>, TextGoesOn(now))
    <3>1. p \in Int /\ N \in Int
      BY <1>1
    <3> QED
      BY <1>4, <3>1, TurnIs, Zenon
  <2>2. c \in C
    <3>1. p \in 1 .. N
      <4> HIDE DEF p, N
      <4> QED
        BY <1>1, <1>4
    <3> QED
      BY <3>1, ElementOfSeq
  <2>3. Lined(scan) \in ScanSet /\ Owed(Lined(scan)) = Owed(scan)
        /\ Lined(scan).spaced = scan.spaced /\ Lined(scan).started = scan.started
    <3> HIDE DEF scan
    <3> QED
      BY <1>1 DEF Lined, ScanSet, Owed
  <2>4. /\ now \in ScanSet /\ Owed(now) = y
        /\ now.spaced = scan.spaced /\ now.started = scan.started
    <3> HIDE DEF scan
    <3> QED
      BY <1>1, <2>3
  <2>5. y \in {0, 1}
    BY DEF Owed
  <2>6. /\ <<>> \in Seq(C) /\ Len(<<>>) = 0
        /\ <<c>> \in Seq(C) /\ Len(<<c>>) = 1
        /\ <<c, c>> \in Seq(C) /\ Len(<<c, c>>) = 2
        /\ <<gap, c>> \in Seq(C) /\ Len(<<gap, c>>) = 2
    <3> HIDE DEF c, gap
    <3> QED
      BY <1>2, <2>2
  <2>7. ASSUME NEW taken \in {1, 2}, NEW w \in Seq(C), NEW next \in ScanSet,
               p + taken <= N + 1, Len(w) + Owed(next) <= taken + y
        PROVE  Joined(m, taken, w, next) \in Joins(s, C)
    BY <2>7, JoinedFits
  <2>8. p + 1 <= N + 1 /\ (p < N => p + 2 <= N + 1)
    <3> HIDE DEF p, N
    <3> QED
      BY <1>1, <1>4
  <2> DEFINE gapped == <<gap, c>>
  <2> HIDE DEF c, turn, gap, N, p, y, gapped
  <2>9. CASE scan.started /\ turn = Joined(m, 1, <<>>, Resting(scan))
    <3> DEFINE next == Resting(scan)
    <3>1. next \in ScanSet /\ Owed(next) \in {0, 1}
      <4> HIDE DEF scan
      <4> QED
        BY <1>1 DEF Resting, ScanSet, Owed
    <3> HIDE DEF next
    <3>2. Len(<<>>) + Owed(next) <= 1 + y
      BY <2>5, <2>6, <3>1
    <3>3. Joined(m, 1, <<>>, next) \in Joins(s, C)
      BY <2>6, <2>7, <2>8, <3>1, <3>2
    <3> QED
      BY <2>9, <3>3 DEF next, turn
  <2>10. CASE p < N /\ turn = Joined(m, 2, <<c, c>>, now)
    <3>1. Len(<<c, c>>) + Owed(now) <= 2 + y
      BY <2>4, <2>5, <2>6
    <3>2. Joined(m, 2, <<c, c>>, now) \in Joins(s, C)
      BY <2>4, <2>6, <2>7, <2>8, <2>10, <3>1
    <3> QED
      BY <2>10, <3>2 DEF turn
  <2>11. ASSUME NEW is \in BOOLEAN, turn = Joined(m, 1, <<c>>, InsideSet(now, is))
         PROVE  turn \in Joins(s, C)
    <3> DEFINE next == InsideSet(now, is)
    <3>1. next \in ScanSet /\ Owed(next) = Owed(now)
      BY <2>4 DEF InsideSet, ScanSet, Owed
    <3> HIDE DEF next
    <3>2. Len(<<c>>) + Owed(next) <= 1 + y
      BY <2>4, <2>5, <2>6, <3>1
    <3>3. Joined(m, 1, <<c>>, next) \in Joins(s, C)
      BY <2>6, <2>7, <2>8, <3>1, <3>2
    <3> QED
      BY <2>11, <3>3 DEF next
  <2>12. CASE turn = Joined(m, 1, <<>>, now)
    <3>1. Len(<<>>) + Owed(now) <= 1 + y
      BY <2>4, <2>5, <2>6
    <3>2. Joined(m, 1, <<>>, now) \in Joins(s, C)
      BY <2>4, <2>6, <2>7, <2>8, <3>1
    <3> QED
      BY <2>12, <3>2 DEF turn
  <2>13. CASE turn = Joined(m, 1, <<c>>, TagOpened(now))
    <3> DEFINE next == TagOpened(now)
    <3>1. next \in ScanSet /\ Owed(next) = 0
      BY <2>4 DEF TagOpened, ScanSet, Owed
    <3> HIDE DEF next
    <3>2. Len(<<c>>) + Owed(next) <= 1 + y
      BY <2>5, <2>6, <3>1
    <3>3. Joined(m, 1, <<c>>, next) \in Joins(s, C)
      BY <2>6, <2>7, <2>8, <3>1, <3>2
    <3> QED
      BY <2>13, <3>3 DEF next, turn
  <2> DEFINE last == TextGoesOn(now)
  <2>14. last \in ScanSet /\ Owed(last) = 0
    BY <2>4 DEF TextGoesOn, ScanSet, Owed
  <2>15. CASE now.spaced /\ ~now.started /\ turn = Joined(m, 1, gapped, TextGoesOn(now))
    <3>1. y = 1
      BY <2>4, <2>15 DEF Owed, y
    <3>2. turn = Joined(m, 1, gapped, last)
      BY <2>15
    <3> HIDE DEF last
    <3>3. gapped \in Seq(C) /\ Len(gapped) + Owed(last) <= 1 + y
      BY <2>6, <2>14, <3>1 DEF gapped
    <3>4. Joined(m, 1, gapped, last) \in Joins(s, C)
      BY <2>7, <2>8, <2>14, <3>3
    <3> QED
      BY <3>2, <3>4 DEF turn
  <2>16. CASE turn = Joined(m, 1, <<c>>, TextGoesOn(now))
    <3>1. turn = Joined(m, 1, <<c>>, last)
      BY <2>16
    <3> HIDE DEF last
    <3>2. Len(<<c>>) + Owed(last) <= 1 + y
      BY <2>5, <2>6, <2>14
    <3>3. Joined(m, 1, <<c>>, last) \in Joins(s, C)
      BY <2>6, <2>7, <2>8, <2>14, <3>2
    <3> QED
      BY <3>1, <3>3 DEF turn
  <2>17. turn \in Joins(s, C)
    BY <2>1, <2>9, <2>10, <2>11, <2>12, <2>13, <2>15, <2>16 DEF gapped, turn
  <2> QED
    BY <2>17 DEF turn
<1> QED
  <2> HIDE DEF p, N
  <2> QED
    BY <1>1, <1>3, <1>4

LoopRule(loop, s) ==
    /\ loop[0] = [next |-> 1, written |-> <<>>, scan |-> ScanStart]
    /\ \A k \in 1 .. Len(s) : loop[k] = MinifyTurn(s, loop[k - 1])
    /\ Minified(s) = loop[Len(s)].written

(* The loop runs, and no more is ever written than has been read.              *)
LEMMA MinifiedGoes ==
    ASSUME NEW C, NEW s \in Seq(C)
    PROVE  \E loop : LoopRule(loop, s) /\ \A k \in 0 .. Len(s) : loop[k] \in Joins(s, C \cup {Gap})
<1> DEFINE D == C \cup {Gap}  N == Len(s)  V == Joins(s, D)
           start == [next |-> 1, written |-> <<>>, scan |-> ScanStart]
           step == [p \in (1 .. N) \X V |-> MinifyTurn(s, p[2])]
           Rule(f) == f = [k \in 0 .. N |-> IF k = 0 THEN start ELSE MinifyTurn(s, f[k - 1])]
           loop == CHOOSE f : Rule(f)
<1>1. N \in Nat /\ s \in Seq(D) /\ Gap \in D
  <2>1. N \in Nat /\ C \subseteq D /\ Gap \in D
    BY LenProperties
  <2> HIDE DEF D
  <2>2. s \in Seq(D)
    <3>1. s \in [1 .. N -> D]
      BY <2>1, LenProperties
    <3> QED
      BY <2>1, <3>1, FunctionIsSeq
  <2> QED
    BY <2>1, <2>2
<1>2. Minified(s) = loop[N].written
  BY Zenon DEF Minified
<1> HIDE DEF D
<1>3. start \in V
  <2> DEFINE none == <<>>
  <2>1. none \in Seq(D) /\ Len(none) = 0 /\ 1 \in 1 .. N + 1
    BY <1>1
  <2>2. ScanStart \in ScanSet /\ Owed(ScanStart) = 0
    BY DEF ScanStart, Scan, ScanSet, Owed
  <2> HIDE DEF none
  <2>3. [next |-> 1, written |-> none, scan |-> ScanStart] \in V
    <3> DEFINE m == [next |-> 1, written |-> none, scan |-> ScanStart]
    <3>1. m \in [next : 1 .. N + 1, written : Seq(D), scan : ScanSet]
      BY <2>1, <2>2
    <3>2. Len(m.written) + Owed(m.scan) <= m.next - 1
      BY <2>1, <2>2
    <3> HIDE DEF m
    <3> QED
      BY <3>1, <3>2 DEF Joins, m
  <2> QED
    BY <2>3 DEF none
<1>4. \A m \in V : MinifyTurn(s, m) \in V
  BY <1>1, TurnFits
<1> HIDE DEF V, N, start
<1>5. Step(step, N, V)
  <2>1. \A p \in (1 .. N) \X V : p[2] \in V
    OBVIOUS
  <2> QED
    BY <2>1, <1>4 DEF Step
<1>6. \A p \in (1 .. N) \X V : step[p] = MinifyTurn(s, p[2])
  OBVIOUS
<1> HIDE DEF step
<1>7. PICK g : Computed(g, start, step, N, V)
  BY <1>1, <1>3, <1>5, LoopComputes
<1>8. /\ g \in [0 .. N -> V] /\ g[0] = start
      /\ \A k \in 1 .. N : g[k] = MinifyTurn(s, g[k - 1])
  <2>1. g \in [0 .. N -> V] /\ g[0] = start /\ \A k \in 1 .. N : g[k] = step[<<k, g[k - 1]>>]
    BY <1>7 DEF Computed
  <2>2. ASSUME NEW k \in 1 .. N PROVE g[k] = MinifyTurn(s, g[k - 1])
    <3>1. g[k - 1] \in V
      BY <1>1, <2>1
    <3>2. <<k, g[k - 1]>> \in (1 .. N) \X V
      BY <3>1
    <3>3. step[<<k, g[k - 1]>>] = MinifyTurn(s, g[k - 1])
      BY <3>2, <1>6
    <3> QED
      BY <2>1, <3>3
  <2> QED
    BY <2>1, <2>2
<1>9. Rule(g)
  <2>1. \A k \in 0 .. N : g[k] = IF k = 0 THEN start ELSE MinifyTurn(s, g[k - 1])
    BY <1>1, <1>8
  <2>2. g = [k \in 0 .. N |-> g[k]]
    BY <1>8
  <2> QED
    BY <2>1, <2>2
<1>10. Rule(loop)
  <2> HIDE DEF Rule
  <2> QED
    BY <1>9
<1> HIDE DEF loop
<1>11. \A k \in 0 .. N : loop[k] = IF k = 0 THEN start ELSE MinifyTurn(s, loop[k - 1])
  BY <1>10
<1>12. loop[0] = start /\ \A k \in 1 .. N : loop[k] = MinifyTurn(s, loop[k - 1])
  <2>1. 0 \in 0 .. N /\ \A k \in 1 .. N : k \in 0 .. N /\ k # 0
    BY <1>1
  <2> QED
    BY <1>11, <2>1
<1> DEFINE S == {k \in 0 .. N : loop[k] \in V}
<1>13. 0 \in S
  BY <1>1, <1>3, <1>12
<1>14. ASSUME NEW k \in 0 .. N - 1, k \in S PROVE k + 1 \in S
  <2>1. k + 1 \in 0 .. N /\ k + 1 \in 1 .. N /\ (k + 1) - 1 = k
    BY <1>1
  <2>2. loop[k + 1] = MinifyTurn(s, loop[k])
    BY <1>12, <2>1
  <2> QED
    BY <1>4, <1>14, <2>1, <2>2
<1>15. \A k \in 0 .. N - 1 : k \in S => k + 1 \in S
  BY <1>14
<1> HIDE DEF S
<1>16. \A k \in 0 .. N : k \in S
  BY ONLY <1>1, <1>13, <1>15, UpTo
<1>17. LoopRule(loop, s)
  BY <1>2, <1>12 DEF LoopRule, start, N
<1>18. \A k \in 0 .. Len(s) : loop[k] \in Joins(s, C \cup {Gap})
  BY <1>16 DEF S, V, D, N
<1> QED
  BY <1>17, <1>18

LEMMA MinifiedIsShorter ==
    ASSUME NEW C, NEW s \in Seq(C)
    PROVE  Len(Minified(s)) <= Len(s)
<1> DEFINE N == Len(s)  D == C \cup {Gap}
<1>1. N \in Nat
  BY LenProperties
<1>2. PICK loop : LoopRule(loop, s) /\ \A k \in 0 .. N : loop[k] \in Joins(s, D)
  BY MinifiedGoes
<1> HIDE DEF D
<1> DEFINE m == loop[N]
<1>3. Minified(s) = m.written
  BY <1>2 DEF LoopRule
<1>4. /\ m.next \in 1 .. N + 1 /\ m.written \in Seq(D)
      /\ Len(m.written) + Owed(m.scan) <= m.next - 1
  <2>1. N \in 0 .. N
    BY <1>1
  <2> QED
    BY <1>2, <2>1 DEF Joins
<1> HIDE DEF m
<1>5. Len(m.written) \in Nat /\ Owed(m.scan) \in Nat
  BY <1>4, LenProperties DEF Owed
<1>6. Len(m.written) <= N
  <2> DEFINE a == Len(m.written)  x == Owed(m.scan)  q == m.next
  <2>1. a \in Nat /\ x \in Nat /\ q \in 1 .. N + 1 /\ a + x <= q - 1
    BY <1>4, <1>5
  <2> HIDE DEF a, x, q
  <2>2. a <= N
    BY <1>1, <2>1
  <2> QED
    BY <2>2 DEF a
<1> QED
  BY <1>3, <1>6 DEF N

-----------------------------------------------------------------------------
(* Putting parts together                                                      *)

\* flat is what the parts up to each of them come to.
FlatRule(flat, parts, S) ==
    /\ flat \in [0 .. Len(parts) -> Seq(S)] /\ flat[0] = <<>>
    /\ \A k \in 1 .. Len(parts) : flat[k] = flat[k - 1] \o parts[k]

LEMMA FlattenIs ==
    ASSUME NEW S, NEW parts \in Seq(Seq(S))
    PROVE  \E flat : FlatRule(flat, parts, S) /\ FlattenSeq(parts) = flat[Len(parts)]
<1> DEFINE N == Len(parts)  V == Seq(S)
           step == [p \in (1 .. N) \X V |-> p[2] \o parts[p[1]]]
           none == <<>>
<1>1. N \in Nat /\ \A k \in 1 .. N : parts[k] \in V
  BY LenProperties, ElementOfSeq
<1>2. none \in V /\ \A v, w \in V : v \o w \in V /\ none \o v = v
  BY ConcatProperties, ConcatEmptySeq
<1> HIDE DEF N, V, none
<1>3. Step(step, N, V)
  <2>1. ASSUME NEW p \in (1 .. N) \X V PROVE p[2] \o parts[p[1]] \in V
    <3>1. p[1] \in 1 .. N /\ p[2] \in V
      OBVIOUS
    <3> QED
      BY <1>1, <1>2, <3>1
  <2> QED
    BY <2>1 DEF Step
<1>4. \A k \in 1 .. N : \A v \in V : step[<<k, v>>] = v \o parts[k]
  <2>1. ASSUME NEW k \in 1 .. N, NEW v \in V PROVE step[<<k, v>>] = v \o parts[k]
    <3>1. <<k, v>> \in (1 .. N) \X V
      OBVIOUS
    <3> QED
      BY <3>1
  <2> QED
    BY <2>1
<1> HIDE DEF step
<1>5. PICK g : Computed(g, none, step, N, V)
  BY <1>1, <1>2, <1>3, LoopComputes
<1>6. g \in [0 .. N -> V] /\ g[0] = none /\ \A k \in 1 .. N : g[k] = g[k - 1] \o parts[k]
  <2>1. g \in [0 .. N -> V] /\ g[0] = none /\ \A k \in 1 .. N : g[k] = step[<<k, g[k - 1]>>]
    BY <1>5 DEF Computed
  <2>2. ASSUME NEW k \in 1 .. N PROVE g[k] = g[k - 1] \o parts[k]
    <3>1. g[k - 1] \in V
      BY <1>1, <2>1
    <3>2. step[<<k, g[k - 1]>>] = g[k - 1] \o parts[k]
      BY <1>4, <3>1
    <3> QED
      BY <2>1, <3>2
  <2> QED
    BY <2>1, <2>2
<1>7. FlattenSeq(parts) = g[N]
  <2>1. CASE N = 0
    <3>1. parts = <<>>
      BY <2>1 DEF N
    <3>2. FlattenSeq(parts) = parts
      BY <2>1 DEF FlattenSeq, N
    <3> QED
      BY <2>1, <3>1, <3>2, <1>6 DEF none
  <2>2. CASE N # 0
    <3> DEFINE Rule(f) == f = [i \in 1 .. N |-> IF i = 1 THEN parts[i] ELSE f[i - 1] \o parts[i]]
               flatten == CHOOSE f : Rule(f)
               h == [i \in 1 .. N |-> g[i]]
    <3>1. FlattenSeq(parts) = flatten[N]
      BY <2>2, Zenon DEF FlattenSeq, N
    <3>2. ASSUME NEW i \in 1 .. N PROVE h[i] = IF i = 1 THEN parts[i] ELSE h[i - 1] \o parts[i]
      <4>1. CASE i = 1
        <5>0. 1 \in 1 .. N /\ 1 - 1 = 0
          BY <4>1
        <5>1. g[1] = g[0] \o parts[1] /\ parts[1] \in V
          <6>1. g[1] = g[1 - 1] \o parts[1]
            BY <5>0, <1>6
          <6> QED
            BY <5>0, <6>1, <1>1
        <5>2. g[1] = parts[1]
          BY <1>2, <1>6, <5>1
        <5> QED
          BY <4>1, <5>2
      <4>2. CASE i # 1
        <5>1. i - 1 \in 1 .. N /\ h[i - 1] = g[i - 1]
          BY <1>1, <4>2
        <5> QED
          BY <4>2, <5>1, <1>6
      <4> QED
        BY <4>1, <4>2
    <3>3. Rule(h)
      BY <3>2
    <3>4. Rule(flatten)
      <4> HIDE DEF Rule, h
      <4> QED
        BY <3>3
    <3> HIDE DEF flatten
    <3>5. \A i \in 1 .. N : flatten[i] = IF i = 1 THEN parts[i] ELSE flatten[i - 1] \o parts[i]
      BY <3>4
    <3> DEFINE U == {k \in 0 .. N : k >= 1 => flatten[k] = g[k]}
    <3>6. 0 \in U
      BY <1>1
    <3>7. ASSUME NEW k \in 0 .. N - 1, k \in U PROVE k + 1 \in U
      <4>1. k + 1 \in 1 .. N /\ k + 1 \in 0 .. N /\ (k + 1) - 1 = k
        BY <1>1
      <4>2. CASE k = 0
        <5>0. 1 \in 1 .. N /\ 1 - 1 = 0
          BY <4>1, <4>2
        <5>1. flatten[1] = parts[1]
          BY <3>5, <5>0
        <5>2. g[1] = none \o parts[1] /\ parts[1] \in V
          <6>1. g[1] = g[1 - 1] \o parts[1]
            BY <5>0, <1>6
          <6> QED
            BY <5>0, <6>1, <1>1, <1>6
        <5>3. g[1] = parts[1]
          BY <1>2, <5>2
        <5> QED
          BY <4>1, <4>2, <5>1, <5>3
      <4>3. CASE k # 0
        <5>1. flatten[k] = g[k]
          BY <3>7, <4>3
        <5>2. flatten[k + 1] = flatten[k] \o parts[k + 1]
          <6>1. k + 1 # 1
            BY <4>3
          <6>2. flatten[k + 1] = flatten[(k + 1) - 1] \o parts[k + 1]
            BY <3>5, <4>1, <6>1
          <6> QED
            BY <4>1, <6>2
        <5>3. g[k + 1] = g[k] \o parts[k + 1]
          BY <1>6, <4>1
        <5> QED
          BY <4>1, <5>1, <5>2, <5>3
      <4> QED
        BY <4>2, <4>3
    <3>8. N \in U
      <4> HIDE DEF U
      <4>1. \A k \in 0 .. N - 1 : k \in U => k + 1 \in U
        BY <3>7
      <4>2. \A k \in 0 .. N : k \in U
        BY ONLY <1>1, <3>6, <4>1, UpTo
      <4> QED
        BY <1>1, <4>2
    <3>9. flatten[N] = g[N]
      BY <1>1, <2>2, <3>8
    <3> QED
      BY <3>1, <3>9
  <2> QED
    BY <2>1, <2>2
<1>8. FlatRule(g, parts, S)
  BY <1>6 DEF FlatRule, N, V, none
<1> QED
  BY <1>7, <1>8 DEF N

-----------------------------------------------------------------------------
(* The source text is a sequence of lexemes.                                   *)

SourceInv == source \in Texts

Lexemes == STRING
Less == "<"
More == ">"
Slash == "/"
Space == " "
Break == "\n"
TextName == <<"text">>

LEMMA MarksAre ==
    /\ Less \in Lexemes /\ More \in Lexemes /\ Slash \in Lexemes
    /\ Space \in Lexemes /\ Break \in Lexemes
    /\ Less # More /\ Less # Slash /\ More # Slash /\ Brackets = {Less, More}
    /\ White = Breaks \cup {Space} /\ Break \in Breaks
    /\ Slash \notin White /\ Less \notin White /\ More \notin White /\ Space # Break
<1>1. /\ Less \in Lexemes /\ More \in Lexemes /\ Slash \in Lexemes
      /\ Space \in Lexemes /\ Break \in Lexemes
  BY TagsAssumption, Zenon DEF Brackets, White, Breaks, Less, More, Slash, Space, Break, Lexemes
<1>2. Less # More /\ Less # Slash /\ More # Slash /\ Brackets = {Less, More}
  BY Zenon DEF Brackets, Less, More, Slash
<1>3. /\ White = Breaks \cup {Space} /\ Break \in Breaks
      /\ Slash \notin White /\ Less \notin White /\ More \notin White /\ Space # Break
  BY Zenon DEF White, Breaks, Less, More, Slash, Space, Break
<1> QED
  BY <1>1, <1>2, <1>3

LEMMA TextsAre == Texts = Seq(Lexemes)
  BY Zenon DEF Texts, Lexemes

LEMMA TextsJoin ==
    /\ <<>> \in Texts /\ Len(<<>>) = 0
    /\ \A c \in Lexemes : <<c>> \in Texts /\ Len(<<c>>) = 1 /\ <<c>>[1] = c
    /\ \A c, d \in Lexemes : <<c, d>> \in Texts /\ Len(<<c, d>>) = 2
                              /\ <<c, d>>[1] = c /\ <<c, d>>[2] = d
    /\ \A u \in Texts : Len(u) \in Nat /\ DOMAIN u = 1 .. Len(u) /\ <<>> \o u = u /\ u \o <<>> = u
    /\ \A u \in Texts : u # <<>> <=> Len(u) >= 1
    /\ \A u \in Texts : \A i \in 1 .. Len(u) : u[i] \in Lexemes
    /\ \A u, v \in Texts : u \o v \in Texts /\ Len(u \o v) = Len(u) + Len(v)
    /\ \A u, v, w \in Texts : (u \o v) \o w = u \o (v \o w)
<1> DEFINE L == Lexemes
<1>0. Texts = Seq(L)
  BY TextsAre
<1> HIDE DEF L
<1>1. \A u \in Texts : Len(u) \in Nat /\ DOMAIN u = 1 .. Len(u) /\ <<>> \o u = u /\ u \o <<>> = u
  BY <1>0, LenProperties, ConcatEmptySeq
<1>2. \A u \in Texts : \A i \in 1 .. Len(u) : u[i] \in L
  BY <1>0, ElementOfSeq
<1>3. \A u, v \in Texts : u \o v \in Texts /\ Len(u \o v) = Len(u) + Len(v)
  BY <1>0, ConcatProperties
<1>4. \A u, v, w \in Texts : (u \o v) \o w = u \o (v \o w)
  BY <1>0, ConcatAssociative
<1>5. \A c \in L : <<c>> \in Texts /\ Len(<<c>>) = 1 /\ <<c>>[1] = c
  BY <1>0
<1>6. \A c, d \in L : <<c, d>> \in Texts /\ Len(<<c, d>>) = 2 /\ <<c, d>>[1] = c /\ <<c, d>>[2] = d
  BY <1>0
<1>7. <<>> \in Texts /\ Len(<<>>) = 0
  BY <1>0, EmptySeq
<1>8. \A u \in Texts : u # <<>> <=> Len(u) >= 1
  BY <1>0, EmptySeq
<1> QED
  BY <1>1, <1>2, <1>3, <1>4, <1>5, <1>6, <1>7, <1>8 DEF L

(* Where the lexemes of two texts are in the joined one.                       *)
LEMMA JoinedAt ==
    ASSUME NEW u \in Texts, NEW v \in Texts
    PROVE  /\ \A i \in 1 .. Len(u) : (u \o v)[i] = u[i]
           /\ \A i \in 1 .. Len(v) : (u \o v)[Len(u) + i] = v[i]
<1>1. /\ Len(u) \in Nat /\ Len(v) \in Nat
      /\ \A i \in 1 .. Len(u) + Len(v) :
           (u \o v)[i] = IF i <= Len(u) THEN u[i] ELSE v[i - Len(u)]
  BY TextsJoin, TextsAre, ConcatProperties
<1>2. ASSUME NEW i \in 1 .. Len(u) PROVE (u \o v)[i] = u[i]
  BY <1>1
<1>3. ASSUME NEW i \in 1 .. Len(v) PROVE (u \o v)[Len(u) + i] = v[i]
  <2>1. Len(u) + i \in 1 .. Len(u) + Len(v) /\ ~(Len(u) + i <= Len(u)) /\ (Len(u) + i) - Len(u) = i
    BY <1>1
  <2> QED
    BY <1>1, <2>1
<1> QED
  BY <1>2, <1>3

Doubled(c) == IF c \in Brackets THEN <<c, c>> ELSE <<c>>

LEMMA DoubledIs == \A c \in Lexemes : Doubled(c) \in Texts
<1>1. ASSUME NEW c \in Lexemes PROVE Doubled(c) \in Texts
  <2>1. <<c, c>> \in Texts /\ <<c>> \in Texts
    BY TextsJoin
  <2> QED
    BY <2>1 DEF Doubled
<1> QED
  BY <1>1

\* upTo is what is written for the first lexemes of a text.
EscapedRule(upTo, text) ==
    /\ upTo \in [0 .. Len(text) -> Texts] /\ upTo[0] = <<>>
    /\ \A k \in 1 .. Len(text) : upTo[k] = upTo[k - 1] \o Doubled(text[k])
    /\ Escaped(text) = upTo[Len(text)]

LEMMA EscapedIs ==
    ASSUME NEW text \in Texts
    PROVE  Escaped(text) \in Texts /\ \E upTo : EscapedRule(upTo, text)
<1> DEFINE N == Len(text)
           parts == [i \in 1 .. N |-> Doubled(text[i])]
<1>1. N \in Nat /\ \A i \in 1 .. N : text[i] \in Lexemes /\ Doubled(text[i]) \in Texts
  BY TextsJoin, DoubledIs
<1>2. Escaped(text) = FlattenSeq(parts)
  BY Zenon DEF Escaped, Doubled
<1>3. \A i \in 1 .. N : parts[i] = Doubled(text[i])
  OBVIOUS
<1>4. parts \in [1 .. N -> Texts]
  BY <1>1
<1> HIDE DEF N, parts
<1>5. parts \in Seq(Seq(Lexemes)) /\ Len(parts) = N
  BY <1>1, <1>4, FunctionIsSeq, TextsAre
<1>6. PICK flat : FlatRule(flat, parts, Lexemes) /\ FlattenSeq(parts) = flat[Len(parts)]
  BY <1>5, FlattenIs
<1>7. EscapedRule(flat, text)
  BY <1>2, <1>3, <1>5, <1>6, TextsAre DEF FlatRule, EscapedRule, N
<1>8. Escaped(text) \in Texts
  BY <1>1, <1>7 DEF EscapedRule, N
<1> QED
  BY <1>7, <1>8

LEMMA OpeningIs ==
    ASSUME NEW name \in Texts
    PROVE  Opening(name) \in Texts /\ EndOf(name) \in Texts
<1>1. Opening(name) = (<<Less>> \o name) \o <<More>>
  BY Zenon DEF Opening, Less, More
<1>2. EndOf(name) = (<<Less, Slash>> \o name) \o <<More>>
  BY Zenon DEF EndOf, Less, More, Slash
<1>3. <<Less>> \in Texts /\ <<More>> \in Texts /\ <<Less, Slash>> \in Texts
  BY MarksAre, TextsJoin
<1>4. (<<Less>> \o name) \o <<More>> \in Texts /\ (<<Less, Slash>> \o name) \o <<More>> \in Texts
  BY <1>3, TextsJoin
<1> QED
  BY <1>1, <1>2, <1>4

\* What a leaf holds
LEMMA LeavesAre ==
    ASSUME NEW tag \in Leaves
    PROVE  /\ tag.name \in Texts /\ tag.text \in SUBSET Texts /\ tag.tags = <<>>
           /\ tag = Tag(tag.name, tag.text, <<>>)
           /\ tag.text # NoText => The(tag.text) \in Texts /\ tag.text = {The(tag.text)}
<1>1. /\ tag.name \in Texts /\ tag.tags = <<>>
      /\ tag.text \in {some \in SUBSET Texts : \A s, t \in some : s = t}
      /\ tag = [name |-> tag.name, text |-> tag.text, tags |-> <<>>]
  BY DEF Leaves
<1>2. ASSUME tag.text # NoText PROVE The(tag.text) \in Texts /\ tag.text = {The(tag.text)}
  <2>1. PICK x : x \in tag.text
    BY <1>2 DEF NoText
  <2>2. The(tag.text) \in tag.text
    BY <2>1 DEF The
  <2> QED
    BY <1>1, <2>2
<1> QED
  BY <1>1, <1>2 DEF Tag

(* What a tag is written as.                                                   *)
LEMMA WrittenIs ==
    ASSUME NEW tag \in Leaves
    PROVE  Written(tag) \in Texts
<1>1. tag.name \in Texts /\ (tag.text # NoText => The(tag.text) \in Texts)
  BY LeavesAre
<1> DEFINE text == IF tag.text = NoText THEN <<>> ELSE Escaped(The(tag.text))
           opening == Opening(tag.name)
           end == EndOf(tag.name)
<1>2. Written(tag) = IF IsText(tag) THEN text
                     ELSE IF tag.text = NoText THEN opening ELSE (opening \o text) \o end
  BY Zenon DEF Written
<1>3. text \in Texts /\ opening \in Texts /\ end \in Texts
  BY <1>1, TextsJoin, EscapedIs, OpeningIs
<1> HIDE DEF text, opening, end
<1>4. (opening \o text) \o end \in Texts
  BY <1>3, TextsJoin
<1> QED
  BY <1>2, <1>3, <1>4

LEMMA PhraseIsWritten ==
    ASSUME NEW phrase \in Seq(Leaves)
    PROVE  /\ WrittenAs(phrase) \in Texts
           /\ \E upTo : /\ upTo \in [0 .. Len(phrase) -> Texts] /\ upTo[0] = <<>>
                        /\ \A k \in 1 .. Len(phrase) : upTo[k] = upTo[k - 1] \o Written(phrase[k])
                        /\ WrittenAs(phrase) = upTo[Len(phrase)]
<1> DEFINE N == Len(phrase)
           parts == [i \in 1 .. N |-> Written(phrase[i])]
<1>1. N \in Nat /\ \A i \in 1 .. N : phrase[i] \in Leaves
  BY LenProperties, ElementOfSeq
<1>2. parts \in [1 .. N -> Texts] /\ \A i \in 1 .. N : parts[i] = Written(phrase[i])
  BY <1>1, WrittenIs
<1>3. WrittenAs(phrase) = FlattenSeq(parts)
  BY Zenon DEF WrittenAs
<1> HIDE DEF N, parts
<1>4. parts \in Seq(Seq(Lexemes)) /\ Len(parts) = N
  BY <1>1, <1>2, FunctionIsSeq, TextsAre
<1>5. PICK flat : FlatRule(flat, parts, Lexemes) /\ FlattenSeq(parts) = flat[Len(parts)]
  BY <1>4, FlattenIs
<1>6. /\ flat \in [0 .. N -> Texts] /\ flat[0] = <<>>
      /\ \A k \in 1 .. N : flat[k] = flat[k - 1] \o Written(phrase[k])
  BY <1>2, <1>4, <1>5, TextsAre DEF FlatRule
<1>7. WrittenAs(phrase) = flat[N] /\ flat[N] \in Texts
  BY <1>1, <1>3, <1>4, <1>5, <1>6
<1> QED
  BY <1>6, <1>7 DEF N

LEMMA InputsAre ==
    ASSUME NEW input \in Inputs
    PROVE  input.source \in Texts
<1>1. CASE input \in {[source |-> s, meant |-> {}] : s \in Sources}
  BY <1>1, MatcherAssumption
<1>2. ASSUME NEW p \in Phrases, input = [source |-> WrittenAs(p), meant |-> {p}]
      PROVE  input.source \in Texts
  BY <1>2, MatcherAssumption, PhraseIsWritten
<1> QED
  BY <1>1, <1>2 DEF Inputs

LEMMA SourceStays == Spec => []SourceInv
<1>1. Init => SourceInv
  BY TextsJoin DEF Init, SourceInv
<1>2. SourceInv /\ [Next]_vars => SourceInv'
  <2> SUFFICES ASSUME SourceInv, [Next]_vars PROVE SourceInv'
    OBVIOUS
  <2>1. ASSUME NEW input \in Inputs, Receive(input) PROVE SourceInv'
    <3>1. source' = input.source
      BY <2>1, Zenon DEF Receive
    <3> QED
      BY <3>1, InputsAre DEF SourceInv
  <2>2. ASSUME NEW input \in Inputs, NEW side \in {"match", "expand"}, Refuse(input, side)
        PROVE  SourceInv'
    BY <2>1, <2>2, Zenon DEF Refuse
  <2>3. ASSUME NEW input \in Inputs, AddMatch(input) PROVE SourceInv'
    BY <2>1, <2>3, Zenon DEF AddMatch
  <2>4. ASSUME NEW input \in Inputs, Expand(input) PROVE SourceInv'
    BY <2>1, <2>4, Zenon DEF Expand
  <2>5. ASSUME NEW c \in Chars, Type(c) PROVE SourceInv'
    <3>1. source' = source
      BY <2>5, Zenon DEF Type, rule
    <3> QED
      BY <3>1 DEF SourceInv
  <2>6. CASE Edit
    <3>1. source' = source
      BY <2>6, Zenon DEF Edit, rule
    <3> QED
      BY <3>1 DEF SourceInv
  <2>7. CASE UNCHANGED vars
    BY <2>7 DEF vars, SourceInv
  <2> QED
    BY <2>2, <2>3, <2>4, <2>5, <2>6, <2>7 DEF Next
<1> QED
  BY <1>1, <1>2, PTL DEF Spec

(* The block of strlen + 1 bytes is long enough for the joined lines of any    *)
(* source (tags.c:94-157): whenever a space is put in, a character of the      *)
(* source was left out before.                                                 *)
THEOREM LinesFit == Spec => []MinifiedFits
<1>1. SourceInv => MinifiedFits
  BY MinifiedIsShorter, TextsAre DEF SourceInv, MinifiedFits
<1> QED
  BY <1>1, SourceStays, PTL

-----------------------------------------------------------------------------
(* The buffer: its caret lies on it.                                           *)

LEMMA PiecesOfSeq ==
    ASSUME NEW S, NEW s \in Seq(S), NEW e \in S
    PROVE  /\ \A i \in 1 .. Len(s) + 1 :
                InsertAt(s, i, e) \in Seq(S) /\ Len(InsertAt(s, i, e)) = Len(s) + 1
           /\ \A i \in 1 .. Len(s) :
                RemoveAt(s, i) \in Seq(S) /\ Len(RemoveAt(s, i)) = Len(s) - 1
<1> DEFINE N == Len(s)
<1>1. N \in Nat /\ \A i \in 1 .. N : s[i] \in S
  BY LenProperties, ElementOfSeq
<1>2. /\ <<e>> \in Seq(S) /\ Len(<<e>>) = 1
  OBVIOUS
<1>3. ASSUME NEW a \in Int, NEW b \in Int, 1 <= a, b <= N
      PROVE  SubSeq(s, a, b) \in Seq(S) /\ Len(SubSeq(s, a, b)) = IF a <= b THEN b - a + 1 ELSE 0
  <2>1. \A i \in a .. b : s[i] \in S
    BY <1>1, <1>3
  <2> QED
    BY <2>1, SubSeqProperties
<1> HIDE DEF N
<1>4. ASSUME NEW i \in 1 .. N + 1
      PROVE  InsertAt(s, i, e) \in Seq(S) /\ Len(InsertAt(s, i, e)) = N + 1
  <2> DEFINE u == SubSeq(s, 1, i - 1)  v == SubSeq(s, i, N)  one == <<e>>
  <2>1. u \in Seq(S) /\ Len(u) = i - 1
    BY <1>1, <1>3
  <2>2. v \in Seq(S) /\ Len(v) = N - i + 1
    BY <1>1, <1>3
  <2>3. InsertAt(s, i, e) = (u \o one) \o v
    BY Zenon DEF InsertAt, N
  <2> HIDE DEF u, v, one
  <2>4. u \o one \in Seq(S) /\ Len(u \o one) = i
    BY <1>1, <1>2, <2>1, ConcatProperties DEF one
  <2>5. (u \o one) \o v \in Seq(S) /\ Len((u \o one) \o v) = i + (N - i + 1)
    <3> DEFINE x == u \o one
    <3>1. x \in Seq(S) /\ Len(x) = i
      BY <2>4
    <3> HIDE DEF x
    <3>2. x \o v \in Seq(S) /\ Len(x \o v) = Len(x) + Len(v)
      BY <2>2, <3>1, ConcatProperties
    <3> QED
      BY <2>2, <3>1, <3>2 DEF x
  <2>6. i + (N - i + 1) = N + 1
    BY <1>1
  <2> QED
    BY <2>3, <2>5, <2>6
<1>5. ASSUME NEW i \in 1 .. N
      PROVE  RemoveAt(s, i) \in Seq(S) /\ Len(RemoveAt(s, i)) = N - 1
  <2> DEFINE u == SubSeq(s, 1, i - 1)  v == SubSeq(s, i + 1, N)
  <2>1. u \in Seq(S) /\ Len(u) = i - 1
    BY <1>1, <1>3
  <2>2. v \in Seq(S) /\ Len(v) = N - i
    BY <1>1, <1>3
  <2>3. RemoveAt(s, i) = u \o v
    BY Zenon DEF RemoveAt, N
  <2> HIDE DEF u, v
  <2>4. u \o v \in Seq(S) /\ Len(u \o v) = (i - 1) + (N - i)
    <3>1. u \o v \in Seq(S) /\ Len(u \o v) = Len(u) + Len(v)
      BY <2>1, <2>2, ConcatProperties
    <3> QED
      BY <2>1, <2>2, <3>1
  <2>5. (i - 1) + (N - i) = N - 1
    BY <1>1
  <2> QED
    BY <2>3, <2>4, <2>5
<1> QED
  BY <1>4, <1>5 DEF N

Buffers == [chars : Seq(Chars), cursor : Nat]

BufferInv == kb \in Buffers /\ kb.cursor <= Len(kb.chars)

LEMMA BufferSteps ==
    ASSUME BufferInv
    PROVE  /\ \A c \in Chars : Push(c) => BufferInv'
           /\ Pop \/ (\E offset \in {1, -1} : Move(offset)) \/ Clear => BufferInv'
<1> DEFINE s == kb.chars  k == kb.cursor  N == Len(s)
<1>1. /\ s \in Seq(Chars) /\ k \in Nat /\ N \in Nat /\ k <= N /\ Size(kb) = N
      /\ kb = [chars |-> s, cursor |-> k]
  BY LenProperties DEF BufferInv, Buffers, Size
<1> HIDE DEF s, k, N
<1>2. ASSUME NEW b, NEW t \in Seq(Chars), NEW j \in Nat, j <= Len(t),
             b = [chars |-> t, cursor |-> j], kb' = b
      PROVE  BufferInv'
  BY <1>2 DEF BufferInv, Buffers
<1>3. ASSUME NEW c \in Chars, Push(c) PROVE BufferInv'
  <2> DEFINE t == InsertAt(s, N - k + 1, c)
  <2>1. N - k + 1 \in 1 .. N + 1
    BY <1>1
  <2>2. t \in Seq(Chars) /\ Len(t) = N + 1
    BY <1>1, <2>1, PiecesOfSeq DEF N
  <2>3. kb' = [kb EXCEPT !.chars = t]
    BY <1>1, <1>3, Zenon DEF Push, Pushed, PushIndex, s, k
  <2> HIDE DEF t
  <2>4. kb' = [chars |-> t, cursor |-> k]
    BY <1>1, <2>3
  <2>5. k <= Len(t)
    BY <1>1, <2>2
  <2> QED
    BY <1>1, <1>2, <2>2, <2>4, <2>5
<1>4. ASSUME Pop PROVE BufferInv'
  <2>1. CASE s = <<>>
    <3>1. kb' = kb
      BY <1>4, <2>1 DEF Pop, Popped, s
    <3> QED
      BY <3>1 DEF BufferInv
  <2>2. CASE s # <<>>
    <3> DEFINE t == RemoveAt(s, PopIndex(kb))  j == PopCursor(kb)
    <3>1. N > 0
      BY <1>1, <2>2, EmptySeq DEF N
    <3>2. PopIndex(kb) \in 1 .. N
      BY <1>1, <3>1 DEF PopIndex, k
    <3>3. j \in Nat /\ j <= N - 1
      BY <1>1, <3>1 DEF PopCursor, k
    <3>4. kb' = [chars |-> t, cursor |-> j]
      BY <1>4, <2>2, Zenon DEF Pop, Popped, s
    <3>5. t \in Seq(Chars) /\ Len(t) = N - 1
      <4>1. PICK e : e \in Chars
        <5>1. s[1] \in Chars
          BY <1>1, <3>1, ElementOfSeq DEF N
        <5> QED
          BY <5>1
      <4> QED
        BY <1>1, <3>2, <4>1, PiecesOfSeq DEF N
    <3> HIDE DEF t, j
    <3>6. j <= Len(t)
      BY <3>3, <3>5
    <3> QED
      BY <1>2, <3>3, <3>4, <3>5, <3>6
  <2> QED
    BY <2>1, <2>2
<1>5. ASSUME NEW offset \in {1, -1}, Move(offset) PROVE BufferInv'
  <2>1. CASE k + offset \in 0 .. N
    <3>1. kb' = [kb EXCEPT !.cursor = k + offset]
      BY <1>1, <1>5, <2>1 DEF Move, Moved, k
    <3>2. kb' = [chars |-> s, cursor |-> k + offset]
      BY <1>1, <3>1
    <3> QED
      BY <1>1, <1>2, <2>1, <3>2 DEF N
  <2>2. CASE k + offset \notin 0 .. N
    <3>1. kb' = kb
      BY <1>1, <1>5, <2>2 DEF Move, Moved, k
    <3> QED
      BY <3>1 DEF BufferInv
  <2> QED
    BY <2>1, <2>2
<1>6. ASSUME Clear PROVE BufferInv'
  <2> DEFINE none == <<>>
  <2>1. none \in Seq(Chars) /\ 0 <= Len(none)
    OBVIOUS
  <2>2. kb' = [chars |-> none, cursor |-> 0]
    BY <1>6 DEF Clear, Cleared
  <2> HIDE DEF none
  <2> QED
    BY <1>2, <2>1, <2>2
<1> QED
  BY <1>3, <1>4, <1>5, <1>6

LEMMA BufferStays == Spec => []BufferInv
<1>1. Init => BufferInv
  <2> SUFFICES ASSUME Init PROVE BufferInv
    OBVIOUS
  <2> DEFINE none == <<>>
  <2>1. none \in Seq(Chars) /\ 0 <= Len(none)
    OBVIOUS
  <2>2. kb = [chars |-> none, cursor |-> 0]
    BY DEF Init, KbInit, Cleared
  <2> HIDE DEF none
  <2> QED
    BY <2>1, <2>2 DEF BufferInv, Buffers
<1>2. BufferInv /\ [Next]_vars => BufferInv'
  <2> SUFFICES ASSUME BufferInv, [Next]_vars PROVE BufferInv'
    OBVIOUS
  <2>1. kb' = kb => BufferInv'
    BY DEF BufferInv
  <2>2. ASSUME NEW input \in Inputs, NEW side \in {"match", "expand"}, Refuse(input, side)
        PROVE  BufferInv'
    BY <2>1, <2>2 DEF Refuse
  <2>3. ASSUME NEW input \in Inputs, AddMatch(input) PROVE BufferInv'
    BY <2>1, <2>3 DEF AddMatch
  <2>4. ASSUME NEW input \in Inputs, Expand(input) PROVE BufferInv'
    BY <2>1, <2>4 DEF Expand
  <2>5. ASSUME NEW c \in Chars, Type(c) PROVE BufferInv'
    <3>1. Push(c)
      BY <2>5, Zenon DEF Type
    <3> QED
      BY <3>1, BufferSteps
  <2>6. CASE Edit
    <3>1. Pop \/ (\E offset \in {1, -1} : Move(offset)) \/ Clear
      BY <2>6, Zenon DEF Edit
    <3> QED
      BY <3>1, BufferSteps
  <2>7. CASE UNCHANGED vars
    BY <2>1, <2>7 DEF vars
  <2> QED
    BY <2>2, <2>3, <2>4, <2>5, <2>6, <2>7 DEF Next
<1> QED
  BY <1>1, <1>2, PTL DEF Spec

-----------------------------------------------------------------------------
(* The walk of a match, and what a match stands for                            *)

\* What each tag stands for, by the depth and the case it stands in
PatternRule(pattern) ==
    \A n \in 1 .. Nesting : \A tag \in Trees[n] : \A now \in BOOLEAN :
      pattern[n][tag][now] = PatternBy(pattern[n - 1], tag, now)

(* Each of the four ways through a match goes to every tag, and does with it   *)
(* what is said of one tag.                                                    *)
LEMMA PatternGoes ==
    \E pattern : PatternRule(pattern) /\ \A top : Pattern(top) = pattern[Nesting][top][TRUE]
<1>0. Nesting \in Nat
  BY TagsAssumption
<1> DEFINE Level(n, below) ==
         [tag \in Trees[n] |-> [now \in BOOLEAN |-> PatternBy(below, tag, now)]]
           Rule(k, f) == f = [n \in 0 .. k |-> Level(n, f[n - 1])]
           S == {k \in 0 .. Nesting : \E f : Rule(k, f)}
           pattern == CHOOSE f : Rule(Nesting, f)
<1>1. \A x, y : Level(0, x) = Level(0, y)
  BY TreesAre
<1>2. \A top : Pattern(top) = pattern[Nesting][top][TRUE]
  BY Zenon DEF Pattern
<1> HIDE DEF Level
<1>3. 0 \in S
  <2> DEFINE f == [n \in 0 .. 0 |-> Level(0, 0)]
  <2>1. f = [n \in 0 .. 0 |-> Level(n, f[n - 1])]
    BY <1>1
  <2> HIDE DEF f
  <2> QED
    BY <2>1, <1>0
<1>4. ASSUME NEW k \in 0 .. Nesting - 1, k \in S PROVE k + 1 \in S
  <2>1. PICK f : Rule(k, f)
    BY <1>4
  <2> DEFINE g == [n \in 0 .. k + 1 |-> IF n = k + 1 THEN Level(k + 1, f[k]) ELSE f[n]]
  <2>2. \A n \in 0 .. k + 1 : g[n] = Level(n, g[n - 1])
    <3> SUFFICES ASSUME NEW n \in 0 .. k + 1 PROVE g[n] = Level(n, g[n - 1])
      OBVIOUS
    <3>1. \A i \in 0 .. k : g[i] = f[i] /\ f[i] = Level(i, f[i - 1])
      BY <2>1
    <3>2. CASE n = k + 1
      BY <3>1, <3>2
    <3>3. CASE n \in 1 .. k
      <4>1. n \in 0 .. k /\ n - 1 \in 0 .. k /\ n # k + 1
        BY <3>3
      <4>2. g[n] = f[n] /\ g[n - 1] = f[n - 1]
        BY <4>1, <3>1
      <4> QED
        BY <4>1, <4>2, <3>1
    <3>4. CASE n = 0
      BY <3>1, <3>4, <1>1
    <3> QED
      BY <3>2, <3>3, <3>4
  <2>3. Rule(k + 1, g)
    BY <2>2
  <2> HIDE DEF g, Rule
  <2> QED
    BY <2>3, <1>0
<1>5. Nesting \in S
  <2> HIDE DEF S
  <2> QED
    BY <1>0, <1>3, <1>4, UpTo
<1>6. Rule(Nesting, pattern)
  <2> HIDE DEF Rule
  <2> QED
    BY <1>5
<1> HIDE DEF pattern
<1>7. ASSUME NEW n \in 0 .. Nesting PROVE pattern[n] = Level(n, pattern[n - 1])
  BY <1>6
<1>8. ASSUME NEW n \in 1 .. Nesting, NEW tag \in Trees[n], NEW now \in BOOLEAN
      PROVE  pattern[n][tag][now] = PatternBy(pattern[n - 1], tag, now)
  <2>1. n \in 0 .. Nesting
    BY <1>0
  <2>2. pattern[n] = Level(n, pattern[n - 1])
    BY <2>1, <1>7
  <2>3. Level(n, pattern[n - 1])[tag][now] = PatternBy(pattern[n - 1], tag, now)
    BY DEF Level
  <2> QED
    BY <2>2, <2>3
<1> QED
  BY <1>2, <1>8 DEF PatternRule

\* Where the walk of each tag comes to, by the depth and where it starts
WalkRule(walk, chars) ==
    \A n \in 1 .. Nesting : \A tag \in Trees[n] : \A s \in WalkStates :
      walk[n][tag][s] = WalkBy(walk[n - 1], tag, chars, s)

LEMMA WalkGoes ==
    ASSUME NEW chars
    PROVE  \E walk : /\ WalkRule(walk, chars)
                     /\ \A top, s : TagWalk(top, chars, s) = walk[Nesting][top][s]
<1>0. Nesting \in Nat
  BY TagsAssumption
<1> DEFINE Level(n, below) ==
         [tag \in Trees[n] |-> [s \in WalkStates |-> WalkBy(below, tag, chars, s)]]
           Rule(k, f) == f = [n \in 0 .. k |-> Level(n, f[n - 1])]
           S == {k \in 0 .. Nesting : \E f : Rule(k, f)}
           walk == CHOOSE f : Rule(Nesting, f)
<1>1. \A x, y : Level(0, x) = Level(0, y)
  BY TreesAre
<1>2. \A top, s : TagWalk(top, chars, s) = walk[Nesting][top][s]
  BY Zenon DEF TagWalk
<1> HIDE DEF Level
<1>3. 0 \in S
  <2> DEFINE f == [n \in 0 .. 0 |-> Level(0, 0)]
  <2>1. f = [n \in 0 .. 0 |-> Level(n, f[n - 1])]
    BY <1>1
  <2> HIDE DEF f
  <2> QED
    BY <2>1, <1>0
<1>4. ASSUME NEW k \in 0 .. Nesting - 1, k \in S PROVE k + 1 \in S
  <2>1. PICK f : Rule(k, f)
    BY <1>4
  <2> DEFINE g == [n \in 0 .. k + 1 |-> IF n = k + 1 THEN Level(k + 1, f[k]) ELSE f[n]]
  <2>2. \A n \in 0 .. k + 1 : g[n] = Level(n, g[n - 1])
    <3> SUFFICES ASSUME NEW n \in 0 .. k + 1 PROVE g[n] = Level(n, g[n - 1])
      OBVIOUS
    <3>1. \A i \in 0 .. k : g[i] = f[i] /\ f[i] = Level(i, f[i - 1])
      BY <2>1
    <3>2. CASE n = k + 1
      BY <3>1, <3>2
    <3>3. CASE n \in 1 .. k
      <4>1. n \in 0 .. k /\ n - 1 \in 0 .. k /\ n # k + 1
        BY <3>3
      <4>2. g[n] = f[n] /\ g[n - 1] = f[n - 1]
        BY <4>1, <3>1
      <4> QED
        BY <4>1, <4>2, <3>1
    <3>4. CASE n = 0
      BY <3>1, <3>4, <1>1
    <3> QED
      BY <3>2, <3>3, <3>4
  <2>3. Rule(k + 1, g)
    BY <2>2
  <2> HIDE DEF g, Rule
  <2> QED
    BY <2>3, <1>0
<1>5. Nesting \in S
  <2> HIDE DEF S
  <2> QED
    BY <1>0, <1>3, <1>4, UpTo
<1>6. Rule(Nesting, walk)
  <2> HIDE DEF Rule
  <2> QED
    BY <1>5
<1> HIDE DEF walk
<1>7. ASSUME NEW n \in 0 .. Nesting PROVE walk[n] = Level(n, walk[n - 1])
  BY <1>6
<1>8. ASSUME NEW n \in 1 .. Nesting, NEW tag \in Trees[n], NEW s \in WalkStates
      PROVE  walk[n][tag][s] = WalkBy(walk[n - 1], tag, chars, s)
  <2>1. n \in 0 .. Nesting
    BY <1>0
  <2>2. walk[n] = Level(n, walk[n - 1])
    BY <2>1, <1>7
  <2>3. Level(n, walk[n - 1])[tag][s] = WalkBy(walk[n - 1], tag, chars, s)
    BY DEF Level
  <2> QED
    BY <2>2, <2>3
<1> QED
  BY <1>2, <1>8 DEF WalkRule

\* What the last character of each tag may be, by the depth and the case
InitializersRule(of) ==
    \A n \in 1 .. Nesting : \A tag \in Trees[n] : \A now \in BOOLEAN :
      of[n][tag][now] = InitializersBy(of[n - 1], tag, now)

LEMMA InitializersGo ==
    \E of : /\ InitializersRule(of)
            /\ \A top, now : InitializersOf(top, now) = of[Nesting][top][now]
<1>0. Nesting \in Nat
  BY TagsAssumption
<1> DEFINE Level(n, below) ==
         [tag \in Trees[n] |-> [now \in BOOLEAN |-> InitializersBy(below, tag, now)]]
           Rule(k, f) == f = [n \in 0 .. k |-> Level(n, f[n - 1])]
           S == {k \in 0 .. Nesting : \E f : Rule(k, f)}
           of == CHOOSE f : Rule(Nesting, f)
<1>1. \A x, y : Level(0, x) = Level(0, y)
  BY TreesAre
<1>2. \A top, now : InitializersOf(top, now) = of[Nesting][top][now]
  BY Zenon DEF InitializersOf
<1> HIDE DEF Level
<1>3. 0 \in S
  <2> DEFINE f == [n \in 0 .. 0 |-> Level(0, 0)]
  <2>1. f = [n \in 0 .. 0 |-> Level(n, f[n - 1])]
    BY <1>1
  <2> HIDE DEF f
  <2> QED
    BY <2>1, <1>0
<1>4. ASSUME NEW k \in 0 .. Nesting - 1, k \in S PROVE k + 1 \in S
  <2>1. PICK f : Rule(k, f)
    BY <1>4
  <2> DEFINE g == [n \in 0 .. k + 1 |-> IF n = k + 1 THEN Level(k + 1, f[k]) ELSE f[n]]
  <2>2. \A n \in 0 .. k + 1 : g[n] = Level(n, g[n - 1])
    <3> SUFFICES ASSUME NEW n \in 0 .. k + 1 PROVE g[n] = Level(n, g[n - 1])
      OBVIOUS
    <3>1. \A i \in 0 .. k : g[i] = f[i] /\ f[i] = Level(i, f[i - 1])
      BY <2>1
    <3>2. CASE n = k + 1
      BY <3>1, <3>2
    <3>3. CASE n \in 1 .. k
      <4>1. n \in 0 .. k /\ n - 1 \in 0 .. k /\ n # k + 1
        BY <3>3
      <4>2. g[n] = f[n] /\ g[n - 1] = f[n - 1]
        BY <4>1, <3>1
      <4> QED
        BY <4>1, <4>2, <3>1
    <3>4. CASE n = 0
      BY <3>1, <3>4, <1>1
    <3> QED
      BY <3>2, <3>3, <3>4
  <2>3. Rule(k + 1, g)
    BY <2>2
  <2> HIDE DEF g, Rule
  <2> QED
    BY <2>3, <1>0
<1>5. Nesting \in S
  <2> HIDE DEF S
  <2> QED
    BY <1>0, <1>3, <1>4, UpTo
<1>6. Rule(Nesting, of)
  <2> HIDE DEF Rule
  <2> QED
    BY <1>5
<1> HIDE DEF of
<1>7. ASSUME NEW n \in 0 .. Nesting PROVE of[n] = Level(n, of[n - 1])
  BY <1>6
<1>8. ASSUME NEW n \in 1 .. Nesting, NEW tag \in Trees[n], NEW now \in BOOLEAN
      PROVE  of[n][tag][now] = InitializersBy(of[n - 1], tag, now)
  <2>1. n \in 0 .. Nesting
    BY <1>0
  <2>2. of[n] = Level(n, of[n - 1])
    BY <2>1, <1>7
  <2>3. Level(n, of[n - 1])[tag][now] = InitializersBy(of[n - 1], tag, now)
    BY DEF Level
  <2> QED
    BY <2>2, <2>3
<1> QED
  BY <1>2, <1>8 DEF InitializersRule

\* The tag that each tag ends in, by the depth
EndRule(last) ==
    \A n \in 1 .. Nesting : \A tag \in Trees[n] :
      last[n][tag] = IF tag.tags = <<>> THEN tag ELSE last[n - 1][Last(tag.tags)]

LEMMA EndGoes ==
    \E last : EndRule(last) /\ \A top : EndOfMatch(top) = last[Nesting][top]
<1>0. Nesting \in Nat
  BY TagsAssumption
<1> DEFINE Level(n, below) ==
         [tag \in Trees[n] |-> IF tag.tags = <<>> THEN tag ELSE below[Last(tag.tags)]]
           Rule(k, f) == f = [n \in 0 .. k |-> Level(n, f[n - 1])]
           S == {k \in 0 .. Nesting : \E f : Rule(k, f)}
           last == CHOOSE f : Rule(Nesting, f)
<1>1. \A x, y : Level(0, x) = Level(0, y)
  BY TreesAre
<1>2. \A top : EndOfMatch(top) = last[Nesting][top]
  BY Zenon DEF EndOfMatch
<1> HIDE DEF Level
<1>3. 0 \in S
  <2> DEFINE f == [n \in 0 .. 0 |-> Level(0, 0)]
  <2>1. f = [n \in 0 .. 0 |-> Level(n, f[n - 1])]
    BY <1>1
  <2> HIDE DEF f
  <2> QED
    BY <2>1, <1>0
<1>4. ASSUME NEW k \in 0 .. Nesting - 1, k \in S PROVE k + 1 \in S
  <2>1. PICK f : Rule(k, f)
    BY <1>4
  <2> DEFINE g == [n \in 0 .. k + 1 |-> IF n = k + 1 THEN Level(k + 1, f[k]) ELSE f[n]]
  <2>2. \A n \in 0 .. k + 1 : g[n] = Level(n, g[n - 1])
    <3> SUFFICES ASSUME NEW n \in 0 .. k + 1 PROVE g[n] = Level(n, g[n - 1])
      OBVIOUS
    <3>1. \A i \in 0 .. k : g[i] = f[i] /\ f[i] = Level(i, f[i - 1])
      BY <2>1
    <3>2. CASE n = k + 1
      BY <3>1, <3>2
    <3>3. CASE n \in 1 .. k
      <4>1. n \in 0 .. k /\ n - 1 \in 0 .. k /\ n # k + 1
        BY <3>3
      <4>2. g[n] = f[n] /\ g[n - 1] = f[n - 1]
        BY <4>1, <3>1
      <4> QED
        BY <4>1, <4>2, <3>1
    <3>4. CASE n = 0
      BY <3>1, <3>4, <1>1
    <3> QED
      BY <3>2, <3>3, <3>4
  <2>3. Rule(k + 1, g)
    BY <2>2
  <2> HIDE DEF g, Rule
  <2> QED
    BY <2>3, <1>0
<1>5. Nesting \in S
  <2> HIDE DEF S
  <2> QED
    BY <1>0, <1>3, <1>4, UpTo
<1>6. Rule(Nesting, last)
  <2> HIDE DEF Rule
  <2> QED
    BY <1>5
<1> HIDE DEF last
<1>7. ASSUME NEW n \in 0 .. Nesting PROVE last[n] = Level(n, last[n - 1])
  BY <1>6
<1>8. ASSUME NEW n \in 1 .. Nesting, NEW tag \in Trees[n]
      PROVE  last[n][tag] = IF tag.tags = <<>> THEN tag ELSE last[n - 1][Last(tag.tags)]
  <2>1. n \in 0 .. Nesting
    BY <1>0
  <2>2. last[n] = Level(n, last[n - 1])
    BY <2>1, <1>7
  <2>3. Level(n, last[n - 1])[tag]
          = IF tag.tags = <<>> THEN tag ELSE last[n - 1][Last(tag.tags)]
    BY DEF Level
  <2> QED
    BY <2>2, <2>3
<1> QED
  BY <1>2, <1>8 DEF EndRule

-----------------------------------------------------------------------------
(* Patterns and characters                                                     *)

Marks == STRING \cup Letters \cup {KeyChar(name) : name \in Texts}

Patterns == Seq(SUBSET Marks)

\* The keys a pattern stands for end at the c-th character.
Fits(pattern, chars, c) ==
    /\ Len(pattern) <= c
    /\ \A i \in 1 .. Len(pattern) : chars[c - Len(pattern) + i] \in pattern[i]

(* Two patterns after one another fit when the second does, and the first to   *)
(* the left of it.                                                             *)
LEMMA FitsTogether ==
    ASSUME NEW u \in Patterns, NEW v \in Patterns, NEW chars, NEW c \in Int
    PROVE  Fits(u \o v, chars, c) <=> Fits(v, chars, c) /\ Fits(u, chars, c - Len(v))
<1> DEFINE x == u \o v  L == Len(u)  R == Len(v)
<1>1. /\ L \in Nat /\ R \in Nat /\ Len(x) = L + R
      /\ \A i \in 1 .. L : x[i] = u[i]
      /\ \A j \in 1 .. R : x[L + j] = v[j]
  <2>1. L \in Nat /\ R \in Nat
    BY LenProperties DEF Patterns
  <2>2. Len(x) = L + R /\ \A i \in 1 .. L + R : x[i] = IF i <= L THEN u[i] ELSE v[i - L]
    BY ConcatProperties DEF Patterns
  <2> HIDE DEF x, L, R
  <2>3. ASSUME NEW i \in 1 .. L PROVE x[i] = u[i]
    BY <2>1, <2>2
  <2>4. ASSUME NEW j \in 1 .. R PROVE x[L + j] = v[j]
    <3>1. L + j \in 1 .. L + R /\ ~(L + j <= L) /\ (L + j) - L = j
      BY <2>1
    <3> QED
      BY <2>2, <3>1
  <2> QED
    BY <2>1, <2>2, <2>3, <2>4
<1> HIDE DEF x
<1>2. Fits(x, chars, c) <=>
        /\ L + R <= c
        /\ \A i \in 1 .. L + R : chars[c - (L + R) + i] \in x[i]
  BY <1>1, Zenon DEF Fits
<1>3. Fits(v, chars, c) <=> R <= c /\ \A j \in 1 .. R : chars[c - R + j] \in v[j]
  BY Zenon DEF Fits
<1>4. Fits(u, chars, c - R) <=> L <= c - R /\ \A i \in 1 .. L : chars[c - R - L + i] \in u[i]
  BY Zenon DEF Fits
<1> HIDE DEF L, R
<1>5. ASSUME Fits(x, chars, c) PROVE Fits(v, chars, c) /\ Fits(u, chars, c - R)
  <2>1. L + R <= c /\ R <= c /\ L <= c - R
    BY <1>1, <1>2, <1>5
  <2>2. ASSUME NEW j \in 1 .. R PROVE chars[c - R + j] \in v[j]
    <3>1. L + j \in 1 .. L + R /\ c - (L + R) + (L + j) = c - R + j
      BY <1>1
    <3>2. chars[c - (L + R) + (L + j)] \in x[L + j]
      BY <1>2, <1>5, <3>1
    <3> QED
      BY <1>1, <3>1, <3>2
  <2>3. ASSUME NEW i \in 1 .. L PROVE chars[c - R - L + i] \in u[i]
    <3>1. i \in 1 .. L + R /\ c - (L + R) + i = c - R - L + i
      BY <1>1
    <3>2. chars[c - (L + R) + i] \in x[i]
      BY <1>2, <1>5, <3>1
    <3> QED
      BY <1>1, <3>1, <3>2
  <2> QED
    BY <1>3, <1>4, <2>1, <2>2, <2>3
<1>6. ASSUME Fits(v, chars, c), Fits(u, chars, c - R) PROVE Fits(x, chars, c)
  <2>1. L + R <= c
    BY <1>1, <1>4, <1>6
  <2>2. ASSUME NEW i \in 1 .. L + R PROVE chars[c - (L + R) + i] \in x[i]
    <3>1. CASE i <= L
      <4>1. i \in 1 .. L /\ c - (L + R) + i = c - R - L + i
        BY <1>1, <3>1
      <4>2. chars[c - R - L + i] \in u[i]
        BY <1>4, <1>6, <4>1
      <4> QED
        BY <1>1, <4>1, <4>2
    <3>2. CASE ~(i <= L)
      <4>1. PICK j \in 1 .. R : i = L + j
        <5>1. i - L \in 1 .. R /\ i = L + (i - L)
          BY <1>1, <3>2
        <5> QED
          BY <5>1
      <4>2. c - (L + R) + i = c - R + j
        BY <1>1, <4>1
      <4>3. chars[c - R + j] \in v[j]
        BY <1>3, <1>6
      <4> QED
        BY <1>1, <4>1, <4>2, <4>3
    <3> QED
      BY <3>1, <3>2
  <2> QED
    BY <1>2, <2>1, <2>2
<1> QED
  BY <1>5, <1>6 DEF x, R

(* The comparison of two characters without their case asks whether one is the *)
(* other in either case.                                                       *)
LEMMA CasesAre ==
    ASSUME NEW c, NEW d
    PROVE  /\ \A now \in BOOLEAN :
                CharEq(c, d, now) <=> d \in IF now THEN {c} ELSE BothCases(c)
           /\ c \notin Letters => BothCases(c) = {c}
<1> DEFINE D == DOMAIN SmallOf
<1>1. \A e : e \in Letters <=> e \in D \/ \E f \in D : e = SmallOf[f]
  BY DEF Letters
<1>2. \A e : LowerOf(e) = IF e \in D THEN SmallOf[e] ELSE e
  BY DEF LowerOf
<1> HIDE DEF D
<1>3. \A e : e \in BothCases(c) <=> (e \in Letters \/ e = c) /\ LowerOf(e) = LowerOf(c)
  BY DEF BothCases
<1>4. LowerOf(d) = LowerOf(c) => d \in Letters \/ d = c
  BY <1>1, <1>2
<1>5. \A now \in BOOLEAN : CharEq(c, d, now) <=> IF now THEN c = d ELSE LowerOf(c) = LowerOf(d)
  BY Zenon DEF CharEq
<1>6. c \notin Letters => \A e : e \in BothCases(c) <=> e = c
  BY <1>1, <1>2, <1>3
<1> QED
  BY <1>3, <1>4, <1>5, <1>6

\* What a text stands for
TextPattern(text, now) ==
    [i \in 1 .. Len(text) |-> IF now THEN {text[i]} ELSE BothCases(text[i])]

LEMMA TextPatternIs ==
    ASSUME NEW text \in Texts, NEW now \in BOOLEAN
    PROVE  /\ TextPattern(text, now) \in Patterns /\ Len(TextPattern(text, now)) = Len(text)
           /\ \A i \in 1 .. Len(text) :
                TextPattern(text, now)[i] = IF now THEN {text[i]} ELSE BothCases(text[i])
<1> DEFINE n == Len(text)  p == TextPattern(text, now)
           Mark(i) == IF now THEN {text[i]} ELSE BothCases(text[i])
<1>1. n \in Nat /\ \A i \in 1 .. n : text[i] \in STRING
  BY LenProperties, ElementOfSeq DEF Texts
<1>2. \A c : BothCases(c) \subseteq Letters \cup {c}
  BY DEF BothCases
<1>3. ASSUME NEW i \in 1 .. n PROVE Mark(i) \in SUBSET Marks
  BY <1>1, <1>2 DEF Marks
<1>4. p = [i \in 1 .. n |-> Mark(i)]
  BY Zenon DEF TextPattern
<1> HIDE DEF n, p, Mark
<1>5. p \in [1 .. n -> SUBSET Marks] /\ \A i \in 1 .. n : p[i] = Mark(i)
  BY <1>3, <1>4
<1>6. p \in Seq(SUBSET Marks) /\ Len(p) = n
  BY <1>1, <1>5, FunctionIsSeq
<1> QED
  BY <1>5, <1>6 DEF Patterns, n, p, Mark

-----------------------------------------------------------------------------
(* The walk of one tag                                                         *)

\* Where the walk has not failed so far
Begun(s) == s.ok /\ ~s.null /\ s.cursor >= 0

\* What a walk from s, that came to w, is to find of a pattern; free says whether
\* no key is in it.
Goes(w, s, pattern, chars, free) ==
    /\ ~w.null => (w.ok <=> Fits(pattern, chars, s.cursor))
    /\ w.ok => /\ ~w.null /\ w.cursor = s.cursor - Len(pattern) /\ w.cursor >= 0
               /\ w.sensitive = s.sensitive /\ (w.undoable <=> s.undoable /\ free)

\* A state of the walk, put together
State(ok, null, cursor, undoable, sensitive) ==
    [ok |-> ok, null |-> null, cursor |-> cursor, undoable |-> undoable, sensitive |-> sensitive]

(* What the steps of the walk change: a text, a key, a call of NULL and a      *)
(* change of the case.                                                         *)
LEMMA TextChanges ==
    ASSUME NEW s \in WalkStates, NEW x, NEW y
    PROVE  [s EXCEPT !.cursor = x, !.ok = y] = State(y, s.null, x, s.undoable, s.sensitive)
<1> USE DEF State
<1> DEFINE w == [s EXCEPT !.cursor = x]
<1>1. w = State(s.ok, s.null, x, s.undoable, s.sensitive)
  BY DEF WalkStates
<1>2. [s EXCEPT !.cursor = x, !.ok = y] = [w EXCEPT !.ok = y]
  BY DEF WalkStates
<1> HIDE DEF w
<1> QED
  BY <1>1, <1>2

LEMMA KeyChanges ==
    ASSUME NEW s \in WalkStates, NEW x, NEW y, NEW z
    PROVE  [s EXCEPT !.undoable = z, !.cursor = x, !.ok = y]
             = State(y, s.null, x, z, s.sensitive)
<1> USE DEF State
<1> DEFINE w == [s EXCEPT !.undoable = z]  v == [w EXCEPT !.cursor = x]
<1>1. w = State(s.ok, s.null, s.cursor, z, s.sensitive)
  BY DEF WalkStates
<1>2. [s EXCEPT !.undoable = z, !.cursor = x, !.ok = y] = [v EXCEPT !.ok = y]
  BY DEF WalkStates
<1> HIDE DEF w
<1>3. v = State(s.ok, s.null, x, z, s.sensitive)
  BY <1>1
<1> HIDE DEF v
<1> QED
  BY <1>2, <1>3

LEMMA NullChanges ==
    ASSUME NEW s \in WalkStates, NEW y, NEW z
    PROVE  [s EXCEPT !.ok = y, !.null = z] = State(y, z, s.cursor, s.undoable, s.sensitive)
<1> USE DEF State
<1> DEFINE w == [s EXCEPT !.ok = y]
<1>1. w = State(y, s.null, s.cursor, s.undoable, s.sensitive)
  BY DEF WalkStates
<1>2. [s EXCEPT !.ok = y, !.null = z] = [w EXCEPT !.null = z]
  BY DEF WalkStates
<1> HIDE DEF w
<1> QED
  BY <1>1, <1>2

LEMMA CaseChanges ==
    ASSUME NEW s \in WalkStates
    PROVE  [s EXCEPT !.sensitive = ~@]
             = State(s.ok, s.null, s.cursor, s.undoable, ~s.sensitive)
  BY DEF WalkStates, State

LEMMA TextWalkIs ==
    ASSUME NEW text \in Texts, NEW s \in WalkStates, NEW chars, NEW free, free
    PROVE  /\ TextWalk(text, chars, s) \in WalkStates
           /\ Begun(s) => Goes(TextWalk(text, chars, s), s, TextPattern(text, s.sensitive),
                               chars, free)
<1> DEFINE w == TextWalk(text, chars, s)  n == Len(text)  c == s.cursor  now == s.sensitive
           p == TextPattern(text, now)
           Same == c >= n /\ \A i \in 1 .. n : CharEq(text[i], chars[c - n + i], now)
<1>1. n \in Nat /\ c \in Int /\ now \in BOOLEAN
  BY LenProperties DEF Texts, WalkStates
<1>2. w = [s EXCEPT !.cursor = c - n, !.ok = Same]
  BY Zenon DEF TextWalk
<1>3. Same \in BOOLEAN
  OBVIOUS
<1>4. /\ s = [ok |-> s.ok, null |-> s.null, cursor |-> c, undoable |-> s.undoable,
              sensitive |-> now]
      /\ s.ok \in BOOLEAN /\ s.null \in BOOLEAN /\ s.undoable \in BOOLEAN
  BY DEF WalkStates
<1>5. Same <=> Fits(p, chars, c)
  <2>1. Len(p) = n /\ \A i \in 1 .. n : p[i] = IF now THEN {text[i]} ELSE BothCases(text[i])
    BY <1>1, TextPatternIs
  <2>2. Fits(p, chars, c) <=> n <= c /\ \A i \in 1 .. n : chars[c - n + i] \in p[i]
    BY <2>1, Zenon DEF Fits
  <2>3. \A x, d : CharEq(x, d, now) <=> d \in IF now THEN {x} ELSE BothCases(x)
    <3> HIDE DEF now
    <3> QED
      BY <1>1, CasesAre
  <2> HIDE DEF p, n, c, now
  <2> QED
    BY <1>1, <2>1, <2>2, <2>3
<1>6. Len(p) = n
  BY <1>1, TextPatternIs
<1> HIDE DEF w, n, c, now, p, Same
<1>7. w = [ok |-> Same, null |-> s.null, cursor |-> c - n, undoable |-> s.undoable,
           sensitive |-> now]
  <2>1. ASSUME NEW b \in BOOLEAN, NEW x \in Int
        PROVE  [s EXCEPT !.cursor = x, !.ok = b] = State(b, s.null, x, s.undoable, s.sensitive)
    BY TextChanges
  <2>2. c - n \in Int
    BY <1>1
  <2>3. w = State(Same, s.null, c - n, s.undoable, s.sensitive)
    BY <1>2, <1>3, <2>1, <2>2, Zenon
  <2> QED
    BY <2>3 DEF State, now
<1>8. w \in WalkStates
  BY <1>1, <1>3, <1>4, <1>7 DEF WalkStates
<1>9. ASSUME Begun(s) PROVE Goes(w, s, p, chars, free)
  <2>1. w.ok = Same /\ w.null = s.null /\ w.cursor = c - n /\ w.undoable = s.undoable
        /\ w.sensitive = now
    BY <1>7
  <2>2. Same => c - n >= 0
    BY <1>1 DEF Same
  <2> QED
    BY <1>5, <1>6, <1>9, <2>1, <2>2 DEF Begun, Goes, c, now
<1> QED
  BY <1>8, <1>9 DEF w, p, now

\* back is where the walk is when it has been through the last k tags.
BackRule(back, walk, tags, s) ==
    /\ back \in [0 .. Len(tags) -> WalkStates] /\ back[0] = s
    /\ \A k \in 1 .. Len(tags) :
         back[k] = IF back[k - 1].ok THEN walk[tags[Len(tags) - k + 1]][back[k - 1]]
                   ELSE back[k - 1]

(* The tags are walked from the last to the first, until one does not match.   *)
LEMMA TagsWalkRuns ==
    ASSUME NEW S, NEW tags \in Seq(S), NEW walk, NEW s \in WalkStates,
           \A i \in 1 .. Len(tags) : \A z \in WalkStates : walk[tags[i]][z] \in WalkStates
    PROVE  \E back : BackRule(back, walk, tags, s) /\ TagsWalk(walk, tags, s) = back[Len(tags)]
<1> DEFINE N == Len(tags)  V == WalkStates
           Then(k, v) == IF v.ok THEN walk[tags[N - k + 1]][v] ELSE v
           step == [p \in (1 .. N) \X V |-> Then(p[1], p[2])]
           Rule(f) == f = [k \in 0 .. N |-> IF k = 0 THEN s ELSE Then(k, f[k - 1])]
           back == CHOOSE f : Rule(f)
<1>1. N \in Nat
  BY LenProperties
<1>2. TagsWalk(walk, tags, s) = back[N]
  BY Zenon DEF TagsWalk
<1>3. ASSUME NEW k \in 1 .. N, NEW v \in V PROVE Then(k, v) \in V
  <2>1. N - k + 1 \in 1 .. N
    BY <1>1
  <2> QED
    BY <2>1
<1> HIDE DEF Then, V
<1>4. Step(step, N, V)
  <2>1. ASSUME NEW p \in (1 .. N) \X V PROVE Then(p[1], p[2]) \in V
    <3>1. p[1] \in 1 .. N /\ p[2] \in V
      OBVIOUS
    <3> QED
      BY <1>3, <3>1
  <2> QED
    BY <2>1 DEF Step
<1>5. \A k \in 1 .. N : \A v \in V : step[<<k, v>>] = Then(k, v)
  <2>1. ASSUME NEW k \in 1 .. N, NEW v \in V PROVE step[<<k, v>>] = Then(k, v)
    <3>1. <<k, v>> \in (1 .. N) \X V
      OBVIOUS
    <3> QED
      BY <3>1
  <2> QED
    BY <2>1
<1> HIDE DEF step, N
<1>6. PICK g : Computed(g, s, step, N, V)
  <2>1. s \in V
    BY DEF V
  <2> QED
    BY <1>1, <1>4, <2>1, LoopComputes
<1>7. g \in [0 .. N -> V] /\ g[0] = s /\ \A k \in 1 .. N : g[k] = Then(k, g[k - 1])
  <2>1. g \in [0 .. N -> V] /\ g[0] = s /\ \A k \in 1 .. N : g[k] = step[<<k, g[k - 1]>>]
    BY <1>6 DEF Computed
  <2>2. ASSUME NEW k \in 1 .. N PROVE g[k] = Then(k, g[k - 1])
    <3>1. g[k - 1] \in V
      BY <1>1, <2>1
    <3> QED
      BY <1>5, <2>1, <3>1
  <2> QED
    BY <2>1, <2>2
<1>8. Rule(g)
  <2>1. \A k \in 0 .. N : g[k] = IF k = 0 THEN s ELSE Then(k, g[k - 1])
    BY <1>1, <1>7
  <2>2. g = [k \in 0 .. N |-> g[k]]
    BY <1>7
  <2> QED
    BY <2>1, <2>2
<1>9. Rule(back)
  <2> HIDE DEF Rule
  <2> QED
    BY <1>8
<1> HIDE DEF back
<1>10. back[0] = s /\ \A k \in 1 .. N : back[k] = Then(k, back[k - 1])
  <2>1. \A k \in 0 .. N : back[k] = IF k = 0 THEN s ELSE Then(k, back[k - 1])
    BY <1>9
  <2> QED
    BY <1>1, <2>1
<1>11. \A k \in 0 .. N : back[k] = g[k]
  <2> DEFINE U == {k \in 0 .. N : back[k] = g[k]}
  <2>1. 0 \in U
    BY <1>1, <1>7, <1>10
  <2>2. ASSUME NEW k \in 0 .. N - 1, k \in U PROVE k + 1 \in U
    <3>1. k + 1 \in 1 .. N /\ k + 1 \in 0 .. N /\ (k + 1) - 1 = k
      BY <1>1
    <3>2. back[k + 1] = Then(k + 1, back[k]) /\ g[k + 1] = Then(k + 1, g[k])
      BY <1>7, <1>10, <3>1
    <3> QED
      BY <2>2, <3>1, <3>2
  <2> HIDE DEF U
  <2>3. \A k \in 0 .. N - 1 : k \in U => k + 1 \in U
    BY <2>2
  <2>4. \A k \in 0 .. N : k \in U
    BY ONLY <1>1, <2>1, <2>3, UpTo
  <2> QED
    BY <2>4 DEF U
<1>12. TagsWalk(walk, tags, s) = g[N]
  BY <1>1, <1>2, <1>11
<1>13. BackRule(g, walk, tags, s)
  BY <1>7, Zenon DEF BackRule, Then, N, V
<1> QED
  BY <1>12, <1>13 DEF N

(* Tags that each find their pattern find them together: the one after the     *)
(* other, from the right.                                                      *)
LEMMA TagsWalkIs ==
    ASSUME NEW S, NEW tags \in Seq(S), NEW walk, NEW s \in WalkStates, NEW chars, NEW F,
           NEW parts \in Seq(Patterns), Len(parts) = Len(tags), Begun(s),
           \A i \in 1 .. Len(tags) : \A z \in WalkStates : walk[tags[i]][z] \in WalkStates,
           \A i \in 1 .. Len(tags) : \A z \in WalkStates :
             Begun(z) /\ z.sensitive = s.sensitive =>
               Goes(walk[tags[i]][z], z, parts[i], chars, i \in F)
    PROVE  Goes(TagsWalk(walk, tags, s), s, FlattenSeq(parts), chars, 1 .. Len(tags) \subseteq F)
<1> DEFINE N == Len(tags)
<1>1. N \in Nat
  BY LenProperties
<1>2. PICK back : BackRule(back, walk, tags, s) /\ TagsWalk(walk, tags, s) = back[N]
  <2>1. /\ tags \in Seq(S) /\ s \in WalkStates
        /\ \A i \in 1 .. Len(tags) : \A z \in WalkStates : walk[tags[i]][z] \in WalkStates
    OBVIOUS
  <2> QED
    BY ONLY <2>1, TagsWalkRuns
<1>3. PICK flat : FlatRule(flat, parts, SUBSET Marks) /\ FlattenSeq(parts) = flat[N]
  BY FlattenIs DEF Patterns
<1> HIDE DEF N
<1>4. /\ back \in [0 .. N -> WalkStates] /\ back[0] = s
       /\ \A k \in 1 .. N :
            back[k] = IF back[k - 1].ok THEN walk[tags[N - k + 1]][back[k - 1]] ELSE back[k - 1]
  BY <1>2, Zenon DEF BackRule, N
<1>5. /\ flat \in [0 .. N -> Patterns] /\ flat[0] = <<>>
      /\ \A i \in 1 .. N : flat[i] = flat[i - 1] \o parts[i]
  BY <1>3 DEF FlatRule, N, Patterns
<1>6. /\ \A i \in 0 .. N : flat[i] \in Patterns /\ Len(flat[i]) \in Nat
      /\ \A i \in 1 .. N : parts[i] \in Patterns /\ Len(parts[i]) \in Nat
  <2>1. \A p \in Patterns : Len(p) \in Nat
    BY LenProperties DEF Patterns
  <2>2. \A i \in 1 .. N : parts[i] \in Patterns
    BY ElementOfSeq DEF N
  <2> QED
    BY <1>5, <2>1, <2>2
<1> DEFINE All == Fits(flat[N], chars, s.cursor)
           Rest(i) == i + 1 .. N \subseteq F
           Here(B, i) ==
             /\ B.ok => /\ ~B.null /\ B.cursor >= 0 /\ B.sensitive = s.sensitive
                        /\ B.cursor = s.cursor - Len(flat[N]) + Len(flat[i])
                        /\ (Fits(flat[i], chars, B.cursor) <=> All)
                        /\ (B.undoable <=> s.undoable /\ Rest(i))
             /\ ~B.ok /\ ~B.null => ~All
           U == {k \in 0 .. N : Here(back[k], N - k)}
<1>7. 0 \in U
  <2>1. N - 0 = N /\ Rest(N) /\ s.cursor \in Int
    BY <1>1 DEF WalkStates
  <2>2. s.cursor = s.cursor - Len(flat[N]) + Len(flat[N])
    BY <1>1, <1>6, <2>1
  <2>3. Here(s, N)
    BY <2>1, <2>2 DEF Begun
  <2> HIDE DEF Here
  <2> QED
    BY <1>1, <1>4, <2>1, <2>3
<1>8. ASSUME NEW k \in 0 .. N - 1, k \in U PROVE k + 1 \in U
  <2> DEFINE B == back[k]  w == back[k + 1]  i == N - k  p == parts[i]
  <2>1. /\ k + 1 \in 1 .. N /\ (k + 1) - 1 = k /\ N - (k + 1) + 1 = N - k
        /\ N - k \in 1 .. N /\ N - (k + 1) = (N - k) - 1 /\ (N - k) - 1 \in 0 .. N
        /\ k \in 0 .. N /\ k + 1 \in 0 .. N
    BY <1>1
  <2>2. w = IF B.ok THEN walk[tags[i]][B] ELSE B
    BY <1>4, <2>1
  <2>3. Here(B, i)
    BY <1>8
  <2>4. /\ B \in WalkStates /\ i \in 1 .. N /\ i - 1 \in 0 .. N /\ p \in Patterns
        /\ flat[i - 1] \in Patterns /\ flat[i] = flat[i - 1] \o p
    BY <1>4, <1>5, <1>6, <2>1
  <2>5. N - (k + 1) = i - 1
    BY <2>1
  <2> HIDE DEF B, w, i, p
  <2>6. Here(w, i - 1)
    <3>1. CASE ~B.ok
      <4>1. w = B
        BY <2>2, <3>1
      <4> QED
        BY <2>3, <3>1, <4>1
    <3>2. CASE B.ok
      <4>1. w = walk[tags[i]][B]
        BY <2>2, <3>2
      <4>2. Begun(B) /\ B.sensitive = s.sensitive /\ B.cursor \in Int
        BY <2>3, <2>4, <3>2 DEF Begun, WalkStates
      <4>3. Goes(w, B, p, chars, i \in F)
        BY <2>4, <4>1, <4>2 DEF N, p
      <4>4. Fits(flat[i], chars, B.cursor)
              <=> Fits(p, chars, B.cursor) /\ Fits(flat[i - 1], chars, B.cursor - Len(p))
        BY <2>4, <4>2, FitsTogether
      <4>5. Len(flat[i]) = Len(flat[i - 1]) + Len(p)
        BY <2>4, ConcatProperties DEF Patterns
      <4>6. Rest(i - 1) <=> i \in F /\ Rest(i)
        <5>1. (i - 1) + 1 .. N = {i} \cup (i + 1 .. N)
          BY <1>1, <2>4
        <5> QED
          BY <5>1
      <4> HIDE DEF All, Rest
      <4>7. ASSUME w.ok
            PROVE  /\ ~w.null /\ w.cursor >= 0 /\ w.sensitive = s.sensitive
                   /\ (Fits(flat[i - 1], chars, w.cursor) <=> All)
                   /\ (w.undoable <=> s.undoable /\ Rest(i - 1))
        <5>1. ~w.null /\ w.cursor = B.cursor - Len(p) /\ w.cursor >= 0
              /\ w.sensitive = B.sensitive /\ (w.undoable <=> B.undoable /\ i \in F)
              /\ Fits(p, chars, B.cursor)
          BY <4>3, <4>7 DEF Goes
        <5>2. (Fits(flat[i], chars, B.cursor) <=> All) /\ (B.undoable <=> s.undoable /\ Rest(i))
          BY <2>3, <3>2
        <5> QED
          BY <4>2, <4>4, <4>6, <5>1, <5>2
      <4>8. ASSUME w.ok PROVE w.cursor = s.cursor - Len(flat[N]) + Len(flat[i - 1])
        <5>1. w.cursor = B.cursor - Len(p)
          BY <4>3, <4>8 DEF Goes
        <5>2. B.cursor = s.cursor - Len(flat[N]) + Len(flat[i])
          BY <2>3, <3>2
        <5> DEFINE a == s.cursor  b == Len(flat[N])  c == Len(flat[i - 1])  d == Len(p)
        <5>3. a \in Int /\ b \in Nat /\ c \in Nat /\ d \in Nat
          BY <1>1, <1>6, <2>4 DEF WalkStates, p
        <5>4. B.cursor = a - b + (c + d) /\ w.cursor = B.cursor - d
          BY <4>5, <5>1, <5>2, Zenon
        <5> HIDE DEF a, b, c, d
        <5>5. w.cursor = a - b + c
          BY <5>3, <5>4
        <5> QED
          BY <5>5 DEF a, b, c
      <4>9. ASSUME ~w.ok, ~w.null PROVE ~All
        <5>1. ~Fits(p, chars, B.cursor)
          BY <4>3, <4>9 DEF Goes
        <5>2. Fits(flat[i], chars, B.cursor) <=> All
          BY <2>3, <3>2
        <5> QED
          BY <4>4, <5>1, <5>2
      <4> QED
        BY <4>7, <4>8, <4>9
    <3> QED
      BY <3>1, <3>2
  <2> HIDE DEF Here
  <2> QED
    BY <2>1, <2>5, <2>6 DEF w
<1>9. N \in U
  <2> HIDE DEF U
  <2>1. \A k \in 0 .. N - 1 : k \in U => k + 1 \in U
    BY <1>8
  <2>2. \A k \in 0 .. N : k \in U
    BY ONLY <1>1, <1>7, <2>1, UpTo
  <2> QED
    BY <1>1, <2>2
<1> DEFINE w == back[N]
<1>10. Here(w, 0)
  <2>1. N - N = 0
    BY <1>1
  <2> HIDE DEF Here
  <2> QED
    BY <1>9, <2>1
<1>11. w \in WalkStates
  BY <1>1, <1>4
<1> HIDE DEF w
<1>12. Len(flat[0]) = 0 /\ (w.cursor >= 0 => Fits(flat[0], chars, w.cursor))
  <2>1. Len(flat[0]) = 0
    BY <1>5
  <2> QED
    BY <2>1, <1>11 DEF Fits, WalkStates
<1>13. Rest(0) <=> 1 .. N \subseteq F
  BY <1>1
<1>14. s.cursor - Len(flat[N]) + Len(flat[0]) = s.cursor - Len(flat[N])
  BY <1>1, <1>6, <1>12 DEF WalkStates
<1> HIDE DEF All, Rest
<1>15. /\ w.ok => /\ ~w.null /\ w.cursor >= 0 /\ w.sensitive = s.sensitive /\ All
                  /\ w.cursor = s.cursor - Len(flat[N])
                  /\ (w.undoable <=> s.undoable /\ 1 .. N \subseteq F)
       /\ ~w.ok /\ ~w.null => ~All
  BY <1>10, <1>12, <1>13, <1>14
<1>16. Goes(w, s, flat[N], chars, 1 .. N \subseteq F)
  BY <1>15 DEF Goes, All
<1> QED
  BY <1>2, <1>3, <1>16 DEF w, N

-----------------------------------------------------------------------------
(* The names on the side of a match                                            *)

KeyName(name) == name \in {<<"enter">>, <<"tab">>}
CaseName(name) == name = <<"tcase">>

\* No key is in them.
Free(tags) == \A tag \in tags : ~KeyName(tag.name)

\* What Valid asks of one tag
Sound(tag) ==
    IF tag.name \in Roots THEN tag.name = <<"text">> => tag.tags = <<>>
    ELSE Kind(tag.name, "match") # "none" /\ FlagsKept(tag, "match")

LEMMA NamesOfMatch ==
    ASSUME NEW name
    PROVE  /\ KeyName(name) => /\ Kind(name, "match") = "key"
                               /\ ~CaseName(name) /\ ~MatchRoot(name) /\ name \notin Roots
           /\ CaseName(name) => /\ Kind(name, "match") = "case"
                                /\ ~KeyName(name) /\ ~MatchRoot(name) /\ name \notin Roots
           /\ ~KeyName(name) /\ ~CaseName(name) => Kind(name, "match") = "none"
           /\ MatchRoot(name) => ~KeyName(name) /\ ~CaseName(name)
  BY DEF KeyName, CaseName, Kind, MatchRoot, Roots

(* A tag that is a key, or changes the case, has no tags in it.                *)
LEMMA SoundIs ==
    ASSUME NEW tag, Sound(tag)
    PROVE  /\ KeyName(tag.name) => tag.tags = <<>> /\ tag.text = NoText
           /\ CaseName(tag.name) => tag.tags = <<>> /\ tag.text # NoText
<1>1. ASSUME KeyName(tag.name) PROVE tag.tags = <<>> /\ tag.text = NoText
  <2>1. Kind(tag.name, "match") = "key" /\ tag.name \notin Roots
    BY <1>1, NamesOfMatch
  <2>2. FlagsKept(tag, "match")
    BY <2>1 DEF Sound
  <2> QED
    BY <2>1, <2>2 DEF FlagsKept
<1>2. ASSUME CaseName(tag.name) PROVE tag.tags = <<>> /\ tag.text # NoText
  <2>1. Kind(tag.name, "match") = "case" /\ tag.name \notin Roots
    BY <1>2, NamesOfMatch
  <2>2. FlagsKept(tag, "match")
    BY <2>1 DEF Sound
  <2> QED
    BY <2>1, <2>2 DEF FlagsKept
<1> QED
  BY <1>1, <1>2

LEMMA EnteredIs ==
    ASSUME NEW name, NEW chars, NEW s \in WalkStates
    PROVE  LET e == Entered(name, chars, s)
           IN /\ e \in WalkStates
              /\ KeyName(name) =>
                   /\ e.ok <=> s.cursor > 0 /\ chars[s.cursor] = KeyChar(name)
                   /\ e.null = s.null /\ e.cursor = s.cursor - 1 /\ ~e.undoable
                   /\ e.sensitive = s.sensitive
              /\ CaseName(name) =>
                   /\ e.ok = s.ok /\ e.null = s.null /\ e.cursor = s.cursor
                   /\ e.undoable = s.undoable /\ e.sensitive = ~s.sensitive
              /\ ~KeyName(name) /\ ~CaseName(name) => ~e.ok /\ e.null
<1> DEFINE e == Entered(name, chars, s)
           Struck == s.cursor > 0 /\ chars[s.cursor] = KeyChar(name)
           on == TRUE  off == FALSE
<1>1. /\ s.ok \in BOOLEAN /\ s.null \in BOOLEAN /\ s.cursor \in Int
      /\ s.undoable \in BOOLEAN /\ s.sensitive \in BOOLEAN
  BY DEF WalkStates
<1>2. Struck \in BOOLEAN /\ on \in BOOLEAN /\ off \in BOOLEAN
  OBVIOUS
<1>3. CASE KeyName(name)
  <2>1. Kind(name, "match") = "key"
    BY <1>3, NamesOfMatch
  <2>2. e = [s EXCEPT !.undoable = off, !.cursor = s.cursor - 1, !.ok = Struck]
    BY <2>1, Zenon DEF Entered
  <2> HIDE DEF e, Struck, on, off
  <2>3. ASSUME NEW b \in BOOLEAN, NEW x \in Int, NEW d \in BOOLEAN
        PROVE  [s EXCEPT !.undoable = d, !.cursor = x, !.ok = b]
                 = State(b, s.null, x, d, s.sensitive)
    BY KeyChanges
  <2>4. s.cursor - 1 \in Int
    BY <1>1
  <2>5. e = State(Struck, s.null, s.cursor - 1, off, s.sensitive)
    BY <1>2, <2>2, <2>3, <2>4, Zenon
  <2>6. /\ e \in WalkStates /\ e.ok = Struck /\ e.null = s.null /\ e.cursor = s.cursor - 1
        /\ e.undoable = off /\ e.sensitive = s.sensitive
    BY <1>1, <1>2, <2>4, <2>5 DEF State, WalkStates
  <2>7. ~CaseName(name)
    BY <1>3, NamesOfMatch
  <2> QED
    BY <1>3, <2>6, <2>7 DEF e, off, Struck
<1>4. CASE CaseName(name)
  <2>1. Kind(name, "match") = "case" /\ ~KeyName(name)
    BY <1>4, NamesOfMatch
  <2>2. e = [s EXCEPT !.sensitive = ~@]
    BY <2>1 DEF Entered
  <2> HIDE DEF e
  <2>3. e = State(s.ok, s.null, s.cursor, s.undoable, ~s.sensitive)
    BY <2>2, CaseChanges
  <2> QED
    BY <1>1, <1>4, <2>1, <2>3 DEF State, WalkStates, e
<1>5. CASE ~KeyName(name) /\ ~CaseName(name)
  <2>1. Kind(name, "match") = "none"
    BY <1>5, NamesOfMatch
  <2>2. e = [s EXCEPT !.ok = off, !.null = on]
    BY <2>1 DEF Entered
  <2> HIDE DEF e, on, off
  <2>3. e = State(off, on, s.cursor, s.undoable, s.sensitive)
    BY <2>2, NullChanges
  <2>4. e \in WalkStates /\ e.ok = off /\ e.null = on
    BY <1>1, <1>2, <2>3 DEF State, WalkStates
  <2> QED
    BY <1>5, <2>4 DEF e, on, off
<1> QED
  BY <1>3, <1>4, <1>5

LEMMA ExitedIs ==
    ASSUME NEW name, NEW w \in WalkStates
    PROVE  LET x == Exited(name, w)
           IN /\ x \in WalkStates
              /\ ~CaseName(name) => x = w
              /\ CaseName(name) =>
                   /\ x.ok = w.ok /\ x.null = w.null /\ x.cursor = w.cursor
                   /\ x.undoable = w.undoable /\ x.sensitive = ~w.sensitive
<1> DEFINE x == Exited(name, w)
<1>1. CASE CaseName(name)
  <2>1. Kind(name, "match") = "case"
    BY <1>1, NamesOfMatch
  <2>2. x = [w EXCEPT !.sensitive = ~@]
    BY <2>1 DEF Exited
  <2> HIDE DEF x
  <2>3. x = State(w.ok, w.null, w.cursor, w.undoable, ~w.sensitive)
    BY <2>2, CaseChanges
  <2>4. /\ w.ok \in BOOLEAN /\ w.null \in BOOLEAN /\ w.cursor \in Int
        /\ w.undoable \in BOOLEAN /\ w.sensitive \in BOOLEAN
    BY DEF WalkStates
  <2> QED
    BY <1>1, <2>3, <2>4 DEF State, WalkStates, x
<1>2. CASE ~CaseName(name)
  <2>1. Kind(name, "match") # "case"
    BY <1>2, NamesOfMatch
  <2>2. x = w
    BY <2>1 DEF Exited
  <2> QED
    BY <1>2, <2>2
<1> QED
  BY <1>1, <1>2

-----------------------------------------------------------------------------
(* What a tag stands for, and its walk                                         *)

\* The case that what is in the tag stands in
Inside(tag, now) == IF CaseName(tag.name) THEN ~now ELSE now

\* What the tags in a tag stand for
PartsOf(pattern, tag, now) ==
    [i \in 1 .. Len(tag.tags) |-> pattern[tag.tags[i]][Inside(tag, now)]]

LEMMA PatternByIs ==
    ASSUME NEW n \in 1 .. Nesting, NEW tag \in Trees[n], NEW pattern, NEW now \in BOOLEAN,
           \A i \in 1 .. Len(tag.tags) : \A in \in BOOLEAN : pattern[tag.tags[i]][in] \in Patterns
    PROVE  LET p == PatternBy(pattern, tag, now)
           IN /\ p \in Patterns
              /\ KeyName(tag.name) => p = <<{KeyChar(tag.name)}>>
              /\ ~KeyName(tag.name) /\ tag.text # NoText =>
                   p = TextPattern(The(tag.text), Inside(tag, now))
              /\ ~KeyName(tag.name) /\ tag.text = NoText =>
                   /\ p = FlattenSeq(PartsOf(pattern, tag, now))
                   /\ PartsOf(pattern, tag, now) \in Seq(Patterns)
                   /\ Len(PartsOf(pattern, tag, now)) = Len(tag.tags)
<1> DEFINE p == PatternBy(pattern, tag, now)  parts == PartsOf(pattern, tag, now)
           in == Inside(tag, now)
<1>1. /\ tag.name \in Texts /\ Len(tag.tags) \in Nat
      /\ tag.text # NoText => The(tag.text) \in Texts
  BY PartsOfTag
<1>2. in \in BOOLEAN
  BY DEF Inside
<1>3. (Kind(tag.name, "match") = "key") <=> KeyName(tag.name)
  BY NamesOfMatch
<1>4. p = IF Kind(tag.name, "match") = "key" THEN <<{KeyChar(tag.name)}>>
          ELSE IF tag.text # NoText THEN TextPattern(The(tag.text), in)
          ELSE FlattenSeq(parts)
  BY Zenon DEF PatternBy, TextPattern, PartsOf, Inside, CaseName
<1>5. parts \in Seq(Patterns) /\ Len(parts) = Len(tag.tags)
  <2>1. parts = [i \in 1 .. Len(tag.tags) |-> pattern[tag.tags[i]][in]]
    BY DEF PartsOf
  <2> HIDE DEF parts, in
  <2>2. parts \in [1 .. Len(tag.tags) -> Patterns]
    BY <1>2, <2>1
  <2> QED
    BY <1>1, <2>2, FunctionIsSeq
<1> HIDE DEF p, parts, in
<1>6. <<{KeyChar(tag.name)}>> \in Patterns
  <2>1. {KeyChar(tag.name)} \in SUBSET Marks
    BY <1>1 DEF Marks
  <2> DEFINE x == {KeyChar(tag.name)}  M == SUBSET Marks
  <2>2. x \in M
    BY <2>1
  <2> HIDE DEF x, M
  <2>3. <<x>> \in Seq(M)
    BY <2>2
  <2> QED
    BY <2>3 DEF x, M, Patterns
<1>7. tag.text # NoText => TextPattern(The(tag.text), in) \in Patterns
  BY <1>1, <1>2, TextPatternIs
<1>8. FlattenSeq(parts) \in Patterns
  <2>1. PICK flat : /\ FlatRule(flat, parts, SUBSET Marks)
                    /\ FlattenSeq(parts) = flat[Len(parts)]
    BY <1>5, FlattenIs DEF Patterns
  <2>2. Len(parts) \in 0 .. Len(parts)
    BY <1>1, <1>5
  <2> QED
    BY <2>1, <2>2 DEF FlatRule, Patterns
<1>9. p \in Patterns
  BY <1>4, <1>6, <1>7, <1>8
<1> QED
  BY <1>3, <1>4, <1>5, <1>9 DEF p, parts, in

\* Where the walk of a tag is before what the tag has to do at its end
InnerWalk(walk, tag, chars, e) ==
    IF tag.text # NoText THEN TextWalk(The(tag.text), chars, e)
    ELSE TagsWalk(walk, tag.tags, e)

LEMMA WalkByTyped ==
    ASSUME NEW n \in 1 .. Nesting, NEW tag \in Trees[n], NEW chars, NEW walk,
           \A i \in 1 .. Len(tag.tags) : \A z \in WalkStates : walk[tag.tags[i]][z] \in WalkStates
    PROVE  \A s \in WalkStates : /\ InnerWalk(walk, tag, chars, s) \in WalkStates
                                 /\ WalkBy(walk, tag, chars, s) \in WalkStates
<1>1. /\ tag.tags \in Seq(Trees[n - 1]) /\ Len(tag.tags) \in Nat
      /\ tag.text # NoText => The(tag.text) \in Texts
  BY PartsOfTag
<1>2. ASSUME NEW s \in WalkStates PROVE InnerWalk(walk, tag, chars, s) \in WalkStates
  <2>1. CASE tag.text # NoText
    <3>1. ASSUME NEW free, free PROVE TextWalk(The(tag.text), chars, s) \in WalkStates
      BY <1>1, <2>1, <3>1, TextWalkIs
    <3> QED
      BY <2>1, <3>1 DEF InnerWalk
  <2>2. CASE tag.text = NoText
    <3>1. PICK back : /\ BackRule(back, walk, tag.tags, s)
                      /\ TagsWalk(walk, tag.tags, s) = back[Len(tag.tags)]
      BY <1>1, TagsWalkRuns
    <3>2. Len(tag.tags) \in 0 .. Len(tag.tags)
      BY <1>1
    <3>3. TagsWalk(walk, tag.tags, s) \in WalkStates
      BY <3>1, <3>2 DEF BackRule
    <3> QED
      BY <2>2, <3>3 DEF InnerWalk
  <2> QED
    BY <2>1, <2>2
<1>3. ASSUME NEW s \in WalkStates PROVE WalkBy(walk, tag, chars, s) \in WalkStates
  <2> DEFINE root == MatchRoot(tag.name)
             e == IF root THEN s ELSE Entered(tag.name, chars, s)
             inner == InnerWalk(walk, tag, chars, e)
  <2>1. WalkBy(walk, tag, chars, s)
          = IF ~e.ok THEN e ELSE IF root \/ ~inner.ok THEN inner ELSE Exited(tag.name, inner)
    BY Zenon DEF WalkBy, InnerWalk
  <2>2. e \in WalkStates
    BY EnteredIs
  <2> HIDE DEF root, e
  <2>3. inner \in WalkStates
    BY <1>2, <2>2
  <2> HIDE DEF inner
  <2>4. Exited(tag.name, inner) \in WalkStates
    BY <2>3, ExitedIs
  <2> QED
    BY <2>1, <2>2, <2>3, <2>4
<1> QED
  BY <1>2, <1>3

(* When the tags in a sound tag find their patterns, it finds its own.         *)
LEMMA WalkByIs ==
    ASSUME NEW n \in 1 .. Nesting, NEW tag \in Trees[n], NEW chars, NEW walk, NEW pattern, NEW F,
           NEW s \in WalkStates, Begun(s), Sound(tag),
           \A i \in 1 .. Len(tag.tags) : \A in \in BOOLEAN : pattern[tag.tags[i]][in] \in Patterns,
           \A i \in 1 .. Len(tag.tags) : \A z \in WalkStates : walk[tag.tags[i]][z] \in WalkStates,
           \A i \in 1 .. Len(tag.tags) : \A z \in WalkStates :
             Begun(z) =>
               Goes(walk[tag.tags[i]][z], z, pattern[tag.tags[i]][z.sensitive], chars, i \in F)
    PROVE  Goes(WalkBy(walk, tag, chars, s), s, PatternBy(pattern, tag, s.sensitive), chars,
                ~KeyName(tag.name) /\ 1 .. Len(tag.tags) \subseteq F)
<1> DEFINE root == MatchRoot(tag.name)
           e == IF root THEN s ELSE Entered(tag.name, chars, s)
           inner == InnerWalk(walk, tag, chars, e)
           w == WalkBy(walk, tag, chars, s)
           p == PatternBy(pattern, tag, s.sensitive)
           free == ~KeyName(tag.name) /\ 1 .. Len(tag.tags) \subseteq F
<1>1. /\ tag.tags \in Seq(Trees[n - 1]) /\ Len(tag.tags) \in Nat
      /\ tag.text # NoText => The(tag.text) \in Texts /\ tag.tags = <<>>
  BY PartsOfTag
<1>2. w = IF ~e.ok THEN e ELSE IF root \/ ~inner.ok THEN inner ELSE Exited(tag.name, inner)
  BY Zenon DEF WalkBy, InnerWalk
<1>3. e \in WalkStates
  BY EnteredIs
<1>4. \A z \in WalkStates : InnerWalk(walk, tag, chars, z) \in WalkStates
  BY WalkByTyped
<1>5. /\ s.ok \in BOOLEAN /\ s.null \in BOOLEAN /\ s.cursor \in Int
      /\ s.undoable \in BOOLEAN /\ s.sensitive \in BOOLEAN
  BY DEF WalkStates
<1>6. /\ KeyName(tag.name) => p = <<{KeyChar(tag.name)}>>
      /\ ~KeyName(tag.name) /\ tag.text # NoText =>
           p = TextPattern(The(tag.text), Inside(tag, s.sensitive))
      /\ ~KeyName(tag.name) /\ tag.text = NoText =>
           /\ p = FlattenSeq(PartsOf(pattern, tag, s.sensitive))
           /\ PartsOf(pattern, tag, s.sensitive) \in Seq(Patterns)
           /\ Len(PartsOf(pattern, tag, s.sensitive)) = Len(tag.tags)
  BY <1>5, PatternByIs
<1>7. tag.text # NoText => 1 .. Len(tag.tags) \subseteq F
  BY <1>1
<1>8. CASE KeyName(tag.name)
  <2>1. tag.tags = <<>> /\ tag.text = NoText /\ ~CaseName(tag.name) /\ ~root
    BY <1>8, SoundIs, NamesOfMatch
  <2>2. e = Entered(tag.name, chars, s)
    BY <2>1
  <2>3. /\ e.ok <=> s.cursor > 0 /\ chars[s.cursor] = KeyChar(tag.name)
        /\ e.null = s.null /\ e.cursor = s.cursor - 1 /\ ~e.undoable
        /\ e.sensitive = s.sensitive
    BY <1>8, <2>2, EnteredIs
  <2> HIDE DEF e, root
  <2>4. inner = e
    <3>1. inner = TagsWalk(walk, tag.tags, e)
      BY <2>1 DEF InnerWalk
    <3>2. PICK back : /\ BackRule(back, walk, tag.tags, e)
                      /\ TagsWalk(walk, tag.tags, e) = back[Len(tag.tags)]
      BY <1>1, <1>3, TagsWalkRuns
    <3>3. Len(tag.tags) = 0
      BY <2>1
    <3>4. back[0] = e
      BY <3>2, Zenon DEF BackRule
    <3> QED
      BY <3>1, <3>2, <3>3, <3>4
  <2> HIDE DEF inner, w, p
  <2>5. w = e
    BY <1>2, <1>3, <2>1, <2>4, ExitedIs
  <2>6. Fits(p, chars, s.cursor) <=> s.cursor > 0 /\ chars[s.cursor] = KeyChar(tag.name)
    <3> DEFINE x == {KeyChar(tag.name)}
    <3>1. p = <<x>> /\ \A c : c \in x <=> c = KeyChar(tag.name)
      BY <1>6, <1>8
    <3> HIDE DEF x
    <3>2. Len(p) = 1 /\ p[1] = x /\ s.cursor - 1 + 1 = s.cursor
      BY <1>5, <3>1
    <3> QED
      BY <1>5, <3>1, <3>2 DEF Fits
  <2>7. Len(p) = 1
    BY <1>6, <1>8
  <2> QED
    BY <1>5, <1>8, <2>3, <2>5, <2>6, <2>7 DEF Begun, Goes, w, p
<1>9. CASE CaseName(tag.name)
  <2>1. tag.tags = <<>> /\ tag.text # NoText /\ ~KeyName(tag.name) /\ ~root
    BY <1>9, SoundIs, NamesOfMatch
  <2>2. e = Entered(tag.name, chars, s)
    BY <2>1
  <2>3. /\ e.ok = s.ok /\ e.null = s.null /\ e.cursor = s.cursor
        /\ e.undoable = s.undoable /\ e.sensitive = ~s.sensitive
    BY <1>9, <2>2, EnteredIs
  <2>4. Inside(tag, s.sensitive) = e.sensitive /\ Begun(e)
    BY <1>9, <2>3 DEF Inside, Begun
  <2> HIDE DEF e, root, free
  <2>5. Goes(inner, e, p, chars, free)
    <3>1. inner = TextWalk(The(tag.text), chars, e)
      BY <2>1 DEF InnerWalk
    <3>2. free
      BY <1>7, <2>1 DEF free
    <3>3. p = TextPattern(The(tag.text), e.sensitive)
      BY <1>6, <2>1, <2>4
    <3> HIDE DEF inner, p
    <3> QED
      BY <1>1, <1>3, <2>1, <2>4, <3>1, <3>2, <3>3, TextWalkIs
  <2>6. inner \in WalkStates
    BY <1>3, <1>4
  <2> HIDE DEF inner, w, p
  <2>7. CASE ~inner.ok
    <3>1. w = inner
      BY <1>2, <2>4, <2>7 DEF Begun
    <3> QED
      BY <2>3, <2>5, <2>7, <3>1 DEF Goes, w, p, free
  <2>8. CASE inner.ok
    <3>1. w = Exited(tag.name, inner)
      BY <1>2, <2>1, <2>4, <2>8 DEF Begun
    <3>2. /\ w.ok = inner.ok /\ w.null = inner.null /\ w.cursor = inner.cursor
          /\ w.undoable = inner.undoable /\ w.sensitive = ~inner.sensitive
      BY <1>9, <2>6, <3>1, ExitedIs
    <3>3. Goes(w, s, p, chars, free)
      BY <1>5, <2>3, <2>5, <2>8, <3>2 DEF Goes
    <3> QED
      BY <3>3 DEF w, p, free
  <2> QED
    BY <2>7, <2>8
<1>10. CASE root
  <2>1. ~KeyName(tag.name) /\ ~CaseName(tag.name)
    BY <1>10, NamesOfMatch
  <2>2. e = s /\ Inside(tag, s.sensitive) = s.sensitive
    BY <1>10, <2>1 DEF Inside
  <2>3. w = inner /\ inner = InnerWalk(walk, tag, chars, s)
    BY <1>2, <1>10, <2>2 DEF Begun
  <2> HIDE DEF e, root, w, inner
  <2>4. CASE tag.text # NoText
    <3>1. w = TextWalk(The(tag.text), chars, s)
      BY <2>3, <2>4 DEF InnerWalk
    <3>2. p = TextPattern(The(tag.text), s.sensitive)
      BY <1>6, <2>1, <2>2, <2>4
    <3>3. free
      BY <1>7, <2>1, <2>4
    <3> HIDE DEF p, free
    <3>4. Goes(w, s, p, chars, free)
      BY <1>1, <2>4, <3>1, <3>2, <3>3, TextWalkIs
    <3> QED
      BY <3>4 DEF w, p, free
  <2>5. CASE tag.text = NoText
    <3> DEFINE parts == PartsOf(pattern, tag, s.sensitive)
    <3>1. w = TagsWalk(walk, tag.tags, s)
      BY <2>3, <2>5 DEF InnerWalk
    <3>2. p = FlattenSeq(parts) /\ parts \in Seq(Patterns) /\ Len(parts) = Len(tag.tags)
      BY <1>6, <2>1, <2>5
    <3>3. \A i \in 1 .. Len(tag.tags) : parts[i] = pattern[tag.tags[i]][s.sensitive]
      BY <2>2 DEF PartsOf
    <3> HIDE DEF parts, p
    <3>4. \A i \in 1 .. Len(tag.tags) : \A z \in WalkStates :
            Begun(z) /\ z.sensitive = s.sensitive =>
              Goes(walk[tag.tags[i]][z], z, parts[i], chars, i \in F)
      BY <3>3
    <3>5. \A i \in 1 .. Len(tag.tags) : \A z \in WalkStates :
            walk[tag.tags[i]][z] \in WalkStates
      OBVIOUS
    <3>6. Begun(s)
      OBVIOUS
    <3>7. Goes(TagsWalk(walk, tag.tags, s), s, FlattenSeq(parts), chars,
               1 .. Len(tag.tags) \subseteq F)
      BY ONLY <1>1, <3>2, <3>4, <3>5, <3>6, s \in WalkStates, TagsWalkIs
    <3>8. (1 .. Len(tag.tags) \subseteq F) <=> free
      BY <2>1
    <3> HIDE DEF free
    <3>9. Goes(w, s, p, chars, free)
      BY <3>1, <3>2, <3>7, <3>8 DEF Goes
    <3> QED
      BY <3>9 DEF w, p, free
  <2> QED
    BY <2>4, <2>5
<1>11. CASE ~KeyName(tag.name) /\ ~CaseName(tag.name) /\ ~root
  <2>1. ~e.ok /\ e.null
    BY <1>11, EnteredIs
  <2> HIDE DEF e
  <2>2. w = e
    BY <1>2, <2>1
  <2> HIDE DEF w
  <2> QED
    BY <2>1, <2>2 DEF Goes, w
<1> QED
  BY <1>8, <1>9, <1>10, <1>11

(* A match that is valid goes to where its pattern fits, and is told from keys *)
(* that do not fit, unless it calls NULL.                                      *)
LEMMA TagWalkIs ==
    ASSUME NEW top \in Tree, NEW chars, NEW s \in WalkStates, Begun(s), s.sensitive,
           \A tag \in TagsIn(top) : Sound(tag)
    PROVE  Goes(TagWalk(top, chars, s), s, Pattern(top), chars, Free(TagsIn(top)))
<1>0. Nesting \in Nat
  BY TagsAssumption
<1>1. PICK pattern : PatternRule(pattern) /\ \A x : Pattern(x) = pattern[Nesting][x][TRUE]
  BY PatternGoes
<1>2. PICK walk : /\ WalkRule(walk, chars)
                  /\ \A x, z : TagWalk(x, chars, z) = walk[Nesting][x][z]
  BY WalkGoes
<1> DEFINE TypesOf(n, tag) ==
             /\ \A now \in BOOLEAN : pattern[n][tag][now] \in Patterns
             /\ \A z \in WalkStates : walk[n][tag][z] \in WalkStates
           Finds(n, tag) ==
             \A z \in WalkStates : Begun(z) =>
               Goes(walk[n][tag][z], z, pattern[n][tag][z.sensitive], chars, Free(Within[n][tag]))
           Good(n, tag) ==
             TypesOf(n, tag) /\ ((\A x \in Within[n][tag] : Sound(x)) => Finds(n, tag))
           S == {n \in 0 .. Nesting : \A tag \in Trees[n] : Good(n, tag)}
<1>3. 0 \in S
  <2> HIDE DEF Good
  <2> QED
    BY <1>0, TreesAre
<1>4. ASSUME NEW k \in 0 .. Nesting - 1, k \in S PROVE k + 1 \in S
  <2>1. k + 1 \in 1 .. Nesting /\ k + 1 \in 0 .. Nesting /\ (k + 1) - 1 = k
    BY <1>0
  <2> DEFINE n == k + 1
  <2>2. n \in 1 .. Nesting /\ n - 1 = k
    BY <2>1
  <2> HIDE DEF n
  <2>3. ASSUME NEW tag \in Trees[n] PROVE Good(n, tag)
    <3> DEFINE tags == tag.tags
               F == {i \in 1 .. Len(tags) : Free(Within[k][tags[i]])}
    <3>1. /\ Len(tags) \in Nat /\ \A i \in 1 .. Len(tags) : tags[i] \in Trees[k]
          /\ DOMAIN tags = 1 .. Len(tags)
      BY <2>2, PartsOfTag, LenProperties
    <3>2. \A i \in 1 .. Len(tags) : Good(k, tags[i])
      <4> HIDE DEF Good
      <4> QED
        BY <1>4, <3>1
    <3>3. \A now \in BOOLEAN : pattern[n][tag][now] = PatternBy(pattern[k], tag, now)
      BY <1>1, <2>2 DEF PatternRule
    <3>4. \A z \in WalkStates : walk[n][tag][z] = WalkBy(walk[k], tag, chars, z)
      BY <1>2, <2>2 DEF WalkRule
    <3>5. /\ \A i \in 1 .. Len(tags) : \A in \in BOOLEAN : pattern[k][tags[i]][in] \in Patterns
          /\ \A i \in 1 .. Len(tags) : \A z \in WalkStates : walk[k][tags[i]][z] \in WalkStates
      BY <3>2
    <3>6. TypesOf(n, tag)
      <4>1. ASSUME NEW now \in BOOLEAN PROVE pattern[n][tag][now] \in Patterns
        BY <2>2, <3>3, <3>5, PatternByIs
      <4>2. ASSUME NEW z \in WalkStates PROVE walk[n][tag][z] \in WalkStates
        <5>1. \A i \in 1 .. Len(tag.tags) : \A x \in WalkStates :
                walk[k][tag.tags[i]][x] \in WalkStates
          BY <3>5
        <5>2. WalkBy(walk[k], tag, chars, z) \in WalkStates
          <6> DEFINE f == walk[k]
          <6>1. \A i \in 1 .. Len(tag.tags) : \A x \in WalkStates : f[tag.tags[i]][x] \in WalkStates
            BY <5>1
          <6> HIDE DEF f
          <6>2. WalkBy(f, tag, chars, z) \in WalkStates
            BY ONLY <2>2, <6>1, tag \in Trees[n], z \in WalkStates, WalkByTyped
          <6> QED
            BY <6>2 DEF f
        <5> QED
          BY <3>4, <5>2
      <4> QED
        BY <4>1, <4>2
    <3>7. ASSUME \A x \in Within[n][tag] : Sound(x) PROVE Finds(n, tag)
      <4>1. Within[n][tag] = {tag} \cup UNION {Within[k][tags[i]] : i \in DOMAIN tags}
        BY <2>2, WithinIs
      <4>2. Sound(tag) /\ \A i \in 1 .. Len(tags) : \A x \in Within[k][tags[i]] : Sound(x)
        BY <3>1, <3>7, <4>1
      <4>3. \A i \in 1 .. Len(tags) : Finds(k, tags[i])
        BY <3>2, <4>2
      <4>4. Free(Within[n][tag]) <=> ~KeyName(tag.name) /\ 1 .. Len(tags) \subseteq F
        BY <3>1, <4>1 DEF Free
      <4>5. \A i \in 1 .. Len(tags) : \A z \in WalkStates : Begun(z) =>
              Goes(walk[k][tags[i]][z], z, pattern[k][tags[i]][z.sensitive], chars, i \in F)
        <5>1. ASSUME NEW i \in 1 .. Len(tags), NEW z \in WalkStates, Begun(z)
              PROVE  Goes(walk[k][tags[i]][z], z, pattern[k][tags[i]][z.sensitive], chars, i \in F)
          <6>1. Goes(walk[k][tags[i]][z], z, pattern[k][tags[i]][z.sensitive], chars,
                     Free(Within[k][tags[i]]))
            BY <4>3, <5>1
          <6>2. i \in F <=> Free(Within[k][tags[i]])
            OBVIOUS
          <6> HIDE DEF F
          <6> QED
            BY <6>1, <6>2 DEF Goes
        <5> QED
          BY <5>1
      <4> HIDE DEF F
      <4>6. ASSUME NEW z \in WalkStates, Begun(z)
            PROVE  Goes(walk[n][tag][z], z, pattern[n][tag][z.sensitive], chars,
                        Free(Within[n][tag]))
        <5>1. Goes(WalkBy(walk[k], tag, chars, z), z, PatternBy(pattern[k], tag, z.sensitive),
                   chars, ~KeyName(tag.name) /\ 1 .. Len(tags) \subseteq F)
          BY <2>2, <3>5, <4>2, <4>5, <4>6, WalkByIs
        <5>2. z.sensitive \in BOOLEAN
          BY DEF WalkStates
        <5>3. /\ walk[n][tag][z] = WalkBy(walk[k], tag, chars, z)
              /\ pattern[n][tag][z.sensitive] = PatternBy(pattern[k], tag, z.sensitive)
          BY <3>3, <3>4, <5>2
        <5> QED
          BY <4>4, <5>1, <5>3 DEF Goes
      <4> QED
        BY <4>6
    <3> HIDE DEF TypesOf, Finds
    <3> QED
      BY <3>6, <3>7
  <2> QED
    BY <2>1, <2>3 DEF n
<1>5. Nesting \in S
  <2> HIDE DEF S
  <2>1. \A k \in 0 .. Nesting - 1 : k \in S => k + 1 \in S
    BY <1>4
  <2>2. \A k \in 0 .. Nesting : k \in S
    BY ONLY <1>0, <1>3, <2>1, UpTo
  <2> QED
    BY <1>0, <2>2
<1>6. Good(Nesting, top)
  <2> HIDE DEF Good
  <2> QED
    BY <1>5 DEF Tree
<1>7. Goes(walk[Nesting][top][s], s, pattern[Nesting][top][s.sensitive], chars,
           Free(Within[Nesting][top]))
  BY <1>6 DEF TagsIn
<1>8. Pattern(top) = pattern[Nesting][top][s.sensitive]
  <2>1. s.sensitive = TRUE
    BY DEF WalkStates
  <2> QED
    BY <1>1, <2>1
<1>9. TagWalk(top, chars, s) = walk[Nesting][top][s]
  BY <1>2
<1> QED
  BY <1>7, <1>8, <1>9 DEF TagsIn

-----------------------------------------------------------------------------
(* The query by the last character                                             *)

(* Parts put together end as the last of them does.                            *)
LEMMA LastOfParts ==
    ASSUME NEW parts \in Seq(Patterns), Len(parts) # 0, parts[Len(parts)] # <<>>
    PROVE  /\ FlattenSeq(parts) # <<>>
           /\ Last(FlattenSeq(parts)) = Last(parts[Len(parts)])
<1> DEFINE N == Len(parts)
<1>1. N \in Nat /\ N \in 1 .. N
  BY LenProperties
<1>2. PICK flat : FlatRule(flat, parts, SUBSET Marks) /\ FlattenSeq(parts) = flat[N]
  BY FlattenIs DEF Patterns
<1> DEFINE u == flat[N - 1]  v == parts[N]
<1>3. u \in Seq(SUBSET Marks) /\ v \in Seq(SUBSET Marks) /\ flat[N] = u \o v /\ v # <<>>
  <2>1. v \in Patterns
    BY <1>1, ElementOfSeq
  <2>2. N - 1 \in 0 .. N
    BY <1>1
  <2> QED
    BY <1>1, <1>2, <2>1, <2>2 DEF FlatRule, Patterns
<1> HIDE DEF N, u, v
<1> DEFINE L == Len(u)  R == Len(v)
<1>4. L \in Nat /\ R \in Nat /\ R # 0
  BY <1>3, LenProperties, EmptySeq
<1>5. Len(u \o v) = L + R /\ (u \o v)[L + R] = v[R]
  <2>1. Len(u \o v) = L + R
    BY <1>3, ConcatProperties
  <2>2. \A i \in 1 .. L + R : (u \o v)[i] = IF i <= L THEN u[i] ELSE v[i - L]
    BY <1>3, ConcatProperties
  <2> HIDE DEF L, R
  <2>3. L + R \in 1 .. L + R /\ ~(L + R <= L) /\ (L + R) - L = R
    BY <1>4
  <2> QED
    BY <2>1, <2>2, <2>3
<1>6. Len(u \o v) # 0
  BY <1>4, <1>5
<1>7. u \o v # <<>>
  BY <1>6
<1> QED
  BY <1>2, <1>3, <1>5, <1>7 DEF Last, N, v

\* The characters hold all that the pattern may end in.
Covers(chars, pattern) == pattern # <<>> /\ Last(pattern) \subseteq chars

LEMMA TextCovers ==
    ASSUME NEW text \in Texts, text # <<>>, NEW now \in BOOLEAN
    PROVE  Covers(StartsOf(Last(text), now), TextPattern(text, now))
<1> DEFINE n == Len(text)  c == text[n]  p == TextPattern(text, now)
<1>1. n \in Nat /\ n # 0
  BY LenProperties, EmptySeq DEF Texts
<1>2. n \in 1 .. n
  BY <1>1
<1>3. Len(p) = n /\ p[n] = IF now THEN {c} ELSE BothCases(c)
  BY <1>2, TextPatternIs
<1> HIDE DEF p, n
<1>4. p # <<>> /\ Last(p) = IF now THEN {c} ELSE BothCases(c)
  BY <1>1, <1>3 DEF Last
<1>5. c \notin Letters => BothCases(c) = {c}
  BY CasesAre
<1>6. StartsOf(c, now) = IF now \/ c \notin Letters THEN {c} ELSE BothCases(c)
  BY Zenon DEF StartsOf
<1>7. Last(text) = c
  BY DEF Last, n
<1> HIDE DEF c
<1>8. Last(p) \subseteq StartsOf(c, now)
  BY <1>4, <1>5, <1>6
<1> QED
  BY <1>4, <1>7, <1>8 DEF Covers, p

(* What the query gets for a tag, when it gets something: the character of a   *)
(* key, that of a text, or that of the last tag in it.                         *)
LEMMA InitializersByIs ==
    ASSUME NEW inside, NEW tag, NEW now \in BOOLEAN, NEW init \in InitializersBy(inside, tag, now),
           init.fault = "none", tag.text \in SUBSET Texts, tag.text # {<<>>},
           tag.text # NoText => tag.text = {The(tag.text)}
    PROVE  \/ KeyName(tag.name) /\ init.chars = {KeyChar(tag.name)}
           \/ ~KeyName(tag.name) /\ tag.text = NoText /\ tag.tags # <<>>
                /\ init \in inside[Last(tag.tags)][Inside(tag, now)]
           \/ ~KeyName(tag.name) /\ tag.text # NoText /\ The(tag.text) # <<>>
                /\ init.chars = StartsOf(Last(The(tag.text)), Inside(tag, now))
<1> DEFINE kind == Kind(tag.name, "match")
           in == Inside(tag, now)
           text == The(tag.text)
<1>1. \A why, chars : /\ Initializer(why, chars).fault = why
                      /\ Initializer(why, chars).chars = chars
  BY DEF Initializer
<1>2. (IF kind = "case" THEN ~now ELSE now) = in
  BY NamesOfMatch DEF Inside
<1>3. CASE KeyName(tag.name)
  <2>1. kind = "key"
    BY <1>3, NamesOfMatch
  <2>2. init = Initializer("none", {KeyChar(tag.name)})
    BY <2>1 DEF InitializersBy
  <2> QED
    BY <1>1, <1>3, <2>2
<1>4. CASE ~KeyName(tag.name)
  <2>1. kind # "key"
    BY <1>4, NamesOfMatch
  <2> DEFINE Rest ==
        IF tag.text = NoText
        THEN IF tag.tags = <<>> THEN {Initializer("empty", {})} ELSE inside[Last(tag.tags)][in]
        ELSE IF text = <<>> THEN {Initializer(f, {}) : f \in {"none", "empty"}}
             ELSE {Initializer("none", StartsOf(Last(text), in))}
  <2>2. \/ init = Initializer("null_tag", {})
        \/ init \in Rest
    <3> HIDE DEF in, text
    <3>1. CASE kind = "none" /\ ~MatchRoot(tag.name)
      BY <3>1 DEF InitializersBy
    <3>2. CASE ~(kind = "none" /\ ~MatchRoot(tag.name))
      <4>1. InitializersBy(inside, tag, now) = Rest
        BY <1>2, <2>1, <3>2 DEF InitializersBy, text
      <4> QED
        BY <4>1
    <3> QED
      BY <3>1, <3>2
  <2>3. init \in Rest
    BY <1>1, <2>2
  <2>4. tag.text # NoText => text # <<>>
    OBVIOUS
  <2>5. init # Initializer("empty", {})
    BY <1>1
  <2>6. init = Initializer("none", StartsOf(Last(text), in)) =>
          init.chars = StartsOf(Last(text), in)
    BY <1>1
  <2> HIDE DEF in, text
  <2>7. \/ tag.text = NoText /\ tag.tags # <<>> /\ init \in inside[Last(tag.tags)][in]
        \/ tag.text # NoText /\ init = Initializer("none", StartsOf(Last(text), in))
    BY <2>3, <2>4, <2>5
  <2> QED
    BY <1>4, <2>4, <2>6, <2>7 DEF in, text
<1> QED
  BY <1>3, <1>4

(* The query loses no match: what it gets for a valid match, but for one that  *)
(* ends in nothing, holds every character its pattern may end in.              *)
LEMMA QueryIs ==
    ASSUME NEW top \in Tree, NEW init \in InitializersOf(top, TRUE), init.fault = "none",
           EndOfMatch(top).text # {<<>>}, \A tag \in TagsIn(top) : Sound(tag)
    PROVE  Pattern(top) \in Patterns /\ Covers(init.chars, Pattern(top))
<1>0. Nesting \in Nat
  BY TagsAssumption
<1>1. PICK pattern : PatternRule(pattern) /\ \A x : Pattern(x) = pattern[Nesting][x][TRUE]
  BY PatternGoes
<1>2. PICK of : /\ InitializersRule(of)
                /\ \A x, now : InitializersOf(x, now) = of[Nesting][x][now]
  BY InitializersGo
<1>3. PICK last : EndRule(last) /\ \A x : EndOfMatch(x) = last[Nesting][x]
  BY EndGoes
<1> DEFINE TypesOf(n, tag) == \A now \in BOOLEAN : pattern[n][tag][now] \in Patterns
           Found(n, tag) ==
             \A now \in BOOLEAN : \A x \in of[n][tag][now] :
               x.fault = "none" => Covers(x.chars, pattern[n][tag][now])
           Good(n, tag) ==
             /\ TypesOf(n, tag)
             /\ (\A x \in Within[n][tag] : Sound(x)) /\ last[n][tag].text # {<<>>} => Found(n, tag)
           S == {n \in 0 .. Nesting : \A tag \in Trees[n] : Good(n, tag)}
<1>4. 0 \in S
  <2> HIDE DEF Good
  <2> QED
    BY <1>0, TreesAre
<1>5. ASSUME NEW k \in 0 .. Nesting - 1, k \in S PROVE k + 1 \in S
  <2>1. k + 1 \in 1 .. Nesting /\ k + 1 \in 0 .. Nesting /\ (k + 1) - 1 = k
    BY <1>0
  <2> DEFINE n == k + 1
  <2>2. n \in 1 .. Nesting /\ n - 1 = k
    BY <2>1
  <2> HIDE DEF n
  <2>3. ASSUME NEW tag \in Trees[n] PROVE Good(n, tag)
    <3> DEFINE tags == tag.tags  m == Len(tags)
    <3>1. /\ m \in Nat /\ \A i \in 1 .. m : tags[i] \in Trees[k]
          /\ DOMAIN tags = 1 .. m /\ tag.text \in SUBSET Texts
          /\ tag.text # NoText =>
               tags = <<>> /\ The(tag.text) \in Texts /\ tag.text = {The(tag.text)}
          /\ tags # <<>> => m \in 1 .. m
      <4>1. tags \in Seq(Trees[n - 1])
        BY <2>2, PartsOfTag
      <4>2. tags # <<>> => m # 0
        BY <4>1, EmptySeq
      <4>3. DOMAIN tags = 1 .. m
        BY <4>1, LenProperties
      <4>4. /\ m \in Nat /\ \A i \in 1 .. m : tags[i] \in Trees[k]
            /\ tag.text \in SUBSET Texts
            /\ tag.text # NoText =>
                 tags = <<>> /\ The(tag.text) \in Texts /\ tag.text = {The(tag.text)}
        BY <2>2, PartsOfTag
      <4>5. tags # <<>> => m \in 1 .. m
        BY <4>2, <4>4
      <4> QED
        BY <4>3, <4>4, <4>5
    <3>2. \A i \in 1 .. m : Good(k, tags[i])
      <4> HIDE DEF Good
      <4> QED
        BY <1>5, <3>1
    <3>3. \A now \in BOOLEAN :
            /\ pattern[n][tag][now] = PatternBy(pattern[k], tag, now)
            /\ of[n][tag][now] = InitializersBy(of[k], tag, now)
      BY <1>1, <1>2, <2>2 DEF PatternRule, InitializersRule
    <3>4. last[n][tag] = IF tags = <<>> THEN tag ELSE last[k][Last(tags)]
      BY <1>3, <2>2 DEF EndRule
    <3>5. \A i \in 1 .. m : \A in \in BOOLEAN : pattern[k][tags[i]][in] \in Patterns
      BY <3>2
    <3>6. TypesOf(n, tag)
      BY <2>2, <3>3, <3>5, PatternByIs
    <3>7. ASSUME \A x \in Within[n][tag] : Sound(x), last[n][tag].text # {<<>>},
                 NEW now \in BOOLEAN, NEW x \in of[n][tag][now], x.fault = "none"
          PROVE  Covers(x.chars, pattern[n][tag][now])
      <4> DEFINE p == pattern[n][tag][now]  in == Inside(tag, now)
                 parts == PartsOf(pattern[k], tag, now)
      <4>1. Within[n][tag] = {tag} \cup UNION {Within[k][tags[i]] : i \in DOMAIN tags}
        BY <2>2, WithinIs
      <4>2. Sound(tag) /\ \A i \in 1 .. m : \A y \in Within[k][tags[i]] : Sound(y)
        BY <3>1, <3>7, <4>1
      <4>3. in \in BOOLEAN
        BY DEF Inside
      <4>4. /\ KeyName(tag.name) => p = <<{KeyChar(tag.name)}>>
            /\ ~KeyName(tag.name) /\ tag.text # NoText =>
                 p = TextPattern(The(tag.text), in)
            /\ ~KeyName(tag.name) /\ tag.text = NoText =>
                 p = FlattenSeq(parts) /\ parts \in Seq(Patterns) /\ Len(parts) = m
        BY <2>2, <3>3, <3>5, PatternByIs
      <4>5. tag.text # {<<>>}
        <5>1. CASE tags = <<>>
          BY <3>4, <3>7, <5>1
        <5>2. CASE tags # <<>>
          BY <3>1, <5>2 DEF NoText
        <5> QED
          BY <5>1, <5>2
      <4>6. \/ KeyName(tag.name) /\ x.chars = {KeyChar(tag.name)}
            \/ ~KeyName(tag.name) /\ tag.text = NoText /\ tags # <<>> /\ x \in of[k][Last(tags)][in]
            \/ ~KeyName(tag.name) /\ tag.text # NoText /\ The(tag.text) # <<>>
                 /\ x.chars = StartsOf(Last(The(tag.text)), in)
        BY <3>1, <3>3, <3>7, <4>5, InitializersByIs
      <4> HIDE DEF p, in, parts
      <4>7. CASE KeyName(tag.name) /\ x.chars = {KeyChar(tag.name)}
        <5> DEFINE one == {KeyChar(tag.name)}
        <5>1. p = <<one>> /\ x.chars = one
          BY <4>4, <4>7
        <5> HIDE DEF one
        <5>2. p # <<>> /\ Last(p) = one
          BY <5>1 DEF Last
        <5> QED
          BY <5>1, <5>2 DEF Covers, p
      <4>8. CASE /\ ~KeyName(tag.name) /\ tag.text = NoText /\ tags # <<>>
                 /\ x \in of[k][Last(tags)][in]
        <5>1. m \in 1 .. m /\ Last(tags) = tags[m]
          BY <3>1, <4>8 DEF Last
        <5>2. p = FlattenSeq(parts) /\ parts \in Seq(Patterns) /\ Len(parts) = m
          BY <4>4, <4>8
        <5>3. parts[m] = pattern[k][tags[m]][in]
          BY <5>1 DEF parts, PartsOf, in
        <5>4. Found(k, tags[m])
          <6>1. last[k][tags[m]].text # {<<>>}
            BY <3>4, <3>7, <4>8, <5>1
          <6>2. Good(k, tags[m])
            BY <3>2, <5>1
          <6> HIDE DEF Found, TypesOf
          <6> QED
            BY <4>2, <5>1, <6>1, <6>2
        <5>5. Covers(x.chars, parts[m])
          BY <3>7, <4>3, <4>8, <5>1, <5>3, <5>4
        <5>6. parts[m] # <<>> /\ Last(parts[m]) \subseteq x.chars
          BY <5>5 DEF Covers
        <5>7. m # 0
          BY <5>1
        <5> HIDE DEF m, Found
        <5>8. p # <<>> /\ Last(p) = Last(parts[m])
          BY <5>2, <5>6, <5>7, LastOfParts
        <5> QED
          BY <5>6, <5>8 DEF Covers, p
      <4>9. CASE ~KeyName(tag.name) /\ tag.text # NoText /\ The(tag.text) # <<>>
                   /\ x.chars = StartsOf(Last(The(tag.text)), in)
        <5>1. p = TextPattern(The(tag.text), in) /\ The(tag.text) \in Texts
          BY <3>1, <4>4, <4>9
        <5> QED
          BY <4>3, <4>9, <5>1, TextCovers DEF p
      <4> QED
        BY <4>6, <4>7, <4>8, <4>9
    <3> HIDE DEF TypesOf
    <3> QED
      BY <3>6, <3>7
  <2> QED
    BY <2>1, <2>3 DEF n
<1>6. Nesting \in S
  <2> HIDE DEF S
  <2>1. \A k \in 0 .. Nesting - 1 : k \in S => k + 1 \in S
    BY <1>5
  <2>2. \A k \in 0 .. Nesting : k \in S
    BY ONLY <1>0, <1>4, <2>1, UpTo
  <2> QED
    BY <1>0, <2>2
<1>7. Good(Nesting, top)
  <2> HIDE DEF Good
  <2> QED
    BY <1>6 DEF Tree
<1>8. TypesOf(Nesting, top) /\ Found(Nesting, top)
  <2> HIDE DEF Found, TypesOf
  <2> QED
    BY <1>3, <1>7 DEF TagsIn
<1> DEFINE on == TRUE
<1>9. /\ on \in BOOLEAN /\ init \in of[Nesting][top][on]
      /\ Pattern(top) = pattern[Nesting][top][on]
  BY <1>1, <1>2
<1> HIDE DEF on
<1> QED
  BY <1>8, <1>9

-----------------------------------------------------------------------------
(* The check after a key.                                                      *)

LEMMA ValidIsSound ==
    ASSUME NEW top, Valid(top, "match")
    PROVE  \A tag \in TagsIn(top) : Sound(tag)
  BY DEF Valid, Sound

\* What the check comes to for a match whose last characters the query has
ResultsOf(m, known, chars) ==
    {TagWalk(t, chars, Settings(Len(chars))) : t \in {x \in {m} : Last(chars) \in known}}

LEMMA ResultsAre ==
    ASSUME NEW m \in Tree, NEW chars, Len(chars) \in Nat, NEW init \in InitializersOf(m, TRUE),
           init.fault = "none", Valid(m, "match"), EndOfMatch(m).text # {<<>>},
           \A w \in ResultsOf(m, init.chars, chars) : ~w.null
    PROVE  LET results == ResultsOf(m, init.chars, chars)
               ends == EndsBuffer(Pattern(m), chars)
           IN /\ ends <=> \E w \in results : w.ok
              /\ ends => \E w \in results :
                   /\ w.cursor = Len(chars) - Len(Pattern(m))
                   /\ w.undoable <=> Free(TagsIn(m))
<1> DEFINE p == Pattern(m)  s == Settings(Len(chars))  w == TagWalk(m, chars, s)
           results == ResultsOf(m, init.chars, chars)
           ends == EndsBuffer(p, chars)
           free == Free(TagsIn(m))
<1>1. \A tag \in TagsIn(m) : Sound(tag)
  BY ValidIsSound
<1>2. p \in Patterns /\ p # <<>> /\ Last(p) \subseteq init.chars
  BY <1>1, QueryIs DEF Covers
<1>3. /\ s \in WalkStates /\ Begun(s) /\ s.sensitive /\ s.undoable /\ s.cursor = Len(chars)
  BY DEF Settings, WalkStates, Begun
<1>4. Goes(w, s, p, chars, free)
  <2> HIDE DEF s
  <2> QED
    BY <1>1, <1>3, TagWalkIs
<1>5. ends <=> Fits(p, chars, s.cursor)
  BY <1>3, Zenon DEF EndsBuffer, Fits
<1>6. \A x : x \in results <=> x = w /\ Last(chars) \in init.chars
  BY DEF ResultsOf
<1> HIDE DEF p, s, w, results, free
<1>7. ASSUME ends PROVE Last(chars) \in init.chars
  <2>1. Len(p) \in Nat /\ Len(p) # 0
    BY <1>2, LenProperties, EmptySeq DEF Patterns
  <2> DEFINE n == Len(p)  c == Len(chars)
  <2>2. \A i \in 1 .. n : chars[c - n + i] \in p[i]
    BY <1>7, Zenon DEF EndsBuffer
  <2> HIDE DEF n, c
  <2>3. n \in 1 .. n /\ c - n + n = c
    BY <2>1 DEF n, c
  <2>4. chars[c - n + n] \in p[n]
    BY <2>2, <2>3
  <2>5. chars[c] \in p[n]
    BY <2>3, <2>4
  <2> QED
    BY <1>2, <2>5 DEF Last, n, c
<1> HIDE DEF ends
<1>8. ASSUME ends PROVE w \in results /\ w.ok
  BY <1>4, <1>5, <1>6, <1>7, <1>8 DEF Goes, results
<1>9. ASSUME NEW x \in results, x.ok PROVE ends
  BY <1>4, <1>5, <1>6, <1>9 DEF Goes, results
<1>10. ASSUME w.ok PROVE w.cursor = Len(chars) - Len(p) /\ (w.undoable <=> free)
  BY <1>3, <1>4, <1>10 DEF Goes
<1> QED
  BY <1>8, <1>9, <1>10 DEF p, results, ends, free

\* While keys are checked, one valid match is there, and the query knows its end.
MatchInv ==
    Watching => \E m \in Tree :
      /\ tree = {m} /\ Valid(m, "match")
      /\ \E init \in InitializersOf(m, TRUE) : init.fault = "none" /\ initials = init.chars

LEMMA MatchStays == Spec => []MatchInv
<1>1. Init => MatchInv
  BY DEF Init, MatchInv, Watching
<1>2. MatchInv /\ [Next]_vars => MatchInv'
  <2> SUFFICES ASSUME MatchInv, [Next]_vars PROVE MatchInv'
    OBVIOUS
  <2>1. ASSUME tree' = tree, initials' = initials, typing' = typing, Watching' => Watching
        PROVE  MatchInv'
    BY <2>1 DEF MatchInv
  <2>2. ASSUME NEW input \in Inputs, NEW side \in {"match", "expand"}, Refuse(input, side)
        PROVE  MatchInv'
    <3>1. tree' = tree /\ initials' = initials /\ typing' = typing /\ fault' = fault
      BY <2>2, Zenon DEF Refuse
    <3> QED
      BY <2>1, <3>1 DEF Watching
  <2>3. ASSUME NEW input \in Inputs, AddMatch(input) PROVE MatchInv'
    <3>1. Receive(input)
      BY <2>3, Zenon DEF AddMatch
    <3>2. PICK t \in Parsed(input.source, <<"match">>) : \E init \in InitializersOf(t, TRUE) :
            Valid(t, "match") /\ tree' = {t} /\ initials' = init.chars /\ fault' = init.fault
      BY <2>3, Zenon DEF AddMatch
    <3>3. t \in Tree
      <4> DEFINE side == "match"
      <4>1. side \in {"match", "expand"}
        OBVIOUS
      <4>2. Parsed(input.source, <<side>>) \subseteq Tree
        BY <3>1, <4>1, Zenon DEF Receive
      <4> QED
        BY <3>2, <4>2
    <3> QED
      BY <3>2, <3>3 DEF MatchInv, Watching
  <2>4. ASSUME NEW input \in Inputs, Expand(input) PROVE MatchInv'
    <3>1. PICK t : typing' = {t}
      BY <2>4, Zenon DEF Expand
    <3>2. ~Watching'
      BY <3>1 DEF Watching
    <3> QED
      BY <3>2 DEF MatchInv
  <2>5. ASSUME NEW c \in Chars, Type(c) PROVE MatchInv'
    <3>1. Watching /\ tree' = tree /\ initials' = initials /\ typing' = typing
      BY <2>5, Zenon DEF Type, rule
    <3> QED
      BY <2>1, <3>1
  <2>6. CASE Edit
    <3>1. Watching /\ tree' = tree /\ initials' = initials /\ typing' = typing
      BY <2>6, Zenon DEF Edit, rule
    <3> QED
      BY <2>1, <3>1
  <2>7. CASE UNCHANGED vars
    <3>1. tree' = tree /\ initials' = initials /\ typing' = typing /\ fault' = fault
      BY <2>7 DEF vars
    <3> QED
      BY <2>1, <3>1 DEF Watching
  <2> QED
    BY <2>2, <2>3, <2>4, <2>5, <2>6, <2>7 DEF Next
<1> QED
  BY <1>1, <1>2, PTL DEF Spec

(* After a key the match is found exactly when its pattern ends the buffer     *)
(* (match.c:15-107, keyhook.c:47-92): the query on the last character loses no *)
(* match, and the walk from the right goes as far as the pattern is long.      *)
THEOREM MatchFound == Spec => MatchIsFound
<1> DEFINE Checks(c) ==
        \A m \in tree : Type(c) /\ fault' = "none" /\ EndOfMatch(m).text # {<<>>} =>
          LET pattern == Pattern(m)
              ends == EndsBuffer(pattern, kb'.chars)
          IN /\ ends <=> \E w \in found' : w.ok
             /\ ends => \E w \in found' :
                  /\ w.cursor = Size(kb') - Len(pattern)
                  /\ w.undoable <=>
                       \A tag \in TagsIn(m) : tag.name \notin {<<"enter">>, <<"tab">>}
<1>1. BufferInv' /\ MatchInv => \A c \in Chars : Checks(c)
  <2> SUFFICES ASSUME BufferInv', MatchInv, NEW c \in Chars, NEW m \in tree,
                      Type(c), fault' = "none", EndOfMatch(m).text # {<<>>}
               PROVE  LET pattern == Pattern(m)
                          ends == EndsBuffer(pattern, kb'.chars)
                      IN /\ ends <=> \E w \in found' : w.ok
                         /\ ends => \E w \in found' :
                              /\ w.cursor = Size(kb') - Len(pattern)
                              /\ w.undoable <=>
                                   \A tag \in TagsIn(m) : tag.name \notin {<<"enter">>, <<"tab">>}
    BY Zenon
  <2> DEFINE chars == kb'.chars
  <2>1. Watching /\ found' = Checked(chars)
        /\ fault' = IF \E w \in found' : w.null THEN "null_tag" ELSE "none"
    BY Zenon DEF Type
  <2>2. \A w \in found' : ~w.null
    BY <2>1
  <2>3. /\ m \in Tree /\ tree = {m} /\ Valid(m, "match")
        /\ \E init \in InitializersOf(m, TRUE) : init.fault = "none" /\ initials = init.chars
    BY <2>1 DEF MatchInv
  <2>4. PICK init \in InitializersOf(m, TRUE) : init.fault = "none" /\ initials = init.chars
    BY <2>3
  <2>5. found' = ResultsOf(m, init.chars, chars)
    BY <2>1, <2>3, <2>4 DEF Checked, ResultsOf
  <2>6. Len(chars) \in Nat /\ Size(kb') = Len(chars)
    BY LenProperties DEF BufferInv, Buffers, Size
  <2> HIDE DEF chars
  <2>7. /\ EndsBuffer(Pattern(m), chars) <=> \E w \in found' : w.ok
        /\ EndsBuffer(Pattern(m), chars) => \E w \in found' :
             /\ w.cursor = Len(chars) - Len(Pattern(m))
             /\ w.undoable <=> Free(TagsIn(m))
    BY <2>2, <2>3, <2>4, <2>5, <2>6, ResultsAre
  <2>8. Free(TagsIn(m)) <=> \A tag \in TagsIn(m) : tag.name \notin {<<"enter">>, <<"tab">>}
    BY DEF Free, KeyName
  <2> QED
    BY <2>6, <2>7, <2>8 DEF chars
<1>2. [][\A c \in Chars : Checks(c)]_vars => MatchIsFound
  BY PTL DEF MatchIsFound
<1> QED
  BY <1>1, <1>2, BufferStays, MatchStays, PTL

-----------------------------------------------------------------------------
(* Reading a source from its end                                               *)

\* A step of a loop that looks at the values after the next two numbers
DownStep(step, N, V) == step \in [(1 .. N) \X (V \X V) -> V]

DownRule(f, last, step, N, V) ==
    /\ f \in [1 .. N + 2 -> V] /\ f[N + 1] = last /\ f[N + 2] = last
    /\ \A i \in 1 .. N : f[i] = step[<<i, <<f[i + 1], f[i + 2]>>>>]

(* A loop from N down computes something.                                      *)
LEMMA DownComputes ==
    ASSUME NEW N \in Nat, NEW V, NEW last \in V, NEW step, DownStep(step, N, V)
    PROVE  \E f : DownRule(f, last, step, N, V)
<1> DEFINE W == V \X V
           start == <<last, last>>
           next == [p \in (1 .. N) \X W |-> <<step[<<N + 1 - p[1], p[2]>>], p[2][1]>>]
<1>1. start \in W
  OBVIOUS
<1>2. ASSUME NEW k \in 1 .. N, NEW w \in W
      PROVE  next[<<k, w>>] = <<step[<<N + 1 - k, w>>], w[1]>> /\ next[<<k, w>>] \in W
  <2>1. <<k, w>> \in (1 .. N) \X W /\ N + 1 - k \in 1 .. N /\ w[1] \in V
    OBVIOUS
  <2>2. <<N + 1 - k, w>> \in (1 .. N) \X (V \X V)
    BY <2>1
  <2>3. step[<<N + 1 - k, w>>] \in V
    BY <2>2 DEF DownStep
  <2>4. next[<<k, w>>] = <<step[<<N + 1 - k, w>>], w[1]>>
    <3> HIDE DEF W
    <3> QED
      BY <2>1
  <2> QED
    BY <2>1, <2>3, <2>4
<1>3. Step(next, N, W)
  <2>1. ASSUME NEW p \in (1 .. N) \X W PROVE <<step[<<N + 1 - p[1], p[2]>>], p[2][1]>> \in W
    <3>1. p[1] \in 1 .. N /\ p[2] \in W /\ p = <<p[1], p[2]>>
      OBVIOUS
    <3>2. next[p] = <<step[<<N + 1 - p[1], p[2]>>], p[2][1]>>
      OBVIOUS
    <3> HIDE DEF next, W
    <3>3. next[<<p[1], p[2]>>] \in W
      BY <1>2, <3>1
    <3> QED
      BY <3>1, <3>2, <3>3
  <2> HIDE DEF W
  <2> QED
    BY <2>1 DEF Step
<1> HIDE DEF next, start, W
<1>4. PICK g : Computed(g, start, next, N, W)
  BY <1>1, <1>3, LoopComputes
<1>5. /\ g \in [0 .. N -> W] /\ g[0] = start
      /\ \A k \in 1 .. N : g[k] = <<step[<<N + 1 - k, g[k - 1]>>], g[k - 1][1]>>
  <2>1. g \in [0 .. N -> W] /\ g[0] = start /\ \A k \in 1 .. N : g[k] = next[<<k, g[k - 1]>>]
    BY <1>4 DEF Computed
  <2>2. ASSUME NEW k \in 1 .. N
        PROVE  g[k] = <<step[<<N + 1 - k, g[k - 1]>>], g[k - 1][1]>>
    <3>1. k - 1 \in 0 .. N
      OBVIOUS
    <3>2. g[k - 1] \in W
      BY <2>1, <3>1
    <3> QED
      BY <2>1, <3>2, <1>2
  <2> QED
    BY <2>1, <2>2
<1>6. \A k \in 0 .. N : g[k] \in V \X V
  BY <1>5 DEF W
<1>7. g[0][1] = last /\ g[0][2] = last
  BY <1>5 DEF start
<1>8. \A k \in 1 .. N : g[k][1] = step[<<N + 1 - k, g[k - 1]>>] /\ g[k][2] = g[k - 1][1]
  BY <1>5
<1> DEFINE f == [i \in 1 .. N + 2 |-> IF i = N + 2 THEN last ELSE g[N + 1 - i][1]]
<1>9. f \in [1 .. N + 2 -> V] /\ f[N + 1] = last /\ f[N + 2] = last
  <2>1. ASSUME NEW i \in 1 .. N + 2, i # N + 2 PROVE g[N + 1 - i][1] \in V
    <3>1. N + 1 - i \in 0 .. N
      BY <2>1
    <3> QED
      BY <3>1, <1>6
  <2>2. f[N + 1] = last
    <3>1. N + 1 \in 1 .. N + 2 /\ N + 1 # N + 2 /\ N + 1 - (N + 1) = 0
      OBVIOUS
    <3> QED
      BY <3>1, <1>7
  <2>3. f[N + 2] = last
    OBVIOUS
  <2> QED
    BY <2>1, <2>2, <2>3
<1>10. ASSUME NEW i \in 1 .. N PROVE f[i] = step[<<i, <<f[i + 1], f[i + 2]>>>>]
  <2> DEFINE k == N + 1 - i
  <2>1. /\ k \in 1 .. N /\ N + 1 - k = i /\ k - 1 \in 0 .. N /\ k - 1 = N + 1 - (i + 1)
        /\ i \in 1 .. N + 2 /\ i + 1 \in 1 .. N + 2 /\ i + 2 \in 1 .. N + 2 /\ i # N + 2
        /\ i + 1 # N + 2
    OBVIOUS
  <2>2. f[i] = g[k][1] /\ f[i + 1] = g[k - 1][1]
    BY <2>1
  <2>3. f[i + 2] = g[k - 1][2]
    <3>1. CASE i = N
      <4>1. k - 1 = 0 /\ i + 2 = N + 2
        BY <3>1
      <4> QED
        BY <4>1, <2>1, <1>7
    <3>2. CASE i # N
      <4>1. k - 1 \in 1 .. N /\ N + 1 - (i + 2) = k - 2 /\ i + 2 # N + 2 /\ k - 2 = (k - 1) - 1
        BY <3>2
      <4>2. f[i + 2] = g[k - 2][1]
        BY <2>1, <4>1
      <4>3. g[k - 1][2] = g[(k - 1) - 1][1]
        BY <4>1, <1>8
      <4> QED
        BY <4>1, <4>2, <4>3
    <3> QED
      BY <3>1, <3>2
  <2> HIDE DEF k, f
  <2>4. g[k][1] = step[<<i, g[k - 1]>>]
    BY <2>1, <1>8
  <2>5. g[k - 1] = <<f[i + 1], f[i + 2]>>
    BY <2>1, <2>2, <2>3, <1>6
  <2> QED
    BY <2>2, <2>4, <2>5
<1> HIDE DEF f
<1>11. DownRule(f, last, step, N, V)
  BY <1>9, <1>10 DEF DownRule
<1> QED
  BY <1>11

SameSteps(one, two, d, M, V) ==
    \A i \in 1 .. M : \A x \in V \X V : one[<<d + i, x>>] = two[<<i, x>>]

(* From the same place on, loops that take the same steps compute the same.    *)
LEMMA DownAgrees ==
    ASSUME NEW M \in Nat, NEW d \in Nat, NEW N, N = d + M, NEW V, NEW last \in V,
           NEW f, NEW g, NEW one, NEW two,
           DownRule(f, last, one, N, V), DownRule(g, last, two, M, V),
           SameSteps(one, two, d, M, V)
    PROVE  \A i \in 1 .. M + 2 : f[d + i] = g[i]
<1> DEFINE S == {k \in 0 .. M : /\ f[d + (M + 1 - k)] = g[M + 1 - k]
                                /\ f[d + (M + 2 - k)] = g[M + 2 - k]}
<1>1. /\ f[d + M + 1] = last /\ f[d + M + 2] = last /\ g[M + 1] = last /\ g[M + 2] = last
      /\ \A i \in 1 .. d + M : f[i] = one[<<i, <<f[i + 1], f[i + 2]>>>>]
      /\ \A i \in 1 .. M : g[i] = two[<<i, <<g[i + 1], g[i + 2]>>>>]
      /\ g \in [1 .. M + 2 -> V]
  BY DEF DownRule
<1>2. 0 \in S
  <2>1. /\ d + (M + 1 - 0) = d + M + 1 /\ d + (M + 2 - 0) = d + M + 2
        /\ M + 1 - 0 = M + 1 /\ M + 2 - 0 = M + 2 /\ 0 \in 0 .. M
    OBVIOUS
  <2> QED
    BY <1>1, <2>1
<1>3. ASSUME NEW k \in 0 .. M - 1, k \in S PROVE k + 1 \in S
  <2> DEFINE i == M - k
  <2>1. /\ i \in 1 .. M /\ M + 1 - (k + 1) = i /\ M + 2 - (k + 1) = i + 1 /\ k + 1 \in 0 .. M
        /\ M + 1 - k = i + 1 /\ M + 2 - k = i + 2
        /\ d + i \in 1 .. d + M /\ d + (i + 1) = (d + i) + 1 /\ d + (i + 2) = (d + i) + 2
        /\ i + 1 \in 1 .. M + 2 /\ i + 2 \in 1 .. M + 2
    OBVIOUS
  <2>2. f[(d + i) + 1] = g[i + 1] /\ f[(d + i) + 2] = g[i + 2]
    BY <1>3, <2>1
  <2> HIDE DEF i
  <2>3. f[d + i] = one[<<d + i, <<g[i + 1], g[i + 2]>>>>]
    BY <1>1, <2>1, <2>2
  <2>4. <<g[i + 1], g[i + 2]>> \in V \X V
    BY <1>1, <2>1
  <2>5. f[d + i] = g[i]
    BY <1>1, <2>1, <2>3, <2>4 DEF SameSteps
  <2> QED
    BY <2>1, <2>2, <2>5
<1>4. \A k \in 0 .. M : k \in S
  <2> HIDE DEF S
  <2>1. \A k \in 0 .. M - 1 : k \in S => k + 1 \in S
    BY <1>3
  <2> QED
    BY ONLY <1>2, <2>1, UpTo, M \in Nat
<1>5. ASSUME NEW i \in 1 .. M + 2 PROVE f[d + i] = g[i]
  <2>1. CASE i = M + 2
    BY <1>1, <2>1
  <2>2. CASE i # M + 2
    <3>1. M + 1 - i \in 0 .. M /\ M + 1 - (M + 1 - i) = i
      BY <2>2
    <3>2. M + 1 - i \in S
      BY <3>1, <1>4
    <3> QED
      BY <3>1, <3>2
  <2> QED
    BY <2>1, <2>2
<1> QED
  BY <1>5

-----------------------------------------------------------------------------
(* Stripping brackets                                                          *)

StripAt(s, i, one, two) ==
    IF s[i] \notin Brackets THEN <<s[i]>> \o one
    ELSE IF i < Len(s) /\ s[i + 1] = s[i] THEN <<s[i]>> \o two
    ELSE one

StripStep(s) == [p \in (1 .. Len(s)) \X (Texts \X Texts) |-> StripAt(s, p[1], p[2][1], p[2][2])]

(* Stripped takes its steps among texts, and by one rule.                     *)
LEMMA StripSteps ==
    ASSUME NEW s \in Texts
    PROVE  /\ DownStep(StripStep(s), Len(s), Texts)
           /\ \A i \in 1 .. Len(s) : \A x \in Texts \X Texts :
                StripStep(s)[<<i, x>>] = StripAt(s, i, x[1], x[2])
<1>1. ASSUME NEW i \in 1 .. Len(s), NEW one \in Texts, NEW two \in Texts
      PROVE  StripAt(s, i, one, two) \in Texts
  <2>1. <<s[i]>> \in Texts
    BY TextsJoin
  <2>2. <<s[i]>> \o one \in Texts /\ <<s[i]>> \o two \in Texts
    BY <2>1, TextsJoin
  <2> QED
    BY <2>2 DEF StripAt
<1>2. ASSUME NEW p \in (1 .. Len(s)) \X (Texts \X Texts)
      PROVE  StripAt(s, p[1], p[2][1], p[2][2]) \in Texts
  <2>1. p[1] \in 1 .. Len(s) /\ p[2][1] \in Texts /\ p[2][2] \in Texts
    OBVIOUS
  <2> QED
    BY <1>1, <2>1
<1>3. DownStep(StripStep(s), Len(s), Texts)
  BY <1>2 DEF DownStep, StripStep
<1>4. ASSUME NEW i \in 1 .. Len(s), NEW x \in Texts \X Texts
      PROVE  StripStep(s)[<<i, x>>] = StripAt(s, i, x[1], x[2])
  <2>1. <<i, x>> \in (1 .. Len(s)) \X (Texts \X Texts)
    OBVIOUS
  <2> DEFINE p == <<i, x>>
  <2>2. StripStep(s)[p] = StripAt(s, p[1], p[2][1], p[2][2])
    BY <2>1 DEF StripStep
  <2>3. p[1] = i /\ p[2] = x
    OBVIOUS
  <2> QED
    BY <2>2, <2>3
<1> QED
  BY <1>3, <1>4

\* What is left of a text from each of its lexemes on
StripRule(from, s) ==
    DownRule(from, <<>>, StripStep(s), Len(s), Texts) /\ Stripped(s) = from[1]

(* What Stripped finds from each place on, which is what it finds in all.     *)
LEMMA StrippedGoes ==
    ASSUME NEW s \in Texts
    PROVE  \E from : StripRule(from, s)
<1> DEFINE N == Len(s)
           Rule(f) == f = [i \in 1 .. N + 1 |->
                             IF i > N THEN <<>>
                             ELSE IF s[i] \notin Brackets THEN <<s[i]>> \o f[i + 1]
                             ELSE IF i < N /\ s[i + 1] = s[i] THEN <<s[i]>> \o f[i + 2]
                             ELSE f[i + 1]]
           loop == CHOOSE f : Rule(f)
<1>1. Stripped(s) = loop[1]
  BY Zenon DEF Stripped
<1>2. N \in Nat /\ <<>> \in Texts
  BY TextsJoin
<1>3. PICK g : DownRule(g, <<>>, StripStep(s), N, Texts)
  BY <1>2, StripSteps, DownComputes
<1>4. /\ g \in [1 .. N + 2 -> Texts] /\ g[N + 1] = <<>>
      /\ \A i \in 1 .. N : g[i] = StripAt(s, i, g[i + 1], g[i + 2])
  <2>1. ASSUME NEW i \in 1 .. N PROVE g[i] = StripAt(s, i, g[i + 1], g[i + 2])
    <3> DEFINE x == <<g[i + 1], g[i + 2]>>
    <3>1. x \in Texts \X Texts /\ x[1] = g[i + 1] /\ x[2] = g[i + 2]
      BY <1>2, <1>3 DEF DownRule
    <3>2. g[i] = StripStep(s)[<<i, x>>]
      BY <1>3 DEF DownRule
    <3> HIDE DEF x
    <3> QED
      BY <3>1, <3>2, StripSteps
  <2> QED
    BY <1>3, <2>1 DEF DownRule
<1> DEFINE h == [i \in 1 .. N + 1 |-> g[i]]
<1>5. \A i \in 1 .. N + 1 : h[i] = IF i > N THEN <<>> ELSE StripAt(s, i, h[i + 1], h[i + 2])
  <2>1. ASSUME NEW i \in 1 .. N + 1
        PROVE  h[i] = IF i > N THEN <<>> ELSE StripAt(s, i, h[i + 1], h[i + 2])
    <3>1. CASE i = N + 1
      <4>1. i > N
        BY <1>2, <3>1
      <4> QED
        BY <1>4, <3>1, <4>1
    <3>2. CASE i \in 1 .. N /\ i + 2 \in 1 .. N + 1
      <4>1. h[i] = g[i] /\ h[i + 1] = g[i + 1] /\ h[i + 2] = g[i + 2] /\ ~(i > N)
        BY <1>2, <3>2
      <4> QED
        BY <1>4, <3>2, <4>1
    <3>3. CASE i \in 1 .. N /\ i + 2 \notin 1 .. N + 1
      <4>1. h[i] = g[i] /\ h[i + 1] = g[i + 1] /\ ~(i > N) /\ ~(i < N)
        BY <1>2, <3>3
      <4>2. \A x, y, z : StripAt(s, i, x, y) = StripAt(s, i, x, z)
        BY <4>1 DEF StripAt
      <4> HIDE DEF h
      <4>3. g[i] = StripAt(s, i, g[i + 1], g[i + 2])
        BY <1>4, <3>3
      <4> QED
        BY <4>1, <4>2, <4>3
    <3> QED
      BY <1>2, <3>1, <3>2, <3>3
  <2> QED
    BY <2>1
<1>6. Rule(h)
  <2>1. h = [i \in 1 .. N + 1 |-> IF i > N THEN <<>> ELSE StripAt(s, i, h[i + 1], h[i + 2])]
    <3>1. h = [i \in 1 .. N + 1 |-> h[i]]
      OBVIOUS
    <3> HIDE DEF h
    <3> QED
      BY <1>5, <3>1
  <2> HIDE DEF h, N
  <2> QED
    BY <2>1, Zenon DEF StripAt, N
<1>7. Rule(loop)
  <2> HIDE DEF Rule
  <2> QED
    BY <1>6
<1>8. \A i \in 1 .. N + 1 :
        loop[i] = IF i > N THEN <<>> ELSE StripAt(s, i, loop[i + 1], loop[i + 2])
  <2> HIDE DEF loop
  <2>1. loop = [i \in 1 .. N + 1 |->
                  IF i > N THEN <<>> ELSE StripAt(s, i, loop[i + 1], loop[i + 2])]
    BY <1>7, Zenon DEF StripAt
  <2> QED
    BY <2>1
<1>9. loop[1] = g[1]
  <2> DEFINE S == {k \in 0 .. N : loop[N + 1 - k] = g[N + 1 - k]
                                    /\ (k > 0 => loop[N + 2 - k] = g[N + 2 - k])}
  <2> HIDE DEF loop
  <2>1. 0 \in S
    <3>1. N + 1 > N /\ N + 1 \in 1 .. N + 1 /\ N + 1 - 0 = N + 1 /\ 0 \in 0 .. N
      BY <1>2
    <3> QED
      BY <1>4, <1>8, <3>1
  <2>2. ASSUME NEW k \in 0 .. N - 1, k \in S PROVE k + 1 \in S
    <3> DEFINE i == N - k
    <3>1. /\ i \in 1 .. N /\ N + 1 - (k + 1) = i /\ N + 2 - (k + 1) = i + 1 /\ k + 1 \in 0 .. N
          /\ N + 1 - k = i + 1 /\ N + 2 - k = i + 2 /\ ~(i > N) /\ i \in 1 .. N + 1
      BY <1>2
    <3>2. loop[i + 1] = g[i + 1] /\ (k > 0 => loop[i + 2] = g[i + 2])
      BY <2>2, <3>1
    <3>3. loop[i] = StripAt(s, i, loop[i + 1], loop[i + 2])
      BY <1>8, <3>1
    <3>4. g[i] = StripAt(s, i, g[i + 1], g[i + 2])
      BY <1>4, <3>1
    <3>5. k = 0 => ~(i < N)
      BY <1>2
    <3> HIDE DEF i
    <3>6. loop[i] = g[i]
      <4>1. CASE k > 0
        BY <4>1, <3>2, <3>3, <3>4
      <4>2. CASE k = 0
        <5>1. \A x, y, z : StripAt(s, i, x, y) = StripAt(s, i, x, z)
          BY <4>2, <3>5 DEF StripAt
        <5> QED
          BY <5>1, <3>2, <3>3, <3>4
      <4> QED
        BY <4>1, <4>2, <1>2
    <3> QED
      BY <3>1, <3>2, <3>6
  <2>3. \A k \in 0 .. N : k \in S
    <3> HIDE DEF S
    <3>1. \A k \in 0 .. N - 1 : k \in S => k + 1 \in S
      BY <2>2
    <3>2. N \in Nat
      BY <1>2
    <3> HIDE DEF N
    <3> QED
      BY ONLY <2>1, <3>1, <3>2, UpTo
  <2>4. N \in S
    BY <1>2, <2>3
  <2>5. N + 1 - N = 1
    BY <1>2
  <2> QED
    BY <2>4, <2>5
<1> QED
  BY <1>1, <1>3, <1>9 DEF StripRule

(* From the same place on, two texts are stripped alike.                      *)
LEMMA StripShifts ==
    ASSUME NEW w \in Texts, NEW v \in Texts, NEW f, NEW g, StripRule(f, w \o v), StripRule(g, v)
    PROVE  \A i \in 1 .. Len(v) + 2 : f[Len(w) + i] = g[i]
<1> DEFINE s == w \o v  d == Len(w)  M == Len(v)
<1>1. d \in Nat /\ M \in Nat /\ Len(s) = d + M /\ s \in Texts /\ <<>> \in Texts
  BY TextsJoin
<1>2. \A i \in 1 .. M : s[d + i] = v[i]
  BY JoinedAt
<1>3. DownRule(f, <<>>, StripStep(s), d + M, Texts) /\ DownRule(g, <<>>, StripStep(v), M, Texts)
  BY <1>1 DEF StripRule
<1>4. ASSUME NEW i \in 1 .. M, NEW x \in Texts \X Texts
      PROVE  StripStep(s)[<<d + i, x>>] = StripStep(v)[<<i, x>>]
  <2>1. d + i \in 1 .. Len(s) /\ (d + i < Len(s) <=> i < M)
    BY <1>1
  <2>2. s[d + i] = v[i] /\ (i < M => s[(d + i) + 1] = v[i + 1])
    <3>1. i < M => i + 1 \in 1 .. M /\ d + (i + 1) = (d + i) + 1
      BY <1>1
    <3> QED
      BY <1>2, <3>1
  <2> HIDE DEF s, d, M
  <2>3. StripStep(s)[<<d + i, x>>] = StripAt(s, d + i, x[1], x[2])
    BY <2>1, <1>1, StripSteps
  <2>4. StripStep(v)[<<i, x>>] = StripAt(v, i, x[1], x[2])
    BY StripSteps DEF M
  <2>5. StripAt(s, d + i, x[1], x[2]) = StripAt(v, i, x[1], x[2])
    BY <2>1, <2>2 DEF StripAt, M
  <2> QED
    BY <2>3, <2>4, <2>5
<1>5. \A i \in 1 .. M : \A x \in Texts \X Texts :
        StripStep(s)[<<d + i, x>>] = StripStep(v)[<<i, x>>]
  BY <1>4
<1> HIDE DEF s, d, M
<1> DEFINE one == StripStep(s)  two == StripStep(v)  last == <<>>
<1>6. /\ DownRule(f, last, one, Len(s), Texts) /\ DownRule(g, last, two, M, Texts) /\ last \in Texts
      /\ SameSteps(one, two, d, M, Texts)
  BY <1>1, <1>3, <1>5 DEF SameSteps
<1> HIDE DEF one, two, last
<1>7. \A i \in 1 .. M + 2 : f[d + i] = g[i]
  BY <1>1, <1>6, DownAgrees
<1> QED
  BY <1>7 DEF d, M

(* What Stripped does with a text that begins with a character.               *)
LEMMA StrippedTurn ==
    ASSUME NEW w \in Texts, NEW v \in Texts, Len(w) >= 1
    PROVE  \E other \in Texts :
             /\ Len(w) = 1 => Stripped(w \o v) = StripAt(w \o v, 1, Stripped(v), other)
             /\ Len(w) = 2 => Stripped(w \o v) = StripAt(w \o v, 1, other, Stripped(v))
<1> DEFINE s == w \o v
<1>1. s \in Texts /\ Len(s) = Len(w) + Len(v) /\ Len(w) \in Nat /\ Len(v) \in Nat
  BY TextsJoin
<1>2. PICK f : StripRule(f, s)
  BY <1>1, StrippedGoes
<1>3. PICK g : StripRule(g, v)
  BY StrippedGoes
<1>4. f[Len(w) + 1] = Stripped(v)
  <2>1. 1 \in 1 .. Len(v) + 2
    BY <1>1
  <2>2. \A i \in 1 .. Len(v) + 2 : f[Len(w) + i] = g[i]
    BY <1>2, <1>3, StripShifts
  <2> QED
    BY <2>1, <2>2, <1>3 DEF StripRule
<1> HIDE DEF s
<1>5. /\ 1 \in 1 .. Len(s) /\ 1 + 1 = 2 /\ 1 + 2 = 3 /\ 2 + 1 = 3
      /\ 2 \in 1 .. Len(s) + 2 /\ 3 \in 1 .. Len(s) + 2
  BY <1>1
<1> DEFINE x == <<f[2], f[3]>>
<1>6. f[2] \in Texts /\ f[3] \in Texts /\ Stripped(s) = StripStep(s)[<<1, x>>]
  BY <1>2, <1>5 DEF StripRule, DownRule
<1>7. x \in Texts \X Texts /\ x[1] = f[2] /\ x[2] = f[3]
  BY <1>6
<1> HIDE DEF x
<1>8. Stripped(s) = StripAt(s, 1, f[2], f[3])
  BY <1>1, <1>5, <1>6, <1>7, StripSteps
<1>9. CASE Len(w) = 1
  <2>1. Stripped(s) = StripAt(s, 1, Stripped(v), f[3])
    BY <1>4, <1>5, <1>8, <1>9
  <2> QED
    BY <2>1, <1>6, <1>9 DEF s
<1>10. CASE Len(w) = 2
  <2>1. Stripped(s) = StripAt(s, 1, f[2], Stripped(v))
    BY <1>4, <1>5, <1>8, <1>10
  <2> QED
    BY <2>1, <1>6, <1>10 DEF s
<1>11. CASE Len(w) # 1 /\ Len(w) # 2
  BY <1>6, <1>11
<1> QED
  BY <1>9, <1>10, <1>11

(* What two texts are, joined.                                                *)
LEMMA JoinIs ==
    ASSUME NEW u \in Texts, NEW v \in Texts
    PROVE  u \o v \in Texts /\ Len(u \o v) = Len(u) + Len(v) /\ Len(u) \in Nat /\ Len(v) \in Nat
  BY TextsJoin

(* Where a character is in a text that begins with one.                       *)
LEMMA FirstOfOne ==
    ASSUME NEW c \in Lexemes, NEW v \in Texts
    PROVE  /\ <<c>> \o v \in Texts /\ Len(<<c>> \o v) = 1 + Len(v) /\ (<<c>> \o v)[1] = c
           /\ \A i \in 1 .. Len(v) : (<<c>> \o v)[i + 1] = v[i]
<1> DEFINE w == <<c>>
<1>1. w \in Texts /\ Len(w) = 1 /\ w[1] = c /\ Len(v) \in Nat
  BY TextsJoin
<1> HIDE DEF w
<1>2. w \o v \in Texts /\ Len(w \o v) = 1 + Len(v)
  BY <1>1, JoinIs
<1>3. (w \o v)[1] = c
  <2>1. 1 \in 1 .. Len(w)
    BY <1>1
  <2> QED
    BY <1>1, <2>1, JoinedAt
<1>4. ASSUME NEW i \in 1 .. Len(v) PROVE (w \o v)[i + 1] = v[i]
  <2>1. Len(w) + i = i + 1
    BY <1>1
  <2> QED
    BY <1>1, <2>1, JoinedAt
<1> QED
  BY <1>2, <1>3, <1>4 DEF w

(* And in one that begins with two.                                           *)
LEMMA FirstOfTwo ==
    ASSUME NEW c \in Lexemes, NEW d \in Lexemes, NEW v \in Texts
    PROVE  /\ <<c, d>> \o v \in Texts /\ Len(<<c, d>> \o v) = 2 + Len(v)
           /\ (<<c, d>> \o v)[1] = c /\ (<<c, d>> \o v)[2] = d
           /\ <<c, d>> \o v = <<c>> \o (<<d>> \o v)
<1> DEFINE w == <<c, d>>
<1>1. w \in Texts /\ Len(w) = 2 /\ w[1] = c /\ w[2] = d /\ Len(v) \in Nat
  BY TextsJoin
<1>6. w = <<c>> \o <<d>>
  <2> DEFINE x == <<c>> \o <<d>>
  <2>1. /\ <<c>> \in Texts /\ Len(<<c>>) = 1 /\ <<c>>[1] = c
        /\ <<d>> \in Texts /\ Len(<<d>>) = 1 /\ <<d>>[1] = d /\ 1 \in 1 .. 1 /\ 1 + 1 = 2
    BY TextsJoin
  <2>2. x \in Texts /\ Len(x) = 2
    BY <2>1, JoinIs
  <2>3. x[1] = c /\ x[2] = d
    <3>1. (<<c>> \o <<d>>)[1] = <<c>>[1] /\ (<<c>> \o <<d>>)[1 + 1] = <<d>>[1]
      BY <2>1, JoinedAt
    <3> QED
      BY <2>1, <3>1
  <2>4. x \in Seq(STRING)
    BY <2>2 DEF Texts
  <2> HIDE DEF x
  <2>5. x = <<x[1], x[2]>>
    BY <2>2, <2>4
  <2> QED
    BY <2>3, <2>5 DEF x
<1> HIDE DEF w
<1>2. w \o v \in Texts /\ Len(w \o v) = 2 + Len(v)
  BY <1>1, JoinIs
<1>3. 1 \in 1 .. Len(w) /\ 2 \in 1 .. Len(w)
  BY <1>1
<1>4. (w \o v)[1] = c /\ (w \o v)[2] = d
  BY <1>1, <1>3, JoinedAt
<1>5. w \o v = <<c>> \o (<<d>> \o v)
  BY <1>6, TextsJoin
<1> QED
  BY <1>2, <1>4, <1>5 DEF w

(* Stripping goes from the left, a lexeme or a doubled bracket at a time.      *)
LEMMA StrippedIs ==
    /\ \A s \in Texts : Stripped(s) \in Texts
    /\ Stripped(<<>>) = <<>>
    /\ \A c \in Lexemes, v \in Texts :
         /\ c \notin Brackets => Stripped(<<c>> \o v) = <<c>> \o Stripped(v)
         /\ c \in Brackets /\ (v = <<>> \/ v[1] # c) => Stripped(<<c>> \o v) = Stripped(v)
         /\ c \in Brackets => Stripped(<<c, c>> \o v) = <<c>> \o Stripped(v)
<1>1. ASSUME NEW s \in Texts PROVE Stripped(s) \in Texts
  <2>1. PICK f : StripRule(f, s)
    BY StrippedGoes
  <2>2. Len(s) \in Nat
    BY TextsJoin
  <2> QED
    BY <2>1, <2>2 DEF StripRule, DownRule
<1>2. Stripped(<<>>) = <<>>
  <2>1. <<>> \in Texts /\ Len(<<>>) = 0
    BY TextsJoin
  <2>2. PICK f : StripRule(f, <<>>)
    BY <2>1, StrippedGoes
  <2> QED
    BY <2>1, <2>2 DEF StripRule, DownRule
<1>3. ASSUME NEW c \in Lexemes, NEW v \in Texts
      PROVE  /\ c \notin Brackets => Stripped(<<c>> \o v) = <<c>> \o Stripped(v)
             /\ c \in Brackets /\ (v = <<>> \/ v[1] # c) => Stripped(<<c>> \o v) = Stripped(v)
  <2> DEFINE s == <<c>> \o v
  <2>1. /\ <<c>> \in Texts /\ Len(<<c>>) = 1 /\ Len(v) \in Nat /\ (v = <<>> <=> ~(Len(v) >= 1))
        /\ 1 + 1 = 2
    BY TextsJoin
  <2>2. Len(s) = 1 + Len(v) /\ s[1] = c /\ (Len(v) >= 1 => s[1 + 1] = v[1])
    <3>1. Len(v) >= 1 => 1 \in 1 .. Len(v)
      BY <2>1
    <3> QED
      BY <3>1, FirstOfOne
  <2>3. PICK other : Stripped(s) = StripAt(s, 1, Stripped(v), other)
    <3>1. 1 >= 1
      OBVIOUS
    <3> DEFINE w == <<c>>
    <3>2. w \in Texts /\ Len(w) = 1
      BY <2>1
    <3> HIDE DEF w
    <3>3. \E other \in Texts : Stripped(w \o v) = StripAt(w \o v, 1, Stripped(v), other)
      BY <3>1, <3>2, StrippedTurn
    <3> QED
      BY <3>3 DEF w
  <2> HIDE DEF s
  <2>4. c \notin Brackets => Stripped(s) = <<c>> \o Stripped(v)
    BY <2>2, <2>3 DEF StripAt
  <2>5. ASSUME c \in Brackets, v = <<>> \/ v[1] # c PROVE Stripped(s) = Stripped(v)
    <3>1. ~(1 < Len(s) /\ s[1 + 1] = s[1])
      BY <2>1, <2>2, <2>5
    <3> QED
      BY <3>1, <2>2, <2>3, <2>5 DEF StripAt
  <2> QED
    BY <2>4, <2>5 DEF s
<1>4. ASSUME NEW c \in Lexemes, NEW v \in Texts, c \in Brackets
      PROVE  Stripped(<<c, c>> \o v) = <<c>> \o Stripped(v)
  <2> DEFINE s == <<c, c>> \o v
  <2>1. <<c, c>> \in Texts /\ Len(<<c, c>>) = 2 /\ Len(v) \in Nat /\ 1 + 1 = 2
    BY TextsJoin
  <2>2. Len(s) = 2 + Len(v) /\ s[1] = c /\ s[2] = c
    BY FirstOfTwo
  <2>3. PICK other : Stripped(s) = StripAt(s, 1, other, Stripped(v))
    <3>1. 2 >= 1
      OBVIOUS
    <3> DEFINE w == <<c, c>>
    <3>2. w \in Texts /\ Len(w) = 2
      BY <2>1
    <3> HIDE DEF w
    <3>3. \E other \in Texts : Stripped(w \o v) = StripAt(w \o v, 1, other, Stripped(v))
      BY <3>1, <3>2, StrippedTurn
    <3> QED
      BY <3>3 DEF w
  <2> HIDE DEF s
  <2>4. 1 < Len(s)
    BY <2>1, <2>2
  <2>5. Stripped(s) = <<c>> \o Stripped(v)
    BY <1>4, <2>1, <2>2, <2>3, <2>4 DEF StripAt
  <2> QED
    BY <2>5 DEF s
<1> QED
  BY <1>1, <1>2, <1>3, <1>4

-----------------------------------------------------------------------------
(* Cutting at a delimiter                                                      *)

Shift(n, cut) == IF cut = 0 THEN 0 ELSE n + cut

CutTurn(s, delimiter, i, one, two) ==
    IF s[i] # delimiter THEN Shift(1, one)
    ELSE IF i < Len(s) /\ s[i + 1] = delimiter THEN Shift(2, two)
    ELSE 1

CutStep(s, delimiter) ==
    [p \in (1 .. Len(s)) \X (Nat \X Nat) |-> CutTurn(s, delimiter, p[1], p[2][1], p[2][2])]

(* A cut is a number, from wherever it is counted.                            *)
LEMMA ShiftIs == \A n, cut \in Nat : Shift(n, cut) \in Nat
  BY DEF Shift

(* CutAt takes its steps among numbers, and by one rule.                      *)
LEMMA CutSteps ==
    ASSUME NEW s \in Texts, NEW delimiter
    PROVE  /\ DownStep(CutStep(s, delimiter), Len(s), Nat)
           /\ \A i \in 1 .. Len(s) : \A x \in Nat \X Nat :
                CutStep(s, delimiter)[<<i, x>>] = CutTurn(s, delimiter, i, x[1], x[2])
<1>1. ASSUME NEW i, NEW one \in Nat, NEW two \in Nat
      PROVE  CutTurn(s, delimiter, i, one, two) \in Nat
  BY ShiftIs DEF CutTurn
<1>2. ASSUME NEW p \in (1 .. Len(s)) \X (Nat \X Nat)
      PROVE  CutTurn(s, delimiter, p[1], p[2][1], p[2][2]) \in Nat
  <2>1. p[1] \in 1 .. Len(s) /\ p[2][1] \in Nat /\ p[2][2] \in Nat
    OBVIOUS
  <2> QED
    BY <1>1, <2>1
<1>3. DownStep(CutStep(s, delimiter), Len(s), Nat)
  BY <1>2 DEF DownStep, CutStep
<1>4. ASSUME NEW i \in 1 .. Len(s), NEW x \in Nat \X Nat
      PROVE  CutStep(s, delimiter)[<<i, x>>] = CutTurn(s, delimiter, i, x[1], x[2])
  <2>1. <<i, x>> \in (1 .. Len(s)) \X (Nat \X Nat)
    OBVIOUS
  <2> DEFINE p == <<i, x>>
  <2>2. CutStep(s, delimiter)[p] = CutTurn(s, delimiter, p[1], p[2][1], p[2][2])
    BY <2>1 DEF CutStep
  <2>3. p[1] = i /\ p[2] = x
    OBVIOUS
  <2> QED
    BY <2>2, <2>3
<1> QED
  BY <1>3, <1>4

\* How far the cut is from each lexeme on
CutRule(from, s, delimiter) ==
    DownRule(from, 0, CutStep(s, delimiter), Len(s), Nat) /\ CutAt(s, delimiter) = from[1]

(* What CutAt finds from each place on, which is what it finds in all.        *)
LEMMA CutGoes ==
    ASSUME NEW s \in Texts, NEW delimiter
    PROVE  \E from : CutRule(from, s, delimiter)
<1> DEFINE N == Len(s)
           Turn(f, i) == IF i > N THEN 0
                         ELSE IF s[i] # delimiter THEN f[i + 1]
                         ELSE IF i < N /\ s[i + 1] = delimiter THEN f[i + 2]
                         ELSE i
           Rule(f) == f = [i \in 1 .. N + 2 |-> Turn(f, i)]
           loop == CHOOSE f : Rule(f)
<1>1. CutAt(s, delimiter) = loop[1]
  BY Zenon DEF CutAt
<1>2. N \in Nat /\ 0 \in Nat
  BY TextsJoin
<1>3. PICK g : DownRule(g, 0, CutStep(s, delimiter), N, Nat)
  BY <1>2, CutSteps, DownComputes
<1>4. /\ g \in [1 .. N + 2 -> Nat] /\ g[N + 1] = 0 /\ g[N + 2] = 0
      /\ \A i \in 1 .. N : g[i] = CutTurn(s, delimiter, i, g[i + 1], g[i + 2])
  <2>1. ASSUME NEW i \in 1 .. N PROVE g[i] = CutTurn(s, delimiter, i, g[i + 1], g[i + 2])
    <3> DEFINE x == <<g[i + 1], g[i + 2]>>
    <3>1. x \in Nat \X Nat /\ x[1] = g[i + 1] /\ x[2] = g[i + 2]
      BY <1>2, <1>3 DEF DownRule
    <3>2. g[i] = CutStep(s, delimiter)[<<i, x>>]
      BY <1>3 DEF DownRule
    <3> HIDE DEF x
    <3> QED
      BY <3>1, <3>2, CutSteps
  <2> QED
    BY <1>3, <2>1 DEF DownRule
<1> DEFINE h == [i \in 1 .. N + 2 |-> Shift(i - 1, g[i])]
<1>5. ASSUME NEW i \in 1 .. N + 2 PROVE h[i] = Turn(h, i)
  <2>1. h[i] = Shift(i - 1, g[i])
    OBVIOUS
  <2>2. CASE i > N
    <3>1. g[i] = 0
      BY <1>2, <1>4, <2>2
    <3> QED
      BY <2>1, <2>2, <3>1 DEF Shift
  <2>3. CASE ~(i > N)
    <3>1. /\ i \in 1 .. N /\ i + 1 \in 1 .. N + 2 /\ i + 2 \in 1 .. N + 2
          /\ i + 1 - 1 = i /\ i + 2 - 1 = i + 1
      BY <1>2, <2>3
    <3>2. h[i + 1] = Shift(i, g[i + 1]) /\ h[i + 2] = Shift(i + 1, g[i + 2])
      BY <3>1
    <3>3. g[i] = CutTurn(s, delimiter, i, g[i + 1], g[i + 2])
      BY <1>4, <3>1
    <3>4. g[i + 1] \in Nat /\ g[i + 2] \in Nat
      BY <1>4, <3>1
    <3> HIDE DEF h
    <3>5. /\ Shift(i - 1, Shift(1, g[i + 1])) = Shift(i, g[i + 1])
          /\ Shift(i - 1, Shift(2, g[i + 2])) = Shift(i + 1, g[i + 2])
          /\ Shift(i - 1, 1) = i
      BY <3>1, <3>4 DEF Shift
    <3> QED
      BY <2>1, <2>3, <3>2, <3>3, <3>5 DEF CutTurn
  <2> QED
    BY <2>2, <2>3
<1>6. Rule(h)
  <2>1. h = [i \in 1 .. N + 2 |-> h[i]]
    OBVIOUS
  <2> HIDE DEF h, Turn
  <2> QED
    BY <1>5, <2>1
<1>7. Rule(loop)
  <2> HIDE DEF Rule
  <2> QED
    BY <1>6
<1>8. \A i \in 1 .. N + 2 : loop[i] = Turn(loop, i)
  <2> HIDE DEF loop, Turn
  <2> QED
    BY <1>7
<1>9. loop[1] = h[1]
  <2> DEFINE S == {k \in 0 .. N : loop[N + 1 - k] = h[N + 1 - k] /\ loop[N + 2 - k] = h[N + 2 - k]}
  <2> HIDE DEF loop, h
  <2>1. 0 \in S
    <3>1. /\ N + 1 > N /\ N + 2 > N /\ N + 1 \in 1 .. N + 2 /\ N + 2 \in 1 .. N + 2
          /\ N + 1 - 0 = N + 1 /\ N + 2 - 0 = N + 2 /\ 0 \in 0 .. N
      BY <1>2
    <3> QED
      BY <1>5, <1>8, <3>1
  <2>2. ASSUME NEW k \in 0 .. N - 1, k \in S PROVE k + 1 \in S
    <3> DEFINE i == N - k
    <3>1. /\ i \in 1 .. N /\ N + 1 - (k + 1) = i /\ N + 2 - (k + 1) = i + 1 /\ k + 1 \in 0 .. N
          /\ N + 1 - k = i + 1 /\ N + 2 - k = i + 2 /\ i \in 1 .. N + 2
      BY <1>2
    <3>2. loop[i + 1] = h[i + 1] /\ loop[i + 2] = h[i + 2]
      BY <2>2, <3>1
    <3> HIDE DEF i
    <3>3. loop[i] = h[i]
      BY <1>5, <1>8, <3>1, <3>2
    <3> QED
      BY <3>1, <3>2, <3>3
  <2>3. \A k \in 0 .. N : k \in S
    <3> HIDE DEF S
    <3>1. \A k \in 0 .. N - 1 : k \in S => k + 1 \in S
      BY <2>2
    <3>2. N \in Nat
      BY <1>2
    <3> HIDE DEF N
    <3> QED
      BY ONLY <2>1, <3>1, <3>2, UpTo
  <2>4. N \in S
    BY <1>2, <2>3
  <2>5. N + 1 - N = 1
    BY <1>2
  <2> QED
    BY <2>4, <2>5
<1>10. h[1] = g[1]
  <2>1. 1 \in 1 .. N + 2 /\ g[1] \in Nat /\ 1 - 1 = 0
    BY <1>2, <1>4
  <2>2. h[1] = Shift(1 - 1, g[1])
    BY <2>1
  <2> QED
    BY <2>1, <2>2 DEF Shift
<1> HIDE DEF loop, h
<1> QED
  BY <1>1, <1>3, <1>9, <1>10 DEF CutRule

(* From the same place on, two texts are cut alike.                           *)
LEMMA CutShifts ==
    ASSUME NEW w \in Texts, NEW v \in Texts, NEW delimiter, NEW f, NEW g,
           CutRule(f, w \o v, delimiter), CutRule(g, v, delimiter)
    PROVE  \A i \in 1 .. Len(v) + 2 : f[Len(w) + i] = g[i]
<1> DEFINE s == w \o v  d == Len(w)  M == Len(v)
<1>1. d \in Nat /\ M \in Nat /\ Len(s) = d + M /\ s \in Texts /\ 0 \in Nat
  BY TextsJoin
<1>2. \A i \in 1 .. M : s[d + i] = v[i]
  BY JoinedAt
<1> DEFINE one == CutStep(s, delimiter)  two == CutStep(v, delimiter)
           last == 0  V == Nat
<1>3. DownRule(f, last, one, Len(s), V) /\ DownRule(g, last, two, M, V) /\ last \in V
  BY DEF CutRule
<1>4. ASSUME NEW i \in 1 .. M, NEW x \in Nat \X Nat
      PROVE  one[<<d + i, x>>] = two[<<i, x>>]
  <2>1. d + i \in 1 .. Len(s) /\ (d + i < Len(s) <=> i < M)
    BY <1>1
  <2>2. s[d + i] = v[i] /\ (i < M => s[(d + i) + 1] = v[i + 1])
    <3>1. i < M => i + 1 \in 1 .. M /\ d + (i + 1) = (d + i) + 1
      BY <1>1
    <3> QED
      BY <1>2, <3>1
  <2> HIDE DEF s, d, M
  <2>3. one[<<d + i, x>>] = CutTurn(s, delimiter, d + i, x[1], x[2])
    BY <2>1, <1>1, CutSteps
  <2>4. two[<<i, x>>] = CutTurn(v, delimiter, i, x[1], x[2])
    BY CutSteps DEF M
  <2>5. CutTurn(s, delimiter, d + i, x[1], x[2]) = CutTurn(v, delimiter, i, x[1], x[2])
    BY <2>1, <2>2 DEF CutTurn, M
  <2> QED
    BY <2>3, <2>4, <2>5
<1>5. SameSteps(one, two, d, M, V)
  BY <1>4 DEF SameSteps
<1> HIDE DEF s, d, M, one, two, last, V
<1>6. \A i \in 1 .. M + 2 : f[d + i] = g[i]
  BY <1>1, <1>3, <1>5, DownAgrees
<1> QED
  BY <1>6 DEF d, M

(* What CutAt does with a text that begins with a character.                  *)
LEMMA CutTurned ==
    ASSUME NEW w \in Texts, NEW v \in Texts, Len(w) >= 1, NEW delimiter
    PROVE  \E other \in Nat :
             /\ Len(w) = 1 => CutAt(w \o v, delimiter)
                                = CutTurn(w \o v, delimiter, 1, CutAt(v, delimiter), other)
             /\ Len(w) = 2 => CutAt(w \o v, delimiter)
                                = CutTurn(w \o v, delimiter, 1, other, CutAt(v, delimiter))
<1> DEFINE s == w \o v
<1>1. s \in Texts /\ Len(s) = Len(w) + Len(v) /\ Len(w) \in Nat /\ Len(v) \in Nat
  BY TextsJoin
<1>2. PICK f : CutRule(f, s, delimiter)
  BY <1>1, CutGoes
<1>3. PICK g : CutRule(g, v, delimiter)
  BY CutGoes
<1>4. f[Len(w) + 1] = CutAt(v, delimiter)
  <2>1. 1 \in 1 .. Len(v) + 2
    BY <1>1
  <2>2. \A i \in 1 .. Len(v) + 2 : f[Len(w) + i] = g[i]
    BY <1>2, <1>3, CutShifts
  <2> QED
    BY <2>1, <2>2, <1>3 DEF CutRule
<1> HIDE DEF s
<1>5. /\ 1 \in 1 .. Len(s) /\ 1 + 1 = 2 /\ 1 + 2 = 3 /\ 2 + 1 = 3
      /\ 2 \in 1 .. Len(s) + 2 /\ 3 \in 1 .. Len(s) + 2
  BY <1>1
<1> DEFINE x == <<f[2], f[3]>>
<1>6. f[2] \in Nat /\ f[3] \in Nat /\ CutAt(s, delimiter) = CutStep(s, delimiter)[<<1, x>>]
  BY <1>2, <1>5 DEF CutRule, DownRule
<1>7. x \in Nat \X Nat /\ x[1] = f[2] /\ x[2] = f[3]
  BY <1>6
<1> HIDE DEF x
<1>8. CutAt(s, delimiter) = CutTurn(s, delimiter, 1, f[2], f[3])
  BY <1>1, <1>5, <1>6, <1>7, CutSteps
<1>9. CASE Len(w) = 1
  <2>1. CutAt(s, delimiter) = CutTurn(s, delimiter, 1, CutAt(v, delimiter), f[3])
    BY <1>4, <1>5, <1>8, <1>9
  <2> QED
    BY <2>1, <1>6, <1>9 DEF s
<1>10. CASE Len(w) = 2
  <2>1. CutAt(s, delimiter) = CutTurn(s, delimiter, 1, f[2], CutAt(v, delimiter))
    BY <1>4, <1>5, <1>8, <1>10
  <2> QED
    BY <2>1, <1>6, <1>10 DEF s
<1>11. CASE Len(w) # 1 /\ Len(w) # 2
  BY <1>6, <1>11
<1> QED
  BY <1>9, <1>10, <1>11

(* The cut is looked for from the left, and not in a doubled delimiter.        *)
LEMMA CutIs ==
    ASSUME NEW delimiter \in Lexemes
    PROVE  /\ \A s \in Texts : CutAt(s, delimiter) \in Nat
           /\ CutAt(<<>>, delimiter) = 0
           /\ \A c \in Lexemes, v \in Texts :
                c # delimiter => CutAt(<<c>> \o v, delimiter) = Shift(1, CutAt(v, delimiter))
           /\ \A v \in Texts :
                /\ v = <<>> \/ v[1] # delimiter => CutAt(<<delimiter>> \o v, delimiter) = 1
                /\ CutAt(<<delimiter, delimiter>> \o v, delimiter) = Shift(2, CutAt(v, delimiter))
<1>1. ASSUME NEW s \in Texts PROVE CutAt(s, delimiter) \in Nat
  <2>1. PICK f : CutRule(f, s, delimiter)
    BY CutGoes
  <2>2. Len(s) \in Nat /\ 1 \in 1 .. Len(s) + 2
    BY TextsJoin
  <2> QED
    BY <2>1, <2>2 DEF CutRule, DownRule
<1>2. CutAt(<<>>, delimiter) = 0
  <2>1. <<>> \in Texts /\ Len(<<>>) = 0
    BY TextsJoin
  <2>2. PICK f : CutRule(f, <<>>, delimiter)
    BY <2>1, CutGoes
  <2> QED
    BY <2>1, <2>2 DEF CutRule, DownRule
<1>3. ASSUME NEW c \in Lexemes, NEW v \in Texts
      PROVE  /\ c # delimiter => CutAt(<<c>> \o v, delimiter) = Shift(1, CutAt(v, delimiter))
             /\ c = delimiter /\ (v = <<>> \/ v[1] # delimiter) => CutAt(<<c>> \o v, delimiter) = 1
  <2> DEFINE s == <<c>> \o v
  <2>1. /\ <<c>> \in Texts /\ Len(<<c>>) = 1 /\ Len(v) \in Nat /\ (v = <<>> <=> ~(Len(v) >= 1))
        /\ 1 + 1 = 2
    BY TextsJoin
  <2>2. Len(s) = 1 + Len(v) /\ s[1] = c /\ (Len(v) >= 1 => s[1 + 1] = v[1])
    <3>1. Len(v) >= 1 => 1 \in 1 .. Len(v)
      BY <2>1
    <3> QED
      BY <3>1, FirstOfOne
  <2>3. PICK other : CutAt(s, delimiter) = CutTurn(s, delimiter, 1, CutAt(v, delimiter), other)
    <3>1. 1 >= 1
      OBVIOUS
    <3> DEFINE w == <<c>>
    <3>2. w \in Texts /\ Len(w) = 1
      BY <2>1
    <3> HIDE DEF w
    <3>3. \E other \in Nat :
            CutAt(w \o v, delimiter) = CutTurn(w \o v, delimiter, 1, CutAt(v, delimiter), other)
      BY <3>1, <3>2, CutTurned
    <3> QED
      BY <3>3 DEF w
  <2> HIDE DEF s
  <2>4. c # delimiter => CutAt(s, delimiter) = Shift(1, CutAt(v, delimiter))
    BY <2>2, <2>3 DEF CutTurn
  <2>5. ASSUME c = delimiter, v = <<>> \/ v[1] # delimiter PROVE CutAt(s, delimiter) = 1
    <3>1. ~(1 < Len(s) /\ s[1 + 1] = delimiter)
      BY <2>1, <2>2, <2>5
    <3> QED
      BY <3>1, <2>2, <2>3, <2>5 DEF CutTurn
  <2> QED
    BY <2>4, <2>5 DEF s
<1>4. ASSUME NEW v \in Texts
      PROVE  CutAt(<<delimiter, delimiter>> \o v, delimiter) = Shift(2, CutAt(v, delimiter))
  <2> DEFINE c == delimiter  s == <<c, c>> \o v
  <2>1. <<c, c>> \in Texts /\ Len(<<c, c>>) = 2 /\ Len(v) \in Nat /\ 1 + 1 = 2
    BY TextsJoin
  <2>2. Len(s) = 2 + Len(v) /\ s[1] = c /\ s[2] = c
    BY FirstOfTwo
  <2>3. PICK other : CutAt(s, delimiter) = CutTurn(s, delimiter, 1, other, CutAt(v, delimiter))
    <3>1. 2 >= 1
      OBVIOUS
    <3> DEFINE w == <<c, c>>
    <3>2. w \in Texts /\ Len(w) = 2
      BY <2>1
    <3> HIDE DEF w
    <3>3. \E other \in Nat :
            CutAt(w \o v, delimiter) = CutTurn(w \o v, delimiter, 1, other, CutAt(v, delimiter))
      BY <3>1, <3>2, CutTurned
    <3> QED
      BY <3>3 DEF w
  <2> HIDE DEF s
  <2>4. 1 < Len(s)
    BY <2>1, <2>2
  <2>5. CutAt(s, delimiter) = Shift(2, CutAt(v, delimiter))
    BY <2>1, <2>2, <2>3, <2>4 DEF CutTurn
  <2> QED
    BY <2>5 DEF s
<1> QED
  BY <1>1, <1>2, <1>3, <1>4

-----------------------------------------------------------------------------
(* How often a lexeme is in a text                                             *)

At(s, c) == {i \in DOMAIN s : s[i] = c}

(* A lexeme of one character is in two texts, joined, as often as in each.    *)
LEMMA CountJoins ==
    ASSUME NEW u \in Texts, NEW v \in Texts, NEW c
    PROVE  /\ Count(u, c) \in Nat /\ Count(v, c) \in Nat
           /\ Count(u \o v, c) = Count(u, c) + Count(v, c)
<1> DEFINE a == Len(u)  b == Len(v)  both == u \o v
<1>1. /\ a \in Nat /\ b \in Nat /\ DOMAIN u = 1 .. a /\ DOMAIN v = 1 .. b
      /\ DOMAIN both = 1 .. a + b
  BY TextsJoin
<1>2. /\ \A i \in 1 .. a : both[i] = u[i]
      /\ \A i \in 1 .. b : both[a + i] = v[i]
  BY JoinedAt
<1>3. At(u, c) \subseteq 1 .. a /\ At(v, c) \subseteq 1 .. b
  BY <1>1 DEF At
<1> HIDE DEF a, b, both
<1>4. At(both, c) = At(u, c) \cup Further(a, At(v, c))
  <2>1. ASSUME NEW i \in At(both, c) PROVE i \in At(u, c) \cup Further(a, At(v, c))
    <3>1. i \in 1 .. a + b /\ both[i] = c
      BY <1>1 DEF At
    <3>2. CASE i <= a
      BY <1>1, <1>2, <3>1, <3>2 DEF At
    <3>3. CASE i > a
      <4>1. i - a \in 1 .. b /\ i = a + (i - a)
        BY <1>1, <3>1, <3>3
      <4>2. i - a \in At(v, c)
        BY <4>1, <3>1, <1>1, <1>2 DEF At
      <4> QED
        BY <4>1, <4>2 DEF Further
    <3> QED
      BY <1>1, <3>1, <3>2, <3>3
  <2>2. ASSUME NEW i \in At(u, c) PROVE i \in At(both, c)
    <3>1. i \in 1 .. a /\ u[i] = c /\ i \in 1 .. a + b
      BY <1>1 DEF At
    <3> QED
      BY <3>1, <1>1, <1>2 DEF At
  <2>3. ASSUME NEW i \in At(v, c) PROVE a + i \in At(both, c)
    <3>1. i \in 1 .. b /\ v[i] = c /\ a + i \in 1 .. a + b
      BY <1>1 DEF At
    <3> QED
      BY <3>1, <1>1, <1>2 DEF At
  <2> QED
    BY <2>1, <2>2, <2>3 DEF Further
<1>5. /\ Cardinality(At(u, c)) \in Nat /\ Cardinality(At(v, c)) \in Nat
      /\ Cardinality(At(both, c)) = Cardinality(At(u, c)) + Cardinality(At(v, c))
  BY <1>1, <1>3, <1>4, CountTogether
<1>6. \A s : Count(s, c) = Cardinality(At(s, c))
  BY DEF Count, At
<1> QED
  BY <1>5, <1>6 DEF both

(* And how often it is in a text of at most one.                              *)
LEMMA CountOfOne ==
    ASSUME NEW d \in Lexemes, NEW c
    PROVE  Count(<<d>>, c) = (IF d = c THEN 1 ELSE 0) /\ Count(<<>>, c) = 0
<1>1. At(<<d>>, c) = (IF d = c THEN {1} ELSE {}) /\ At(<<>>, c) = {}
  BY DEF At
<1>2. Cardinality({1}) = 1 /\ Cardinality({}) = 0
  BY FS_Singleton, FS_EmptySet
<1>3. \A s : Count(s, c) = Cardinality(At(s, c))
  BY DEF Count, At
<1> QED
  BY <1>1, <1>2, <1>3

-----------------------------------------------------------------------------
(* What becomes of a text as it is written                                     *)

First(t, k) == SubSeq(t, 1, k)

(* One more character of a text, and what it is written as.                   *)
LEMMA OneMore ==
    ASSUME NEW t \in Texts
    PROVE  /\ First(t, 0) = <<>> /\ First(t, Len(t)) = t
           /\ \A k \in 0 .. Len(t) : First(t, k) \in Texts
           /\ \A k \in 1 .. Len(t) : First(t, k) = First(t, k - 1) \o <<t[k]>>
<1>1. t \in Seq(Lexemes) /\ Len(t) \in Nat /\ \A i \in 1 .. Len(t) : t[i] \in Lexemes
  BY TextsAre, TextsJoin
<1>2. First(t, 0) = <<>>
  BY SubSeqEmpty DEF First
<1>3. First(t, Len(t)) = t
  BY <1>1, SubSeqFull DEF First
<1>4. ASSUME NEW k \in 0 .. Len(t) PROVE First(t, k) \in Texts
  <2>1. \A i \in 1 .. k : t[i] \in Lexemes
    BY <1>1
  <2>2. SubSeq(t, 1, k) \in Seq(Lexemes)
    BY <1>1, <2>1, SubSeqProperties
  <2> QED
    BY <2>2, TextsAre DEF First
<1>5. ASSUME NEW k \in 1 .. Len(t) PROVE First(t, k) = First(t, k - 1) \o <<t[k]>>
  <2>1. 1 \in 1 .. Len(t) /\ k \in 1 .. Len(t)
    BY <1>1
  <2>2. SubSeq(t, 1, k) = SubSeq(t, 1, k - 1) \o <<t[k]>>
    BY <1>1, <2>1, SubSeqRecursiveSecond
  <2> QED
    BY <2>2 DEF First
<1> QED
  BY <1>2, <1>3, <1>4, <1>5

(* A character as it is written is stripped to itself, and never cut at.      *)
LEMMA DoubledGoes ==
    ASSUME NEW c \in Lexemes, NEW v \in Texts
    PROVE  /\ Stripped(Doubled(c) \o v) = <<c>> \o Stripped(v)
           /\ \A delimiter \in Brackets :
                CutAt(Doubled(c) \o v, delimiter) = Shift(Len(Doubled(c)), CutAt(v, delimiter))
           /\ Count(Doubled(c), Less) = 2 * Count(<<c>>, Less)
<1>1. Stripped(Doubled(c) \o v) = <<c>> \o Stripped(v)
  BY StrippedIs DEF Doubled
<1>2. ASSUME NEW delimiter \in Brackets
      PROVE  CutAt(Doubled(c) \o v, delimiter) = Shift(Len(Doubled(c)), CutAt(v, delimiter))
  <2>1. delimiter \in Lexemes
    BY MarksAre
  <2>2. Len(<<c>>) = 1 /\ Len(<<c, c>>) = 2
    BY TextsJoin
  <2>3. CASE c = delimiter
    BY <2>1, <2>2, <2>3, CutIs DEF Doubled
  <2>4. CASE c # delimiter
    <3>1. CutAt(<<c>> \o v, delimiter) = Shift(1, CutAt(v, delimiter))
      BY <2>1, <2>4, CutIs
    <3>2. <<c>> \o v \in Texts /\ <<c, c>> \o v = <<c>> \o (<<c>> \o v)
      BY FirstOfOne, FirstOfTwo
    <3>3. CutAt(<<c>> \o (<<c>> \o v), delimiter) = Shift(1, CutAt(<<c>> \o v, delimiter))
      BY <2>1, <2>4, <3>2, CutIs
    <3>4. CutAt(v, delimiter) \in Nat
      BY <2>1, CutIs
    <3>5. Shift(1, Shift(1, CutAt(v, delimiter))) = Shift(2, CutAt(v, delimiter))
      BY <3>4 DEF Shift
    <3>6. CASE c \in Brackets
      <4>1. Doubled(c) = <<c, c>>
        BY <3>6 DEF Doubled
      <4> QED
        BY <2>2, <3>1, <3>2, <3>3, <3>5, <4>1
    <3>7. CASE c \notin Brackets
      <4>1. Doubled(c) = <<c>>
        BY <3>7 DEF Doubled
      <4> QED
        BY <2>2, <3>1, <4>1
    <3> QED
      BY <3>6, <3>7
  <2> QED
    BY <2>3, <2>4
<1>3. Count(Doubled(c), Less) = 2 * Count(<<c>>, Less)
  <2>1. <<c>> \in Texts /\ <<>> \in Texts
    BY TextsJoin
  <2>2. <<c, c>> = <<c>> \o <<c>>
    <3>1. <<c, c>> \o <<>> = <<c>> \o (<<c>> \o <<>>)
      BY <2>1, FirstOfTwo
    <3>2. <<c, c>> \o <<>> = <<c, c>> /\ <<c>> \o <<>> = <<c>>
      BY <2>1, TextsJoin
    <3> QED
      BY <3>1, <3>2
  <2>3. Count(<<c>> \o <<c>>, Less) = Count(<<c>>, Less) + Count(<<c>>, Less)
        /\ Count(<<c>>, Less) \in Nat
    BY <2>1, CountJoins
  <2>4. CASE c \in Brackets
    <3>1. Doubled(c) = <<c, c>>
      BY <2>4 DEF Doubled
    <3>2. Count(Doubled(c), Less) = Count(<<c>> \o <<c>>, Less)
      BY <2>2, <3>1
    <3> QED
      BY <2>3, <3>2
  <2>5. CASE c \notin Brackets
    <3>1. Doubled(c) = <<c>> /\ c # Less
      BY <2>5, MarksAre DEF Doubled
    <3>2. Count(<<c>>, Less) = 0
      BY <3>1, CountOfOne
    <3> QED
      BY <3>1, <3>2
  <2> QED
    BY <2>4, <2>5
<1> QED
  BY <1>1, <1>2, <1>3

(* Joining texts, in either order.                                            *)
LEMMA JoinTwice ==
    ASSUME NEW u \in Texts, NEW v \in Texts, NEW w \in Texts
    PROVE  (u \o v) \o w = u \o (v \o w)
  BY TextsJoin

\* What has been put together comes apart again.
(* A text that is two texts joined is cut where they meet.                    *)
LEMMA JoinSplits ==
    ASSUME NEW u \in Texts, NEW v \in Texts
    PROVE  /\ SubSeq(u \o v, 1, Len(u)) = u
           /\ SubSeq(u \o v, Len(u) + 1, Len(u \o v)) = v
<1> DEFINE s == u \o v  L == Len(u)  M == Len(v)
<1>1. /\ s \in Texts /\ Len(s) = L + M /\ L \in Nat /\ M \in Nat
  BY JoinIs
<1>2. (\A i \in 1 .. L : s[i] = u[i]) /\ \A i \in 1 .. M : s[L + i] = v[i]
  BY JoinedAt
<1>3. u \in Seq(Lexemes) /\ v \in Seq(Lexemes) /\ \A i \in 1 .. Len(s) : s[i] \in Lexemes
  BY <1>1, TextsAre, TextsJoin
<1> HIDE DEF s
<1>4. SubSeq(s, 1, L) = u
  <2>1. 1 \in Int /\ L \in Int /\ \A i \in 1 .. L : s[i] \in Lexemes
    <3>1. \A i \in 1 .. L : i \in 1 .. Len(s)
      BY <1>1
    <3> QED
      BY <1>1, <1>3, <3>1
  <2>2. /\ SubSeq(s, 1, L) \in Seq(Lexemes)
        /\ Len(SubSeq(s, 1, L)) = IF 1 <= L THEN L - 1 + 1 ELSE 0
        /\ \A i \in 1 .. L - 1 + 1 : SubSeq(s, 1, L)[i] = s[1 + i - 1]
    BY <2>1, SubSeqProperties
  <2>3. L - 1 + 1 = L /\ \A i \in 1 .. L : 1 + i - 1 = i
    BY <1>1
  <2>4. Len(SubSeq(s, 1, L)) = L /\ \A i \in 1 .. L : SubSeq(s, 1, L)[i] = u[i]
    BY <1>1, <1>2, <2>2, <2>3
  <2> QED
    BY <1>3, <2>2, <2>4, SeqEqual
<1>5. SubSeq(s, L + 1, Len(s)) = v
  <2> DEFINE m == L + 1  n == Len(s)
  <2>1. m \in Int /\ n \in Int /\ \A i \in m .. n : s[i] \in Lexemes
    <3>1. \A i \in m .. n : i \in 1 .. Len(s)
      BY <1>1
    <3> QED
      BY <1>1, <1>3, <3>1
  <2>2. n - m + 1 = M /\ (m <= n <=> M >= 1)
    BY <1>1
  <2>3. \A i \in 1 .. M : s[m + i - 1] = v[i]
    <3>1. \A i \in 1 .. M : m + i - 1 = L + i
      BY <1>1
    <3> QED
      BY <1>2, <3>1
  <2>4. /\ SubSeq(s, m, n) \in Seq(Lexemes)
        /\ Len(SubSeq(s, m, n)) = IF m <= n THEN n - m + 1 ELSE 0
        /\ \A i \in 1 .. n - m + 1 : SubSeq(s, m, n)[i] = s[m + i - 1]
    BY <2>1, SubSeqProperties
  <2> HIDE DEF m, n
  <2>5. Len(SubSeq(s, m, n)) = M /\ \A i \in 1 .. M : SubSeq(s, m, n)[i] = v[i]
    BY <1>1, <2>2, <2>3, <2>4
  <2>6. SubSeq(s, m, n) = v
    BY <1>3, <2>4, <2>5, SeqEqual
  <2> QED
    BY <2>6 DEF m, n
<1> QED
  BY <1>4, <1>5 DEF s

\* One more lexeme of a text, as it is written
MoreWritten(upTo, t, k) ==
    /\ k + 1 \in 1 .. Len(t) /\ k + 1 \in 0 .. Len(t) /\ k \in 0 .. Len(t)
    /\ t[k + 1] \in Lexemes /\ Doubled(t[k + 1]) \in Texts /\ upTo[k] \in Texts
    /\ upTo[k + 1] = upTo[k] \o Doubled(t[k + 1])
    /\ First(t, k + 1) = First(t, k) \o <<t[k + 1]>> /\ First(t, k) \in Texts
    /\ \A v \in Texts : /\ Doubled(t[k + 1]) \o v \in Texts
                        /\ upTo[k + 1] \o v = upTo[k] \o (Doubled(t[k + 1]) \o v)

(* A text is written a character at a time.                                   *)
LEMMA EscapedMore ==
    ASSUME NEW t \in Texts, NEW upTo, EscapedRule(upTo, t)
    PROVE  \A k \in 0 .. Len(t) - 1 : MoreWritten(upTo, t, k)
<1> SUFFICES ASSUME NEW k \in 0 .. Len(t) - 1 PROVE MoreWritten(upTo, t, k)
  OBVIOUS
<1>1. k + 1 \in 1 .. Len(t) /\ k + 1 \in 0 .. Len(t) /\ k \in 0 .. Len(t) /\ (k + 1) - 1 = k
  BY TextsJoin
<1>2. t[k + 1] \in Lexemes /\ Doubled(t[k + 1]) \in Texts /\ upTo[k] \in Texts
  <2>1. t[k + 1] \in Lexemes
    BY <1>1, TextsJoin
  <2> QED
    BY <1>1, <2>1, DoubledIs DEF EscapedRule
<1>3. upTo[k + 1] = upTo[k] \o Doubled(t[k + 1])
  BY <1>1 DEF EscapedRule
<1>4. First(t, k + 1) = First(t, k) \o <<t[k + 1]>> /\ First(t, k) \in Texts
  BY <1>1, OneMore
<1>5. \A v \in Texts : Doubled(t[k + 1]) \o v \in Texts
  BY <1>2, TextsJoin
<1>6. \A v \in Texts : upTo[k + 1] \o v = upTo[k] \o (Doubled(t[k + 1]) \o v)
  <2>1. ASSUME NEW v \in Texts
        PROVE  (upTo[k] \o Doubled(t[k + 1])) \o v = upTo[k] \o (Doubled(t[k + 1]) \o v)
    BY <1>2, JoinTwice
  <2> QED
    BY <1>3, <2>1
<1> QED
  BY <1>1, <1>2, <1>3, <1>4, <1>5, <1>6, Zenon DEF MoreWritten

(* A text is read back from what it is written as, whatever follows.           *)
LEMMA TextGoes ==
    ASSUME NEW t \in Texts
    PROVE  /\ \A v \in Texts : Stripped(Escaped(t) \o v) = t \o Stripped(v)
           /\ \A delimiter \in Brackets, v \in Texts :
                CutAt(Escaped(t) \o v, delimiter) = Shift(Len(Escaped(t)), CutAt(v, delimiter))
           /\ Count(Escaped(t), Less) = 2 * Count(t, Less)
<1> DEFINE N == Len(t)
<1>1. N \in Nat /\ \A k \in 1 .. N : t[k] \in Lexemes /\ Doubled(t[k]) \in Texts
  BY TextsJoin, DoubledIs
<1>2. PICK upTo : EscapedRule(upTo, t)
  BY EscapedIs
<1>3. /\ \A k \in 0 .. N : upTo[k] \in Texts
      /\ upTo[0] = <<>> /\ Escaped(t) = upTo[N]
      /\ \A k \in 1 .. N : upTo[k] = upTo[k - 1] \o Doubled(t[k])
  BY <1>2 DEF EscapedRule
<1>4. ASSUME NEW k \in 0 .. N - 1
      PROVE  /\ k + 1 \in 1 .. N /\ k + 1 \in 0 .. N /\ k \in 0 .. N
             /\ t[k + 1] \in Lexemes /\ Doubled(t[k + 1]) \in Texts /\ upTo[k] \in Texts
             /\ upTo[k + 1] = upTo[k] \o Doubled(t[k + 1])
             /\ First(t, k + 1) = First(t, k) \o <<t[k + 1]>> /\ First(t, k) \in Texts
             /\ \A v \in Texts : /\ Doubled(t[k + 1]) \o v \in Texts
                                 /\ upTo[k + 1] \o v = upTo[k] \o (Doubled(t[k + 1]) \o v)
  <2>1. MoreWritten(upTo, t, k)
    BY <1>2, EscapedMore
  <2> QED
    BY <2>1, Zenon DEF MoreWritten
<1>5. First(t, 0) = <<>> /\ First(t, N) = t
  BY OneMore
<1> HIDE DEF N
<1>6. \A v \in Texts : Stripped(Escaped(t) \o v) = t \o Stripped(v)
  <2> DEFINE S == {k \in 0 .. N : \A v \in Texts :
                                    Stripped(upTo[k] \o v) = First(t, k) \o Stripped(v)}
  <2>1. 0 \in S
    <3>1. ASSUME NEW v \in Texts PROVE Stripped(upTo[0] \o v) = First(t, 0) \o Stripped(v)
      <4>1. <<>> \o v = v /\ <<>> \o Stripped(v) = Stripped(v)
        BY StrippedIs, TextsJoin
      <4> QED
        BY <1>3, <1>5, <4>1
    <3> QED
      BY <1>1, <3>1
  <2>2. ASSUME NEW k \in 0 .. N - 1, k \in S PROVE k + 1 \in S
    <3> DEFINE c == t[k + 1]
    <3>1. ASSUME NEW v \in Texts PROVE Stripped(upTo[k + 1] \o v) = First(t, k + 1) \o Stripped(v)
      <4>1. /\ Stripped(upTo[k] \o (Doubled(c) \o v)) = First(t, k) \o Stripped(Doubled(c) \o v)
            /\ upTo[k + 1] \o v = upTo[k] \o (Doubled(c) \o v)
        BY <1>4, <2>2
      <4>2. Stripped(Doubled(c) \o v) = <<c>> \o Stripped(v)
        BY <1>4, DoubledGoes
      <4>3. First(t, k) \in Texts /\ <<c>> \in Texts /\ Stripped(v) \in Texts
        BY <1>4, TextsJoin, StrippedIs
      <4>4. First(t, k) \o (<<c>> \o Stripped(v)) = (First(t, k) \o <<c>>) \o Stripped(v)
        BY <4>3, TextsJoin
      <4> QED
        BY <1>4, <4>1, <4>2, <4>4
    <3> QED
      BY <1>4, <3>1
  <2>3. \A k \in 0 .. N - 1 : k \in S => k + 1 \in S
    BY <2>2
  <2> HIDE DEF S
  <2>4. \A k \in 0 .. N : k \in S
    BY ONLY <1>1, <2>1, <2>3, UpTo
  <2>5. N \in S
    BY <1>1, <2>4
  <2> QED
    BY <1>3, <1>5, <2>5 DEF S
<1>7. ASSUME NEW delimiter \in Brackets, NEW v \in Texts
      PROVE  CutAt(Escaped(t) \o v, delimiter) = Shift(Len(Escaped(t)), CutAt(v, delimiter))
  <2> DEFINE S == {k \in 0 .. N : \A x \in Texts :
                     CutAt(upTo[k] \o x, delimiter) = Shift(Len(upTo[k]), CutAt(x, delimiter))}
  <2>0. \A x \in Texts : CutAt(x, delimiter) \in Nat
    BY MarksAre, CutIs
  <2>1. 0 \in S
    <3>1. ASSUME NEW x \in Texts
          PROVE  CutAt(upTo[0] \o x, delimiter) = Shift(Len(upTo[0]), CutAt(x, delimiter))
      <4>1. <<>> \o x = x /\ Len(<<>>) = 0
        BY TextsJoin
      <4>2. Shift(0, CutAt(x, delimiter)) = CutAt(x, delimiter)
        BY <2>0 DEF Shift
      <4> QED
        BY <1>3, <4>1, <4>2
    <3> QED
      BY <1>1, <3>1
  <2>2. ASSUME NEW k \in 0 .. N - 1, k \in S PROVE k + 1 \in S
    <3> DEFINE w == Doubled(t[k + 1])
    <3>1. ASSUME NEW x \in Texts
          PROVE  CutAt(upTo[k + 1] \o x, delimiter) = Shift(Len(upTo[k + 1]), CutAt(x, delimiter))
      <4>1. /\ CutAt(upTo[k] \o (w \o x), delimiter) = Shift(Len(upTo[k]), CutAt(w \o x, delimiter))
            /\ upTo[k + 1] \o x = upTo[k] \o (w \o x)
        BY <1>4, <2>2
      <4>2. CutAt(w \o x, delimiter) = Shift(Len(w), CutAt(x, delimiter))
        BY <1>4, DoubledGoes
      <4>3. /\ Len(upTo[k]) \in Nat /\ Len(w) \in Nat
            /\ Len(upTo[k + 1]) = Len(upTo[k]) + Len(w)
        BY <1>4, JoinIs
      <4> HIDE DEF w
      <4>4. Shift(Len(upTo[k]), Shift(Len(w), CutAt(x, delimiter)))
              = Shift(Len(upTo[k + 1]), CutAt(x, delimiter))
        BY <2>0, <4>3 DEF Shift
      <4> QED
        BY <4>1, <4>2, <4>4
    <3> QED
      BY <1>4, <3>1
  <2>3. \A k \in 0 .. N - 1 : k \in S => k + 1 \in S
    BY <2>2
  <2> HIDE DEF S
  <2>4. \A k \in 0 .. N : k \in S
    BY ONLY <1>1, <2>1, <2>3, UpTo
  <2>5. N \in S
    BY <1>1, <2>4
  <2> QED
    BY <1>3, <2>5 DEF S
<1>8. Count(Escaped(t), Less) = 2 * Count(t, Less)
  <2> DEFINE S == {k \in 0 .. N : Count(upTo[k], Less) = 2 * Count(First(t, k), Less)}
  <2>1. 0 \in S
    <3>1. Count(<<>>, Less) = 0
      BY MarksAre, CountOfOne
    <3> QED
      BY <1>1, <1>3, <1>5, <3>1
  <2>2. ASSUME NEW k \in 0 .. N - 1, k \in S PROVE k + 1 \in S
    <3> DEFINE c == <<t[k + 1]>>  d == Doubled(t[k + 1])  u == upTo[k]  f == First(t, k)
    <3>1. c \in Texts /\ d \in Texts /\ u \in Texts /\ f \in Texts /\ k + 1 \in 0 .. N
      BY <1>4, TextsJoin
    <3>2. Count(d, Less) = 2 * Count(c, Less)
      <4>1. <<>> \in Texts
        BY TextsJoin
      <4> QED
        BY <1>4, <4>1, DoubledGoes
    <3>3. Count(u, Less) = 2 * Count(f, Less)
      BY <2>2
    <3>4. Count(upTo[k + 1], Less) = Count(u \o d, Less)
          /\ Count(First(t, k + 1), Less) = Count(f \o c, Less)
      BY <1>4
    <3> HIDE DEF c, d, u, f
    <3>5. /\ Count(u \o d, Less) = Count(u, Less) + Count(d, Less)
          /\ Count(f \o c, Less) = Count(f, Less) + Count(c, Less)
          /\ Count(f, Less) \in Nat /\ Count(c, Less) \in Nat
      BY <3>1, CountJoins
    <3>6. Count(upTo[k + 1], Less) = 2 * Count(First(t, k + 1), Less)
      BY <3>2, <3>3, <3>4, <3>5
    <3> QED
      BY <3>1, <3>6
  <2>3. \A k \in 0 .. N - 1 : k \in S => k + 1 \in S
    BY <2>2
  <2> HIDE DEF S
  <2>4. \A k \in 0 .. N : k \in S
    BY ONLY <1>1, <2>1, <2>3, UpTo
  <2>5. N \in S
    BY <1>1, <2>4
  <2> QED
    BY <1>3, <1>5, <2>5 DEF S
<1> QED
  BY <1>6, <1>7, <1>8

-----------------------------------------------------------------------------
(* What becomes of the name of a tag                                           *)

\* A name that a tag can have
Nameable(name) ==
    /\ name \in Texts /\ name # <<>>
    /\ \A j \in 1 .. Len(name) : name[j] \notin Brackets /\ name[j] \notin Breaks

(* A name is stripped to itself, and cut at no bracket.                       *)
LEMMA NameGoes ==
    ASSUME NEW name, Nameable(name)
    PROVE  Escaped(name) = name /\ NameOf(name) = name /\ Count(name, Less) = 0
<1> DEFINE N == Len(name)
<1>1. /\ name \in Texts /\ N \in Nat /\ \A k \in 1 .. N : name[k] \in Lexemes
      /\ \A k \in 1 .. N : name[k] \notin Brackets /\ name[k] \notin Breaks
  BY TextsJoin DEF Nameable
<1>2. /\ First(name, 0) = <<>> /\ First(name, N) = name
      /\ \A k \in 1 .. N : First(name, k) = First(name, k - 1) \o <<name[k]>>
  BY <1>1, OneMore
<1>3. Escaped(name) = name
  <2>1. PICK upTo : EscapedRule(upTo, name)
    BY <1>1, EscapedIs
  <2>2. /\ upTo[0] = <<>> /\ Escaped(name) = upTo[N]
        /\ \A k \in 1 .. N : upTo[k] = upTo[k - 1] \o <<name[k]>>
    BY <1>1, <2>1 DEF EscapedRule, Doubled
  <2> HIDE DEF N
  <2> DEFINE S == {k \in 0 .. N : upTo[k] = First(name, k)}
  <2>3. 0 \in S
    BY <1>1, <1>2, <2>2
  <2>4. ASSUME NEW k \in 0 .. N - 1, k \in S PROVE k + 1 \in S
    <3>1. k + 1 \in 1 .. N /\ k + 1 \in 0 .. N /\ (k + 1) - 1 = k
      BY <1>1
    <3>2. upTo[k + 1] = upTo[k] \o <<name[k + 1]>>
          /\ First(name, k + 1) = First(name, k) \o <<name[k + 1]>>
      BY <1>2, <2>2, <3>1
    <3> QED
      BY <2>4, <3>1, <3>2
  <2>5. \A k \in 0 .. N - 1 : k \in S => k + 1 \in S
    BY <2>4
  <2> HIDE DEF S
  <2>6. \A k \in 0 .. N : k \in S
    BY ONLY <1>1, <2>3, <2>5, UpTo
  <2>7. N \in S
    BY <1>1, <2>6
  <2> QED
    BY <1>2, <2>2, <2>7 DEF S
<1>4. NameOf(name) = name
  <2> DEFINE Turn(f, i) == IF i = 0 THEN <<>> ELSE IF name[i] \in Breaks THEN f[i - 1]
                           ELSE Append(f[i - 1], name[i])
             Rule(f) == f = [i \in 0 .. N |-> Turn(f, i)]
             loop == CHOOSE f : Rule(f)
             h == [i \in 0 .. N |-> First(name, i)]
  <2>1. NameOf(name) = loop[N]
    BY Zenon DEF NameOf
  <2>2. ASSUME NEW i \in 0 .. N PROVE h[i] = Turn(h, i)
    <3>1. CASE i = 0
      BY <1>2, <3>1
    <3>2. CASE i # 0
      <4>1. i \in 1 .. N /\ i - 1 \in 0 .. N
        BY <1>1, <3>2
      <4>2. First(name, i - 1) \in Seq(Lexemes) /\ name[i] \in Lexemes
        BY <1>1, <4>1, OneMore, TextsAre
      <4>3. First(name, i) = Append(First(name, i - 1), name[i])
        BY <1>2, <4>1, <4>2, AppendIsConcat
      <4> QED
        BY <1>1, <3>2, <4>1, <4>3
    <3> QED
      BY <3>1, <3>2
  <2>3. Rule(h)
    <3>1. h = [i \in 0 .. N |-> h[i]]
      OBVIOUS
    <3> HIDE DEF h, Turn
    <3> QED
      BY <2>2, <3>1
  <2>4. Rule(loop)
    <3> HIDE DEF Rule
    <3> QED
      BY <2>3
  <2>5. \A i \in 0 .. N : loop[i] = Turn(loop, i)
    <3> HIDE DEF loop, Turn
    <3> QED
      BY <2>4
  <2>6. \A i \in 0 .. N : h[i] = First(name, i)
    OBVIOUS
  <2> HIDE DEF loop, h, N
  <2> DEFINE S == {k \in 0 .. N : loop[k] = h[k]}
  <2>7. 0 \in S
    <3>1. 0 \in 0 .. N
      BY <1>1
    <3> QED
      BY <2>2, <2>5, <3>1
  <2>8. ASSUME NEW k \in 0 .. N - 1, k \in S PROVE k + 1 \in S
    <3>1. k + 1 \in 0 .. N /\ (k + 1) - 1 = k /\ k + 1 # 0
      BY <1>1
    <3>2. loop[k + 1] = Turn(loop, k + 1) /\ h[k + 1] = Turn(h, k + 1)
      BY <2>2, <2>5, <3>1
    <3>3. loop[k] = h[k]
      BY <2>8
    <3>4. loop[k + 1] = h[k + 1]
      BY <3>1, <3>2, <3>3
    <3> QED
      BY <3>1, <3>4
  <2>9. \A k \in 0 .. N - 1 : k \in S => k + 1 \in S
    BY <2>8
  <2> HIDE DEF S
  <2>10. \A k \in 0 .. N : k \in S
    BY ONLY <1>1, <2>7, <2>9, UpTo
  <2>11. N \in S
    BY <1>1, <2>10
  <2> QED
    BY <1>1, <1>2, <2>1, <2>6, <2>11 DEF S
<1>5. Count(name, Less) = 0
  <2>1. At(name, Less) = {}
    BY <1>1, TextsJoin, MarksAre DEF At
  <2> QED
    BY <2>1, FS_EmptySet DEF Count, At
<1> QED
  BY <1>3, <1>4, <1>5

\* Nothing is doubled where this follows a >.
Follows(v) == v = <<>> \/ v[1] # More

(* What the opening of a tag is, before what follows it.                      *)
LEMMA OpeningSplits ==
    ASSUME NEW name \in Texts, NEW v \in Texts
    PROVE  /\ Opening(name) \o v = <<Less>> \o (name \o (<<More>> \o v))
           /\ <<More>> \o v \in Texts /\ name \o (<<More>> \o v) \in Texts
           /\ Opening(name) \in Texts /\ Len(Opening(name)) = Len(name) + 2
           /\ Opening(name)[1] = Less
<1> DEFINE less == <<Less>>  more == <<More>>
<1>1. less \in Texts /\ more \in Texts /\ Len(less) = 1 /\ Len(more) = 1 /\ less[1] = Less
  BY MarksAre, TextsJoin
<1>2. Opening(name) = (less \o name) \o more
  BY Zenon DEF Opening, Less, More
<1> HIDE DEF less, more
<1>3. less \o name \in Texts /\ Len(less \o name) = 1 + Len(name) /\ Len(name) \in Nat
  BY <1>1, JoinIs
<1>4. Opening(name) \in Texts /\ Len(Opening(name)) = Len(name) + 2
  BY <1>1, <1>2, <1>3, JoinIs
<1>5. more \o v \in Texts /\ name \o (more \o v) \in Texts
  BY <1>1, TextsJoin
<1>6. ((less \o name) \o more) \o v = less \o (name \o (more \o v))
  <2>1. ((less \o name) \o more) \o v = (less \o name) \o (more \o v)
    BY <1>1, <1>3, JoinTwice
  <2>2. (less \o name) \o (more \o v) = less \o (name \o (more \o v))
    BY <1>1, <1>5, JoinTwice
  <2> QED
    BY <2>1, <2>2
<1>7. Opening(name)[1] = Less
  <2>1. 1 \in 1 .. Len(less) /\ 1 \in 1 .. Len(less \o name)
    BY <1>1, <1>3
  <2>2. (less \o name)[1] = less[1]
    BY <1>1, <2>1, JoinedAt
  <2>3. ((less \o name) \o more)[1] = (less \o name)[1]
    BY <1>1, <1>3, <2>1, JoinedAt
  <2> QED
    BY <1>1, <1>2, <2>2, <2>3
<1> QED
  BY <1>2, <1>4, <1>5, <1>6, <1>7 DEF less, more

(* A tag is found where it begins, and its name is all up to its bracket.      *)
LEMMA OpeningGoes ==
    ASSUME NEW name, Nameable(name), NEW v \in Texts, Follows(v)
    PROVE  /\ Stripped(Opening(name) \o v) = name \o Stripped(v)
           /\ CutAt(Opening(name) \o v, Less) = 1
           /\ CutAt(name \o (<<More>> \o v), More) = Len(name) + 1
           /\ Count(Opening(name), Less) = 1
<1> DEFINE more == <<More>> \o v  rest == name \o more
<1>1. name \in Texts /\ Len(name) >= 1 /\ name[1] \notin Brackets /\ Len(name) \in Nat
  <2>1. name \in Texts /\ name # <<>>
    BY DEF Nameable
  <2>2. Len(name) >= 1 /\ Len(name) \in Nat
    BY <2>1, TextsJoin
  <2>3. 1 \in 1 .. Len(name)
    BY <2>2
  <2> QED
    BY <2>1, <2>2, <2>3 DEF Nameable
<1>2. /\ Opening(name) \o v = <<Less>> \o rest /\ more \in Texts /\ rest \in Texts
      /\ Opening(name) \in Texts
  BY <1>1, OpeningSplits
<1>3. rest[1] # Less
  <2>1. 1 \in 1 .. Len(name)
    BY <1>1
  <2>2. rest[1] = name[1]
    BY <1>1, <1>2, <2>1, JoinedAt
  <2> QED
    BY <1>1, <2>2, MarksAre
<1>4. Escaped(name) = name /\ Count(name, Less) = 0
  BY NameGoes
<1>5. Stripped(more) = Stripped(v) /\ CutAt(more, More) = 1
  BY MarksAre, StrippedIs, CutIs DEF Follows
<1>6. Stripped(rest) = name \o Stripped(more)
      /\ CutAt(rest, More) = Shift(Len(name), CutAt(more, More))
  <2>1. Stripped(Escaped(name) \o more) = name \o Stripped(more)
    BY <1>1, <1>2, TextGoes
  <2>2. CutAt(Escaped(name) \o more, More) = Shift(Len(Escaped(name)), CutAt(more, More))
    BY <1>1, <1>2, TextGoes, MarksAre
  <2> QED
    BY <1>4, <2>1, <2>2
<1> HIDE DEF rest
<1>7. Stripped(<<Less>> \o rest) = Stripped(rest) /\ CutAt(<<Less>> \o rest, Less) = 1
  BY <1>2, <1>3, MarksAre, StrippedIs, CutIs
<1>8. Shift(Len(name), 1) = Len(name) + 1
  BY DEF Shift
<1>9. Count(Opening(name), Less) = 1
  <2> DEFINE less == <<Less>>  m == <<More>>
  <2>1. Opening(name) = (less \o name) \o m
    BY Zenon DEF Opening, Less, More
  <2>2. less \in Texts /\ m \in Texts /\ Count(less, Less) = 1 /\ Count(m, Less) = 0
    BY MarksAre, TextsJoin, CountOfOne
  <2> HIDE DEF less, m
  <2>3. less \o name \in Texts
    BY <1>1, <2>2, JoinIs
  <2>4. Count(less \o name, Less) = Count(less, Less) + Count(name, Less)
    BY <1>1, <2>2, CountJoins
  <2>5. Count((less \o name) \o m, Less) = Count(less \o name, Less) + Count(m, Less)
    BY <2>2, <2>3, CountJoins
  <2> QED
    BY <1>4, <2>1, <2>2, <2>4, <2>5
<1> QED
  BY <1>2, <1>5, <1>6, <1>7, <1>8, <1>9 DEF rest

\* The end of a tag is written as the tag of its name with a slash.
(* The end of a tag is the opening of a tag with a slash in its name.         *)
LEMMA EndIsOpening ==
    ASSUME NEW name, Nameable(name)
    PROVE  Nameable(<<Slash>> \o name) /\ EndOf(name) = Opening(<<Slash>> \o name)
<1>1. name \in Texts /\ Slash \in Lexemes
  BY MarksAre DEF Nameable
<1> DEFINE n == <<Slash>> \o name
<1>2. n \in Texts /\ Len(n) = 1 + Len(name) /\ Len(name) \in Nat
  BY <1>1, FirstOfOne, TextsJoin
<1>3. n # <<>>
  BY <1>2, TextsJoin
<1>4. ASSUME NEW j \in 1 .. Len(n) PROVE n[j] \notin Brackets /\ n[j] \notin Breaks
  <2>1. CASE j = 1
    <3>1. n[1] = Slash
      BY <1>1, FirstOfOne
    <3> QED
      BY <2>1, <3>1, MarksAre
  <2>2. CASE j # 1
    <3>1. j - 1 \in 1 .. Len(name) /\ (j - 1) + 1 = j
      BY <1>2, <2>2
    <3>2. n[(j - 1) + 1] = name[j - 1]
      BY <1>1, <3>1, FirstOfOne
    <3> QED
      BY <3>1, <3>2 DEF Nameable
  <2> QED
    BY <2>1, <2>2
<1>5. EndOf(name) = Opening(n)
  <2> DEFINE less == <<Less>>  slash == <<Slash>>  more == <<More>>
  <2>1. EndOf(name) = (<<Less, Slash>> \o name) \o more
    BY Zenon DEF EndOf, Less, More, Slash
  <2>2. Opening(n) = (less \o (slash \o name)) \o more
    BY Zenon DEF Opening, Less, More
  <2>3. <<Less, Slash>> \o name = less \o (slash \o name)
    BY <1>1, MarksAre, FirstOfTwo
  <2> HIDE DEF n, less, slash, more
  <2> QED
    BY <2>1, <2>2, <2>3
<1> QED
  BY <1>2, <1>3, <1>4, <1>5 DEF Nameable

(* What a text that is written begins with.                                   *)
LEMMA EscapedBegins ==
    ASSUME NEW t \in Texts, t # <<>>
    PROVE  Escaped(t) \in Texts /\ Len(Escaped(t)) >= 1 /\ Escaped(t)[1] = t[1]
<1> DEFINE N == Len(t)
<1>1. N \in Nat /\ N >= 1 /\ \A k \in 1 .. N : t[k] \in Lexemes /\ Doubled(t[k]) \in Texts
  BY TextsJoin, DoubledIs
<1>2. PICK upTo : EscapedRule(upTo, t)
  BY EscapedIs
<1>3. /\ \A k \in 0 .. N : upTo[k] \in Texts
      /\ upTo[0] = <<>> /\ Escaped(t) = upTo[N]
      /\ \A k \in 1 .. N : upTo[k] = upTo[k - 1] \o Doubled(t[k])
  BY <1>2 DEF EscapedRule
<1> HIDE DEF N
<1> DEFINE S == {k \in 0 .. N : k >= 1 => Len(upTo[k]) >= 1 /\ upTo[k][1] = t[1]}
<1>4. 0 \in S
  BY <1>1
<1>5. ASSUME NEW k \in 0 .. N - 1, k \in S PROVE k + 1 \in S
  <2> DEFINE d == Doubled(t[k + 1])  u == upTo[k]
  <2>1. /\ k + 1 \in 1 .. N /\ k + 1 \in 0 .. N /\ (k + 1) - 1 = k /\ k \in 0 .. N
    BY <1>1
  <2>2. upTo[k + 1] = u \o d /\ d \in Texts /\ u \in Texts
    BY <1>1, <1>3, <2>1
  <2>3. Len(d) >= 1 /\ d[1] = t[k + 1]
    BY <1>1, <2>1, TextsJoin DEF Doubled
  <2>4. CASE k = 0
    <3>1. u = <<>>
      BY <1>3, <2>4
    <3>2. u \o d = d
      BY <2>2, <3>1, TextsJoin
    <3> QED
      BY <2>1, <2>2, <2>3, <2>4, <3>2
  <2>5. CASE k # 0
    <3>1. Len(u) >= 1 /\ u[1] = t[1]
      BY <1>5, <2>5
    <3> HIDE DEF u, d
    <3>2. Len(u \o d) = Len(u) + Len(d) /\ Len(u) \in Nat /\ Len(d) \in Nat
      BY <2>2, JoinIs
    <3>3. 1 \in 1 .. Len(u)
      BY <3>1, <3>2
    <3>4. (u \o d)[1] = u[1]
      BY <2>2, <3>3, JoinedAt
    <3> QED
      BY <2>1, <2>2, <2>3, <3>1, <3>2, <3>4
  <2> QED
    BY <2>4, <2>5
<1>6. \A k \in 0 .. N - 1 : k \in S => k + 1 \in S
  BY <1>5
<1> HIDE DEF S
<1>7. \A k \in 0 .. N : k \in S
  BY ONLY <1>1, <1>4, <1>6, UpTo
<1>8. N \in S
  BY <1>1, <1>7
<1> QED
  BY <1>1, <1>3, <1>8, EscapedIs DEF S

-----------------------------------------------------------------------------
(* The tags of a phrase from one on, and what they are written as              *)

(* A phrase is written a tag at a time, from the first.                       *)
LEMMA TagIsWrittenFirst ==
    ASSUME NEW tag \in Leaves, NEW q \in Seq(Leaves)
    PROVE  WrittenAs(<<tag>> \o q) = Written(tag) \o WrittenAs(q) /\ WrittenAs(<<>>) = <<>>
<1> DEFINE p == <<tag>> \o q  N == Len(q)  w == Written(tag)
<1>1. /\ p \in Seq(Leaves) /\ N \in Nat /\ Len(p) = N + 1 /\ p[1] = tag /\ w \in Texts
      /\ \A k \in 1 .. N : p[k + 1] = q[k] /\ q[k] \in Leaves
  <2>1. <<tag>> \in Seq(Leaves) /\ Len(<<tag>>) = 1 /\ <<tag>>[1] = tag
    OBVIOUS
  <2>2. /\ N \in Nat /\ p \in Seq(Leaves) /\ Len(p) = 1 + N
        /\ \A i \in 1 .. 1 + N : p[i] = IF i <= 1 THEN <<tag>>[i] ELSE q[i - 1]
    BY <2>1, ConcatProperties, LenProperties
  <2>3. p[1] = tag
    BY <2>1, <2>2
  <2>4. ASSUME NEW k \in 1 .. N PROVE p[k + 1] = q[k] /\ q[k] \in Leaves
    <3>1. k + 1 \in 1 .. 1 + N /\ ~(k + 1 <= 1) /\ (k + 1) - 1 = k
      BY <2>2
    <3> HIDE DEF p
    <3> QED
      BY <2>2, <3>1, ElementOfSeq
  <2> QED
    BY <2>2, <2>3, <2>4, WrittenIs
<1>2. PICK f : /\ f \in [0 .. Len(p) -> Texts] /\ f[0] = <<>>
               /\ \A k \in 1 .. Len(p) : f[k] = f[k - 1] \o Written(p[k])
               /\ WrittenAs(p) = f[Len(p)]
  BY <1>1, PhraseIsWritten
<1>3. PICK g : /\ g \in [0 .. N -> Texts] /\ g[0] = <<>>
               /\ \A k \in 1 .. N : g[k] = g[k - 1] \o Written(q[k])
               /\ WrittenAs(q) = g[N]
  BY PhraseIsWritten
<1>4. WrittenAs(<<>>) = <<>>
  <2>1. <<>> \in Seq(Leaves) /\ Len(<<>>) = 0
    OBVIOUS
  <2> QED
    BY <2>1, PhraseIsWritten
<1> HIDE DEF p, N, w
<1> DEFINE S == {k \in 0 .. N : f[k + 1] = w \o g[k]}
<1>5. 0 \in S
  <2>1. 1 \in 1 .. Len(p) /\ 1 - 1 = 0 /\ 0 \in 0 .. N /\ 0 + 1 = 1
    BY <1>1
  <2>2. f[1] = f[0] \o Written(p[1])
    BY <1>2, <2>1
  <2>3. <<>> \o w = w /\ w \o <<>> = w
    BY <1>1, TextsJoin
  <2>4. f[1] = w \o g[0]
    BY <1>1, <1>2, <1>3, <2>2, <2>3 DEF w
  <2> QED
    BY <2>1, <2>4
<1>6. ASSUME NEW k \in 0 .. N - 1, k \in S PROVE k + 1 \in S
  <2> DEFINE x == Written(q[k + 1])  y == g[k]
  <2>1. /\ k + 1 \in 1 .. N /\ k + 1 \in 0 .. N /\ k \in 0 .. N /\ (k + 1) - 1 = k
        /\ (k + 1) + 1 \in 1 .. Len(p) /\ ((k + 1) + 1) - 1 = k + 1
    BY <1>1
  <2>2. p[(k + 1) + 1] = q[k + 1] /\ x \in Texts /\ y \in Texts
    BY <1>1, <1>3, <2>1, WrittenIs
  <2>3. g[k + 1] = y \o x
    BY <1>3, <2>1
  <2>4. f[(k + 1) + 1] = f[k + 1] \o x
    <3>1. f[(k + 1) + 1] = f[((k + 1) + 1) - 1] \o Written(p[(k + 1) + 1])
      BY <1>2, <2>1
    <3> QED
      BY <2>1, <2>2, <3>1
  <2>5. f[k + 1] = w \o y
    BY <1>6
  <2> HIDE DEF x, y
  <2>6. (w \o y) \o x = w \o (y \o x)
    BY <1>1, <2>2, JoinTwice
  <2>7. f[(k + 1) + 1] = w \o g[k + 1]
    BY <2>3, <2>4, <2>5, <2>6
  <2> QED
    BY <2>1, <2>7
<1>7. \A k \in 0 .. N - 1 : k \in S => k + 1 \in S
  BY <1>6
<1> HIDE DEF S
<1>8. \A k \in 0 .. N : k \in S
  BY ONLY <1>1, <1>5, <1>7, UpTo
<1>9. N \in S
  BY <1>1, <1>8
<1>10. WrittenAs(p) = w \o WrittenAs(q)
  BY <1>1, <1>2, <1>3, <1>9 DEF S
<1> QED
  BY <1>4, <1>10 DEF p, w

Rest(p, i) == SubSeq(p, i, Len(p))
From(p, i) == WrittenAs(Rest(p, i))

(* So is the rest of a phrase.                                                *)
LEMMA RestGoes ==
    ASSUME NEW p \in Seq(Leaves)
    PROVE  /\ Len(p) \in Nat /\ Rest(p, 1) = p /\ Rest(p, Len(p) + 1) = <<>>
           /\ From(p, 1) = WrittenAs(p) /\ From(p, Len(p) + 1) = <<>>
           /\ \A i \in 1 .. Len(p) + 1 : Rest(p, i) \in Seq(Leaves) /\ From(p, i) \in Texts
           /\ \A i \in 1 .. Len(p) :
                /\ p[i] \in Leaves /\ Written(p[i]) \in Texts
                /\ Rest(p, i) = <<p[i]>> \o Rest(p, i + 1)
                /\ From(p, i) = Written(p[i]) \o From(p, i + 1)
<1> DEFINE N == Len(p)
<1>1. N \in Nat /\ \A i \in 1 .. N : p[i] \in Leaves /\ Written(p[i]) \in Texts
  BY LenProperties, ElementOfSeq, WrittenIs
<1>2. Rest(p, 1) = p
  BY SubSeqFull DEF Rest
<1>3. Rest(p, N + 1) = <<>>
  BY <1>1, SubSeqEmpty DEF Rest
<1>4. ASSUME NEW i \in 1 .. N + 1 PROVE Rest(p, i) \in Seq(Leaves) /\ From(p, i) \in Texts
  <2>1. i \in Int /\ N \in Int /\ \A j \in i .. N : p[j] \in Leaves
    BY <1>1
  <2>2. Rest(p, i) \in Seq(Leaves)
    BY <2>1, SubSeqProperties DEF Rest
  <2> QED
    BY <2>2, PhraseIsWritten DEF From
<1>5. ASSUME NEW i \in 1 .. N PROVE Rest(p, i) = <<p[i]>> \o Rest(p, i + 1)
  <2>1. N \in i .. N
    BY <1>1
  <2> QED
    BY <2>1, SubSeqRecursiveFirst DEF Rest
<1>6. ASSUME NEW i \in 1 .. N PROVE From(p, i) = Written(p[i]) \o From(p, i + 1)
  <2>1. i + 1 \in 1 .. N + 1
    BY <1>1
  <2>2. Rest(p, i + 1) \in Seq(Leaves) /\ p[i] \in Leaves
    BY <1>1, <1>4, <2>1
  <2>3. WrittenAs(<<p[i]>> \o Rest(p, i + 1)) = Written(p[i]) \o WrittenAs(Rest(p, i + 1))
    BY <2>2, TagIsWrittenFirst
  <2> QED
    BY <1>5, <2>3 DEF From
<1>7. From(p, N + 1) = <<>>
  <2>1. WrittenAs(<<>>) = <<>>
    <3>1. <<>> \in Seq(Leaves) /\ Len(<<>>) = 0
      OBVIOUS
    <3> QED
      BY <3>1, PhraseIsWritten
  <2> QED
    BY <1>3, <2>1 DEF From
<1>8. From(p, 1) = WrittenAs(p)
  BY <1>2 DEF From
<1> QED
  BY <1>1, <1>2, <1>3, <1>4, <1>5, <1>6, <1>7, <1>8

-----------------------------------------------------------------------------
(* The tags that a readable phrase is made of                                  *)

\* A text, in a phrase
TextAt(p, i, t) ==
    /\ p[i] = Tag(TextName, {t}, <<>>) /\ IsText(p[i]) /\ Written(p[i]) = Escaped(t)
    /\ t \in Texts /\ t # <<>>
    /\ i > 1 => ~IsText(p[i - 1]) /\ t[1] # More
    /\ Len(p) > 1 => KeepsSpaces(t)

\* A tag with nothing in it
BareAt(p, i, name) ==
    /\ p[i] = Tag(name, NoText, <<>>) /\ ~IsText(p[i]) /\ Written(p[i]) = Opening(name)
    /\ Nameable(name) /\ Occurrences(EndOf(name), From(p, i + 1)) = {}

\* A tag with a text in it
FullAt(p, i, name, t) ==
    /\ p[i] = Tag(name, {t}, <<>>) /\ ~IsText(p[i])
    /\ Written(p[i]) = (Opening(name) \o Escaped(t)) \o EndOf(name)
    /\ Nameable(name) /\ t \in Texts /\ t # <<>> /\ t[1] # More
    /\ KeepsSpaces(t) /\ Occurrences(EndOf(name), Escaped(t)) = {}

(* What a tag of a readable phrase is: a text, a tag alone or one with a text. *)
LEMMA ReadableIs ==
    ASSUME NEW p \in Seq(Leaves), Readable(p), NEW i \in 1 .. Len(p)
    PROVE  \/ \E t : TextAt(p, i, t)
           \/ \E name : BareAt(p, i, name)
           \/ \E name, t : FullAt(p, i, name, t)
<1> DEFINE tag == p[i]  name == tag.name  t == The(tag.text)
<1>1. /\ tag \in Leaves /\ name \in Texts /\ tag = Tag(name, tag.text, <<>>)
      /\ tag.text # NoText => t \in Texts /\ tag.text = {t} /\ t \in tag.text
  BY ElementOfSeq, LeavesAre
<1>2. /\ IsText(tag) <=> name = TextName
      /\ Written(tag) = IF IsText(tag) THEN (IF tag.text = NoText THEN <<>> ELSE Escaped(t))
                        ELSE IF tag.text = NoText THEN Opening(name)
                        ELSE (Opening(name) \o (IF tag.text = NoText THEN <<>> ELSE Escaped(t)))
                               \o EndOf(name)
  BY Zenon DEF IsText, TextName, Written
<1>3. /\ IF IsText(tag) THEN tag.text # NoText /\ (i > 1 => ~IsText(p[i - 1]))
         ELSE /\ name # <<>>
              /\ \A j \in 1 .. Len(name) : name[j] \notin Brackets \cup Breaks
      /\ ~IsText(tag) => EndsItself(p, i)
      /\ \A text \in tag.text :
           /\ text # <<>>
           /\ i > 1 \/ ~IsText(tag) => Head(text) # ">"
           /\ Len(p) > 1 \/ ~IsText(tag) => KeepsSpaces(text)
  BY Zenon DEF Readable, WellFormed
<1>4. ~IsText(tag) => Nameable(name)
  <2>1. ASSUME ~IsText(tag), NEW j \in 1 .. Len(name)
        PROVE  name[j] \notin Brackets /\ name[j] \notin Breaks
    BY <1>3, <2>1, Zenon
  <2> QED
    BY <1>1, <1>3, <2>1, Zenon DEF Nameable
<1>5. ASSUME tag.text # NoText, i > 1 \/ ~IsText(tag) PROVE t[1] # More
  <2>1. Head(t) # More
    BY <1>1, <1>3, <1>5, Zenon DEF More
  <2>2. t # <<>> /\ t \in Seq(Lexemes)
    BY <1>1, <1>3, <1>5, TextsAre
  <2>3. Head(t) = t[1]
    BY <2>2
  <2> QED
    BY <2>1, <2>3
<1>6. CASE IsText(tag)
  <2>1. tag = Tag(TextName, {t}, <<>>) /\ Written(tag) = Escaped(t)
    BY <1>1, <1>2, <1>3, <1>6
  <2>2. t \in Texts /\ t # <<>> /\ (i > 1 => ~IsText(p[i - 1])) /\ (Len(p) > 1 => KeepsSpaces(t))
    BY <1>1, <1>3, <1>6, Zenon
  <2>3. i > 1 => t[1] # More
    BY <1>3, <1>5, <1>6
  <2> HIDE DEF t
  <2> QED
    BY <1>6, <2>1, <2>2, <2>3, Zenon DEF TextAt
<1>7. CASE ~IsText(tag) /\ tag.text = NoText
  <2>1. tag = Tag(name, NoText, <<>>) /\ Written(tag) = Opening(name)
    BY <1>1, <1>2, <1>7
  <2>2. Occurrences(EndOf(name), From(p, i + 1)) = {}
    BY <1>3, <1>7, Zenon DEF EndsItself, From, Rest
  <2> QED
    BY <1>4, <1>7, <2>1, <2>2, Zenon DEF BareAt
<1>8. CASE ~IsText(tag) /\ tag.text # NoText
  <2>1. tag = Tag(name, {t}, <<>>) /\ Written(tag) = (Opening(name) \o Escaped(t)) \o EndOf(name)
    BY <1>1, <1>2, <1>8
  <2>2. Occurrences(EndOf(name), Escaped(t)) = {}
    BY <1>3, <1>8, Zenon DEF EndsItself
  <2>3. t \in Texts /\ t # <<>> /\ KeepsSpaces(t)
    BY <1>1, <1>3, <1>8, Zenon
  <2>4. t[1] # More
    BY <1>5, <1>8
  <2> HIDE DEF t
  <2> QED
    BY <1>4, <1>8, <2>1, <2>2, <2>3, <2>4, Zenon DEF FullAt
<1> QED
  BY <1>6, <1>7, <1>8

\* What is written after a tag cannot double its bracket.
(* What follows a tag never begins as a doubled bracket ends.                 *)
LEMMA RestFollows ==
    ASSUME NEW p \in Seq(Leaves), Readable(p), NEW i \in 1 .. Len(p), ~IsText(p[i])
    PROVE  Follows(From(p, i + 1))
<1>1. Len(p) \in Nat
  BY LenProperties
<1>2. CASE i = Len(p)
  BY <1>2, RestGoes DEF Follows
<1>3. CASE i # Len(p)
  <2> DEFINE k == i + 1  v == From(p, k + 1)
  <2>1. /\ k \in 1 .. Len(p) /\ k > 1 /\ k + 1 \in 1 .. Len(p) + 1 /\ v \in Texts
        /\ From(p, k) = Written(p[k]) \o v /\ Written(p[k]) \in Texts
    <3>1. k \in 1 .. Len(p) /\ k > 1 /\ k + 1 \in 1 .. Len(p) + 1
      BY <1>1, <1>3
    <3> QED
      BY <3>1, RestGoes
  <2>2. Len(Written(p[k])) >= 1 /\ Written(p[k])[1] # More
    <3>1. ASSUME NEW t, TextAt(p, k, t) PROVE Len(Escaped(t)) >= 1 /\ Escaped(t)[1] # More
      BY <2>1, <3>1, EscapedBegins DEF TextAt
    <3>2. ASSUME NEW name, BareAt(p, k, name)
          PROVE  Len(Opening(name)) >= 1 /\ Opening(name)[1] # More
      <4>1. name \in Texts /\ Len(name) \in Nat
        BY <3>2, TextsJoin DEF BareAt, Nameable
      <4> QED
        BY <2>1, <4>1, MarksAre, OpeningSplits
    <3>3. ASSUME NEW name, NEW t, FullAt(p, k, name, t)
          PROVE  Len(Written(p[k])) >= 1 /\ Written(p[k])[1] # More
      <4> DEFINE o == Opening(name)  e == Escaped(t)  z == EndOf(name)
      <4>1. name \in Texts /\ Len(name) \in Nat /\ t \in Texts
        BY <3>3, TextsJoin DEF FullAt, Nameable
      <4>2. Len(o) >= 1 /\ o[1] # More /\ o \in Texts
        BY <2>1, <4>1, MarksAre, OpeningSplits
      <4>3. e \in Texts /\ z \in Texts
        BY <4>1, EscapedIs, OpeningIs
      <4>4. Written(p[k]) = (o \o e) \o z
        BY <3>3 DEF FullAt
      <4> HIDE DEF o, e, z
      <4>5. o \o e \in Texts /\ Len(o \o e) = Len(o) + Len(e) /\ Len(o) \in Nat /\ Len(e) \in Nat
        BY <4>2, <4>3, JoinIs
      <4>6. Len((o \o e) \o z) = Len(o \o e) + Len(z) /\ Len(z) \in Nat
        BY <4>3, <4>5, JoinIs
      <4>7. 1 \in 1 .. Len(o) /\ 1 \in 1 .. Len(o \o e)
        BY <4>2, <4>5
      <4>8. (o \o e)[1] = o[1] /\ ((o \o e) \o z)[1] = (o \o e)[1]
        BY <4>2, <4>3, <4>5, <4>7, JoinedAt
      <4>9. Len((o \o e) \o z) >= 1
        BY <4>2, <4>5, <4>6
      <4> QED
        BY <4>2, <4>4, <4>8, <4>9
    <3> QED
      BY <2>1, <3>1, <3>2, <3>3, ReadableIs DEF TextAt, BareAt
  <2>3. From(p, k)[1] = Written(p[k])[1]
    <3>1. 1 \in 1 .. Len(Written(p[k]))
      BY <2>1, <2>2, TextsJoin
    <3> HIDE DEF k, v
    <3> QED
      BY <2>1, <3>1, JoinedAt
  <2> QED
    BY <2>2, <2>3 DEF Follows
<1> QED
  BY <1>2, <1>3

-----------------------------------------------------------------------------
(* A source with a tag in it shows more brackets than are doubled.             *)

Single(s) == Count(s, Less) - 2 * Count(Stripped(s), Less)

(* A text that is written shows no bracket that is not doubled,               *)
LEMMA SingleOfText ==
    ASSUME NEW t \in Texts, NEW v \in Texts
    PROVE  Single(v) \in Int /\ Single(Escaped(t) \o v) = Single(v)
<1> DEFINE e == Escaped(t)  x == Stripped(v)
<1>1. Stripped(e \o v) = t \o x /\ Count(e, Less) = 2 * Count(t, Less)
  BY TextGoes
<1>2. e \in Texts /\ x \in Texts
  BY EscapedIs, StrippedIs
<1> HIDE DEF e, x
<1>3. Count(e \o v, Less) = Count(e, Less) + Count(v, Less)
      /\ Count(t \o x, Less) = Count(t, Less) + Count(x, Less)
      /\ Count(v, Less) \in Nat /\ Count(t, Less) \in Nat /\ Count(x, Less) \in Nat
  BY <1>2, CountJoins
<1>4. Single(v) = Count(v, Less) - 2 * Count(x, Less)
      /\ Single(e \o v) = Count(e \o v, Less) - 2 * Count(t \o x, Less)
  BY <1>1 DEF Single, x
<1> QED
  BY <1>1, <1>3, <1>4 DEF e

(* and the opening of a tag shows one.                                        *)
LEMMA SingleOfOpening ==
    ASSUME NEW name, Nameable(name), NEW v \in Texts, Follows(v)
    PROVE  Single(v) \in Int /\ Single(Opening(name) \o v) = Single(v) + 1
<1> DEFINE o == Opening(name)  x == Stripped(v)
<1>1. Stripped(o \o v) = name \o x /\ Count(o, Less) = 1 /\ Count(name, Less) = 0
  BY OpeningGoes, NameGoes
<1>2. name \in Texts /\ o \in Texts /\ x \in Texts
  BY OpeningIs, StrippedIs DEF Nameable
<1> HIDE DEF o, x
<1>3. Count(o \o v, Less) = Count(o, Less) + Count(v, Less)
      /\ Count(name \o x, Less) = Count(name, Less) + Count(x, Less)
      /\ Count(v, Less) \in Nat /\ Count(x, Less) \in Nat
  BY <1>2, CountJoins
<1>4. Single(v) = Count(v, Less) - 2 * Count(x, Less)
      /\ Single(o \o v) = Count(o \o v, Less) - 2 * Count(name \o x, Less)
  BY <1>1 DEF Single, x
<1> QED
  BY <1>1, <1>3, <1>4 DEF o

\* What a tag with a text in it is written as
(* A tag with a text in it is its opening, the text and its end.              *)
LEMMA FullSplits ==
    ASSUME NEW name, Nameable(name), NEW t \in Texts, t # <<>>, t[1] # More, NEW v \in Texts
    PROVE  LET r == EndOf(name) \o v
               w == (Opening(name) \o Escaped(t)) \o EndOf(name)
           IN /\ r \in Texts /\ Escaped(t) \o r \in Texts /\ Follows(Escaped(t) \o r)
              /\ w \in Texts /\ w \o v = Opening(name) \o (Escaped(t) \o r)
<1> DEFINE o == Opening(name)  e == Escaped(t)  z == EndOf(name)  r == z \o v
<1>1. o \in Texts /\ e \in Texts /\ z \in Texts
  BY OpeningIs, EscapedIs DEF Nameable
<1>2. Len(e) >= 1 /\ e[1] = t[1]
  BY EscapedBegins
<1> HIDE DEF o, e, z
<1>3. r \in Texts /\ e \o r \in Texts /\ o \o e \in Texts /\ (o \o e) \o z \in Texts
  BY <1>1, TextsJoin
<1>4. (e \o r)[1] = e[1]
  <2>1. 1 \in 1 .. Len(e)
    BY <1>1, <1>2, TextsJoin
  <2> HIDE DEF r
  <2> QED
    BY <1>1, <1>3, <2>1, JoinedAt
<1>5. ((o \o e) \o z) \o v = o \o (e \o r)
  <2>1. ((o \o e) \o z) \o v = (o \o e) \o r
    <3> DEFINE a == o \o e
    <3>1. a \in Texts
      BY <1>3
    <3> HIDE DEF a
    <3>2. (a \o z) \o v = a \o (z \o v)
      BY <1>1, <3>1, JoinTwice
    <3> QED
      BY <3>2 DEF a
  <2> HIDE DEF r
  <2>2. (o \o e) \o r = o \o (e \o r)
    <3>1. o \in Texts /\ e \in Texts /\ r \in Texts
      BY <1>1, <1>3
    <3> QED
      BY <3>1, JoinTwice
  <2> QED
    BY <2>1, <2>2
<1>6. Follows(e \o r)
  BY <1>2, <1>4 DEF Follows
<1> QED
  BY <1>3, <1>5, <1>6 DEF o, e, z

\* Tags of a phrase from one on that are no texts
TagsFrom(p, i) == {j \in i .. Len(p) : ~IsText(p[j])}

(* So what is written for a phrase shows one for each tag, at least.          *)
LEMMA TagsAreSingle ==
    ASSUME NEW p \in Seq(Leaves), Readable(p)
    PROVE  \A i \in 1 .. Len(p) + 1 : /\ Single(From(p, i)) \in Int /\ Single(From(p, i)) >= 0
                                      /\ TagsFrom(p, i) # {} => Single(From(p, i)) >= 1
<1> DEFINE N == Len(p)
           CountsFrom(i) == /\ Single(From(p, i)) \in Int /\ Single(From(p, i)) >= 0
                            /\ TagsFrom(p, i) # {} => Single(From(p, i)) >= 1
           S == {k \in 0 .. N : CountsFrom(N + 1 - k)}
<1>1. N \in Nat
  BY LenProperties
<1>2. CountsFrom(N + 1)
  <2>1. From(p, N + 1) = <<>> /\ TagsFrom(p, N + 1) = {}
    BY <1>1, RestGoes DEF TagsFrom
  <2>2. Single(<<>>) = 0
    <3>1. Count(<<>>, Less) = 0 /\ Stripped(<<>>) = <<>>
      BY MarksAre, StrippedIs, CountOfOne
    <3> QED
      BY <3>1 DEF Single
  <2> QED
    BY <2>1, <2>2
<1>3. ASSUME NEW i \in 1 .. N, CountsFrom(i + 1) PROVE CountsFrom(i)
  <2> DEFINE v == From(p, i + 1)
  <2>1. From(p, i) = Written(p[i]) \o v /\ v \in Texts
    <3>1. i + 1 \in 1 .. N + 1
      BY <1>1
    <3> QED
      BY <3>1, RestGoes
  <2>2. ~IsText(p[i]) => Follows(v)
    BY RestFollows
  <2>3. Single(v) \in Int /\ Single(v) >= 0 /\ (TagsFrom(p, i + 1) # {} => Single(v) >= 1)
    BY <1>3
  <2> HIDE DEF v
  <2>4. ASSUME NEW t, TextAt(p, i, t) PROVE CountsFrom(i)
    <3>1. IsText(p[i]) /\ Written(p[i]) = Escaped(t) /\ t \in Texts
      BY <2>4 DEF TextAt
    <3>2. Single(From(p, i)) = Single(v)
      BY <2>1, <3>1, SingleOfText
    <3>3. TagsFrom(p, i) = TagsFrom(p, i + 1)
      BY <1>1, <3>1 DEF TagsFrom
    <3> QED
      BY <2>3, <3>2, <3>3
  <2>5. ASSUME NEW name, BareAt(p, i, name) PROVE CountsFrom(i)
    <3>1. ~IsText(p[i]) /\ Written(p[i]) = Opening(name) /\ Nameable(name)
      BY <2>5 DEF BareAt
    <3>2. Single(From(p, i)) = Single(v) + 1
      BY <2>1, <2>2, <3>1, SingleOfOpening
    <3> QED
      BY <2>3, <3>2
  <2>6. ASSUME NEW name, NEW t, FullAt(p, i, name, t) PROVE CountsFrom(i)
    <3> DEFINE o == Opening(name)  e == Escaped(t)  z == EndOf(name)  r == z \o v
    <3>1. /\ ~IsText(p[i]) /\ Nameable(name) /\ t \in Texts /\ t # <<>> /\ t[1] # More
          /\ Written(p[i]) = (o \o e) \o z
      BY <2>6 DEF FullAt
    <3>2. /\ r \in Texts /\ e \o r \in Texts /\ Follows(e \o r)
          /\ ((o \o e) \o z) \o v = o \o (e \o r)
      BY <2>1, <3>1, FullSplits
    <3>7. From(p, i) = o \o (e \o r)
      BY <2>1, <3>1, <3>2
    <3>3. Single(r) = Single(v) + 1
      <4>1. z = Opening(<<Slash>> \o name) /\ Nameable(<<Slash>> \o name)
        BY <3>1, EndIsOpening
      <4>2. Single(Opening(<<Slash>> \o name) \o v) = Single(v) + 1
        BY <2>1, <2>2, <3>1, <4>1, SingleOfOpening
      <4> QED
        BY <4>1, <4>2
    <3> HIDE DEF r
    <3>4. Single(e \o r) = Single(r)
      BY <3>1, <3>2, SingleOfText
    <3> HIDE DEF e
    <3>5. Single(o \o (e \o r)) = Single(e \o r) + 1
      BY <3>1, <3>2, SingleOfOpening
    <3>6. Single(From(p, i)) = Single(v) + 2
      BY <2>3, <3>3, <3>4, <3>5, <3>7
    <3> QED
      BY <2>3, <3>6
  <2> HIDE DEF CountsFrom
  <2> QED
    BY <2>4, <2>5, <2>6, ReadableIs
<1> HIDE DEF CountsFrom
<1>4. 0 \in S
  <2>1. N + 1 - 0 = N + 1 /\ 0 \in 0 .. N
    BY <1>1
  <2> QED
    BY <1>2, <2>1
<1>5. ASSUME NEW k \in 0 .. N - 1, k \in S PROVE k + 1 \in S
  <2>1. /\ N - k \in 1 .. N /\ k + 1 \in 0 .. N
        /\ (N - k) + 1 = N + 1 - k /\ N + 1 - (k + 1) = N - k
    BY <1>1
  <2>2. CountsFrom((N - k) + 1)
    BY <1>5, <2>1
  <2>3. CountsFrom(N - k)
    BY <1>3, <2>1, <2>2
  <2> QED
    BY <2>1, <2>3
<1>6. \A k \in 0 .. N - 1 : k \in S => k + 1 \in S
  BY <1>5
<1> HIDE DEF S, N
<1>7. \A k \in 0 .. N : k \in S
  BY ONLY <1>1, <1>4, <1>6, UpTo
<1>8. ASSUME NEW i \in 1 .. N + 1 PROVE CountsFrom(i)
  <2>1. N + 1 - i \in 0 .. N /\ N + 1 - (N + 1 - i) = i
    BY <1>1
  <2>2. N + 1 - i \in S
    BY <1>7, <2>1
  <2> QED
    BY <2>1, <2>2 DEF S
<1> QED
  BY <1>8 DEF CountsFrom, N

-----------------------------------------------------------------------------
(* Where the end of a tag is                                                   *)

(* A tag ends at the first place where its end is after its text.             *)
LEMMA FirstEnd ==
    ASSUME NEW name, Nameable(name), NEW e \in Texts, NEW v \in Texts,
           Occurrences(EndOf(name), e) = {}
    PROVE  LET s == e \o (EndOf(name) \o v)
               ends == Occurrences(EndOf(name), s)
           IN /\ Len(e) + 1 \in ends /\ \A i \in ends : Len(e) + 1 <= i
              /\ SubSeq(s, 1, Len(e)) = e
              /\ After(s, Len(e) + Len(EndOf(name))) = v
<1> DEFINE z == EndOf(name)  r == z \o v  s == e \o r  L == Len(e)  M == Len(z)
<1>1. /\ name \in Texts /\ Len(name) \in Nat /\ Len(name) >= 1
      /\ \A j \in 1 .. Len(name) : name[j] # Less
  <2>1. name \in Texts /\ name # <<>> /\ \A j \in 1 .. Len(name) : name[j] \notin Brackets
    BY DEF Nameable
  <2> QED
    BY <2>1, TextsJoin, MarksAre
<1>2. z \in Texts /\ M = Len(name) + 3 /\ z[1] = Less /\ \A j \in 2 .. M : z[j] # Less
  <2> DEFINE n == <<Slash>> \o name
  <2>1. z = Opening(n) /\ Nameable(n)
    BY EndIsOpening
  <2>2. n \in Texts /\ Len(n) = 1 + Len(name)
    BY <1>1, MarksAre, FirstOfOne
  <2>3. \A j \in 1 .. Len(n) : n[j] # Less
    BY <2>1, MarksAre DEF Nameable
  <2> HIDE DEF n
  <2> DEFINE more == <<More>>  x == n \o more
  <2>4. Opening(n) \o <<>> = <<Less>> \o (n \o (<<More>> \o <<>>)) /\ Opening(n) \in Texts
        /\ Len(Opening(n)) = Len(n) + 2 /\ Opening(n)[1] = Less
    BY <2>2, TextsJoin, OpeningSplits
  <2>5. more \in Texts /\ Len(more) = 1 /\ more[1] = More
    BY MarksAre, TextsJoin
  <2> HIDE DEF more
  <2>6. Opening(n) = <<Less>> \o x
    <3>1. more \o <<>> = more /\ Opening(n) \o <<>> = Opening(n)
      BY <2>4, <2>5, TextsJoin
    <3> QED
      BY <2>4, <3>1 DEF more
  <2>7. x \in Texts /\ Len(x) = Len(n) + 1 /\ Len(n) \in Nat
    BY <2>2, <2>5, JoinIs
  <2>8. ASSUME NEW j \in 1 .. Len(x) PROVE x[j] # Less
    <3>1. CASE j \in 1 .. Len(n)
      BY <2>2, <2>3, <2>5, <3>1, JoinedAt
    <3>2. CASE j = Len(n) + 1
      <4>1. 1 \in 1 .. Len(more)
        BY <2>5
      <4>2. x[Len(n) + 1] = more[1]
        BY <2>2, <2>5, <4>1, JoinedAt
      <4> QED
        BY <2>5, <3>2, <4>2, MarksAre
    <3> QED
      BY <2>7, <3>1, <3>2
  <2> HIDE DEF x
  <2>9. ASSUME NEW j \in 2 .. M PROVE z[j] # Less
    <3>1. j - 1 \in 1 .. Len(x) /\ (j - 1) + 1 = j
      BY <2>1, <2>4, <2>7
    <3>2. (<<Less>> \o x)[(j - 1) + 1] = x[j - 1]
      BY <2>7, <3>1, MarksAre, FirstOfOne
    <3> QED
      BY <2>1, <2>6, <2>8, <3>1, <3>2
  <2> QED
    BY <1>1, <2>1, <2>2, <2>4, <2>9
<1> HIDE DEF z
<1>3. /\ r \in Texts /\ Len(r) = M + Len(v) /\ s \in Texts /\ Len(s) = L + Len(r)
      /\ L \in Nat /\ M \in Nat /\ Len(v) \in Nat
  <2>1. r \in Texts /\ Len(r) = M + Len(v) /\ M \in Nat /\ Len(v) \in Nat
    BY <1>2, JoinIs
  <2> HIDE DEF r
  <2> QED
    BY <2>1, JoinIs
<1>4. /\ \A i \in 1 .. L : s[i] = e[i]
      /\ \A i \in 1 .. Len(r) : s[L + i] = r[i]
      /\ \A i \in 1 .. M : r[i] = z[i]
      /\ \A i \in 1 .. Len(v) : r[M + i] = v[i]
  <2>1. /\ \A i \in 1 .. M : r[i] = z[i]
        /\ \A i \in 1 .. Len(v) : r[M + i] = v[i]
    BY <1>2, JoinedAt
  <2> HIDE DEF r
  <2> QED
    BY <1>3, <2>1, JoinedAt
<1> HIDE DEF s, r
<1>5. \A i \in 1 .. M : s[L + i] = z[i]
  BY <1>3, <1>4
<1>12. (\A i \in 1 .. Len(s) : s[i] \in Lexemes) /\ \A i \in 1 .. L : e[i] \in Lexemes
  BY <1>3, TextsJoin
<1>6. SubSeq(s, 1, L) = e
  BY <1>3, JoinSplits DEF s
<1>7. SubSeq(s, L + 1, L + M) = z
  <2>1. z \in Seq(Lexemes)
    BY <1>2, TextsAre
  <2>2. L + 1 \in Int /\ L + M \in Int /\ \A i \in L + 1 .. L + M : s[i] \in Lexemes
    <3>1. \A i \in L + 1 .. L + M : i \in 1 .. Len(s)
      BY <1>3
    <3> QED
      BY <1>3, <1>12, <3>1
  <2>3. /\ SubSeq(s, L + 1, L + M) \in Seq(Lexemes) /\ Len(SubSeq(s, L + 1, L + M)) = M
        /\ \A i \in 1 .. M : SubSeq(s, L + 1, L + M)[i] = s[L + i]
    <3> DEFINE m == L + 1  n == L + M
    <3>1. m \in Int /\ n \in Int /\ m <= n /\ n - m + 1 = M /\ \A i \in 1 .. M : m + i - 1 = L + i
      BY <1>1, <1>2, <1>3
    <3>2. /\ SubSeq(s, m, n) \in Seq(Lexemes)
          /\ Len(SubSeq(s, m, n)) = IF m <= n THEN n - m + 1 ELSE 0
          /\ \A i \in 1 .. n - m + 1 : SubSeq(s, m, n)[i] = s[m + i - 1]
      BY <2>2, SubSeqProperties
    <3> HIDE DEF m, n
    <3>3. /\ SubSeq(s, m, n) \in Seq(Lexemes) /\ Len(SubSeq(s, m, n)) = M
          /\ \A i \in 1 .. M : SubSeq(s, m, n)[i] = s[L + i]
      BY <3>1, <3>2
    <3> QED
      BY <3>3 DEF m, n
  <2> QED
    BY <1>5, <2>1, <2>3, SeqEqual
<1>8. SubSeq(s, (L + M) + 1, Len(s)) = v
  <2> DEFINE a == e \o z
  <2>1. a \in Texts /\ Len(a) = L + M
    BY <1>2, JoinIs
  <2>2. s = a \o v
    BY <1>2, JoinTwice DEF s, r
  <2> HIDE DEF a
  <2>3. SubSeq(a \o v, Len(a) + 1, Len(a \o v)) = v
    BY <2>1, JoinSplits
  <2> QED
    BY <2>1, <2>2, <2>3
<1> DEFINE ends == Occurrences(z, s)
<1>9. L + 1 \in ends
  <2>1. (L + 1) + M - 1 = L + M /\ L + 1 \in 1 .. Len(s) /\ L + M <= Len(s)
    BY <1>1, <1>2, <1>3
  <2> QED
    BY <1>7, <2>1 DEF Occurrences
<1>10. ASSUME NEW i \in ends PROVE L + 1 <= i
  <2>1. i \in 1 .. Len(s) /\ i + M - 1 <= Len(s) /\ SubSeq(s, i, i + M - 1) = z
    BY DEF Occurrences
  <2> SUFFICES ASSUME i <= L PROVE FALSE
    BY <1>3, <2>1
  <2>2. \A j \in 1 .. M : z[j] = s[i + j - 1]
    <3> DEFINE n == i + M - 1
    <3>1. i \in Int /\ n \in Int /\ \A j \in i .. n : s[j] \in Lexemes
      <4>1. \A j \in i .. n : j \in 1 .. Len(s)
        BY <1>3, <2>1
      <4> QED
        BY <1>3, <1>12, <2>1, <4>1
    <3>2. \A j \in 1 .. n - i + 1 : SubSeq(s, i, n)[j] = s[i + j - 1]
      BY <3>1, SubSeqProperties
    <3>3. n - i + 1 = M
      BY <1>3, <2>1
    <3> HIDE DEF n
    <3>4. \A j \in 1 .. M : SubSeq(s, i, n)[j] = s[i + j - 1]
      BY <3>2, <3>3
    <3> QED
      BY <2>1, <3>4 DEF n
  <2>3. CASE i + M - 1 <= L
    <3> DEFINE n == i + M - 1
    <3>1. SubSeq(e, i, n) = z
      <4>1. i \in Int /\ n \in Int /\ n - i + 1 = M /\ i <= n /\ \A j \in i .. n : e[j] \in Lexemes
        <5>1. \A j \in i .. n : j \in 1 .. L
          BY <1>3, <2>1, <2>3
        <5>2. n - i + 1 = M /\ i <= n /\ i \in Int /\ n \in Int
          BY <1>1, <1>2, <1>3, <2>1
        <5> QED
          BY <1>12, <5>1, <5>2
      <4>2. /\ SubSeq(e, i, n) \in Seq(Lexemes)
            /\ Len(SubSeq(e, i, n)) = IF i <= n THEN n - i + 1 ELSE 0
            /\ \A j \in 1 .. n - i + 1 : SubSeq(e, i, n)[j] = e[i + j - 1]
        BY <4>1, SubSeqProperties
      <4>3. ASSUME NEW j \in 1 .. M PROVE e[i + j - 1] = z[j]
        <5>1. i + j - 1 \in 1 .. L
          BY <1>3, <2>1, <2>3
        <5> QED
          BY <1>4, <2>2, <5>1
      <4>4. z \in Seq(Lexemes)
        BY <1>2, TextsAre
      <4> HIDE DEF n
      <4>5. Len(SubSeq(e, i, n)) = M /\ \A j \in 1 .. M : SubSeq(e, i, n)[j] = z[j]
        BY <4>1, <4>2, <4>3
      <4> QED
        BY <4>2, <4>4, <4>5, SeqEqual
    <3>2. i \in Occurrences(z, e)
      <4>1. i \in 1 .. L
        BY <1>3, <2>1
      <4> QED
        BY <2>3, <3>1, <4>1 DEF Occurrences
    <3> QED
      BY <3>2 DEF z
  <2>4. CASE i + M - 1 > L
    <3> DEFINE j == L + 2 - i
    <3>1. j \in 2 .. M /\ j \in 1 .. M /\ i + j - 1 = L + 1 /\ 1 \in 1 .. M
      BY <1>1, <1>2, <1>3, <2>1, <2>4
    <3>2. s[L + 1] = z[1]
      BY <1>5, <3>1
    <3> HIDE DEF j
    <3>3. z[j] = z[1]
      BY <2>2, <3>1, <3>2
    <3> QED
      BY <1>2, <3>1, <3>3
  <2> QED
    BY <1>3, <2>1, <2>3, <2>4
<1>11. After(s, L + M) = v
  <2>1. L + M # 0
    BY <1>1, <1>2, <1>3
  <2> QED
    BY <1>8, <2>1 DEF After
<1> QED
  BY <1>6, <1>9, <1>10, <1>11 DEF z, s, r

-----------------------------------------------------------------------------
(* A source with no line break in it stays as it is when its lines are joined  *)

\* The loop has read u, and written it as it is.
Read(u, scan) == [next |-> Len(u) + 1, written |-> u, scan |-> scan]

\* Between tags, with no white space left out so far in this text
Open == {scan \in ScanSet : /\ ~scan.inside /\ scan.line = 0 /\ (scan.spaced => scan.started)
                            /\ (scan.started => scan.textLine = 0)}

\* In the brackets of a tag
InTag == {scan \in ScanSet : scan.inside /\ scan.line = 0 /\ ~scan.started /\ ~scan.spaced}

Passes(loop, u, scan) == \E k \in 0 .. Len(u) : loop[k] = Read(u, scan)

(* What a turn of the loop does in a text and in the name of a tag.           *)
LEMMA TurnRules ==
    ASSUME NEW u \in Texts, NEW c \in Lexemes, c # Break, NEW v \in Texts, NEW scan \in ScanSet
    PROVE  LET s == u \o (<<c>> \o v)
               m == Read(u, scan)
               turn == MinifyTurn(s, m)
               w == u \o <<c>>
               doubled == c \in Brackets /\ v # <<>> /\ v[1] = c
           IN /\ doubled => turn = Joined(m, 2, <<c, c>>, scan)
              /\ ~doubled /\ scan.inside => turn = Read(w, InsideSet(scan, c # More))
              /\ ~doubled /\ ~scan.inside /\ c = Less => turn = Read(w, TagOpened(scan))
              /\ ~scan.inside /\ c \notin Brackets /\ (scan.spaced => scan.started)
                   /\ (c \in White => ~Indents(scan))
                   => turn = Read(w, TextGoesOn(scan))
<1> DEFINE x == <<c>> \o v  s == u \o x  m == Read(u, scan)  turn == MinifyTurn(s, m)
           one == <<c>>  w == u \o one
           doubled == c \in Brackets /\ v # <<>> /\ v[1] = c
<1>1. /\ x \in Texts /\ Len(x) = 1 + Len(v) /\ x[1] = c
      /\ \A i \in 1 .. Len(v) : x[i + 1] = v[i]
      /\ Len(u) \in Nat /\ Len(v) \in Nat /\ (v # <<>> <=> Len(v) >= 1)
  BY FirstOfOne, TextsJoin
<1>2. one \in Texts /\ Len(one) = 1
  BY TextsJoin
<1>3. m.next = Len(u) + 1 /\ m.written = u /\ m.scan = scan
  BY DEF Read
<1> HIDE DEF x, m, one
<1>4. s \in Texts /\ Len(s) = Len(u) + Len(x) /\ \A i \in 1 .. Len(x) : s[Len(u) + i] = x[i]
  BY <1>1, JoinIs, JoinedAt
<1>5. w \in Texts /\ Len(w) = Len(u) + 1
  <2>1. u \o one \in Texts /\ Len(u \o one) = Len(u) + Len(one)
    BY <1>2, JoinIs
  <2> QED
    BY <1>2, <2>1
<1> HIDE DEF s
<1>6. ~(m.next > Len(s)) /\ (m.next < Len(s) <=> v # <<>>)
  BY <1>1, <1>3, <1>4
<1>7. s[m.next] = c
  <2>1. 1 \in 1 .. Len(x)
    BY <1>1
  <2> QED
    BY <1>1, <1>3, <1>4, <2>1
<1>8. v # <<>> => s[m.next + 1] = v[1]
  <2> SUFFICES ASSUME v # <<>> PROVE s[m.next + 1] = v[1]
    OBVIOUS
  <2>1. 2 \in 1 .. Len(x) /\ 1 \in 1 .. Len(v) /\ m.next + 1 = Len(u) + 2 /\ 1 + 1 = 2
    BY <1>1, <1>3
  <2>2. s[Len(u) + 2] = x[2] /\ x[1 + 1] = v[1]
    BY <1>1, <1>4, <2>1
  <2> QED
    BY <2>1, <2>2
<1>9. \A next : Joined(m, 1, one, next) = Read(w, next)
  <2>1. Len(u) + 1 + 1 = Len(w) + 1
    BY <1>1, <1>5
  <2> HIDE DEF w
  <2>2. \A next : Joined(m, 1, one, next) = [next |-> Len(w) + 1, written |-> w, scan |-> next]
    BY <1>3, <2>1 DEF Joined, w
  <2> QED
    BY <2>2, Zenon DEF Read
<1> DEFINE B == c \in Brackets /\ m.next < Len(s) /\ s[m.next + 1] = c
           E == c \in White /\ Indents(scan)
           G == scan.spaced /\ ~scan.started
<1>10. turn = IF m.next > Len(s) THEN m
              ELSE IF B THEN Joined(m, 2, <<c, c>>, scan)
              ELSE IF scan.inside THEN Joined(m, 1, one, InsideSet(scan, c # More))
              ELSE IF E THEN Joined(m, 1, <<>>, scan)
              ELSE IF c = Less THEN Joined(m, 1, one, TagOpened(scan))
              ELSE Joined(m, 1, IF G THEN <<Gap, c>> ELSE one, TextGoesOn(scan))
  <2>1. c # "\n"
    BY Zenon DEF Break
  <2>2. c = s[m.next] /\ m.scan = scan
    BY <1>3, <1>7
  <2> QED
    BY <2>1, <2>2, Zenon DEF MinifyTurn, Joined, InsideSet, Gap, Less, More, one
<1>11. B <=> doubled
  BY <1>6, <1>8
<1>12. E => c \in White /\ Indents(scan)
  OBVIOUS
<1>13. /\ c = Less => ~E
       /\ c \notin Brackets => c # Less
  BY MarksAre, <1>12
<1>14. c \notin Brackets => ~doubled
  OBVIOUS
<1> HIDE DEF B, E, G, doubled, turn, w
<1>15. doubled => turn = Joined(m, 2, <<c, c>>, scan)
  BY <1>6, <1>10, <1>11, Zenon
<1>16. ~doubled /\ scan.inside => turn = Read(w, InsideSet(scan, c # More))
  BY <1>6, <1>9, <1>10, <1>11, Zenon
<1>17. ~doubled /\ ~scan.inside /\ c = Less => turn = Read(w, TagOpened(scan))
  BY <1>6, <1>9, <1>10, <1>11, <1>13, Zenon
<1>18. ASSUME ~scan.inside, c \notin Brackets, scan.spaced => scan.started,
              c \in White => ~Indents(scan)
       PROVE  turn = Read(w, TextGoesOn(scan))
  <2>1. ~G /\ ~E /\ c # Less /\ ~B /\ ~(m.next > Len(s))
    BY <1>6, <1>11, <1>12, <1>13, <1>14, <1>18 DEF G
  <2>2. turn = Joined(m, 1, one, TextGoesOn(scan))
    BY <1>10, <1>18, <2>1, Zenon
  <2> QED
    BY <1>9, <2>2
<1> QED
  BY <1>15, <1>16, <1>17, <1>18 DEF turn, s, x, m, w, one, doubled

(* What is passed in two parts is passed.                                     *)
LEMMA PassesOn ==
    ASSUME NEW u \in Texts, NEW w \in Texts, Len(w) >= 1, NEW v \in Texts, NEW loop,
           NEW s, s = u \o (w \o v), LoopRule(loop, s), NEW scan, Passes(loop, u, scan),
           NEW next, MinifyTurn(s, Read(u, scan)) = Read(u \o w, next)
    PROVE  Passes(loop, u \o w, next)
<1>1. PICK k \in 0 .. Len(u) : loop[k] = Read(u, scan)
  BY DEF Passes
<1>2. /\ Len(u \o w) = Len(u) + Len(w) /\ Len(u) \in Nat /\ Len(w) \in Nat
      /\ w \o v \in Texts /\ Len(w \o v) = Len(w) + Len(v) /\ Len(v) \in Nat
  BY JoinIs
<1>3. Len(s) = Len(u) + Len(w \o v)
  BY <1>2, JoinIs
<1>4. k + 1 \in 1 .. Len(s) /\ k + 1 \in 0 .. Len(u \o w) /\ (k + 1) - 1 = k
  BY <1>2, <1>3
<1>5. loop[k + 1] = MinifyTurn(s, loop[(k + 1) - 1])
  BY <1>4 DEF LoopRule
<1>6. loop[k + 1] = Read(u \o w, next)
  BY <1>1, <1>4, <1>5
<1> QED
  BY <1>4, <1>6 DEF Passes

(* A character of a text is passed, with its double where it has one.          *)
LEMMA DoubledPasses ==
    ASSUME NEW u \in Texts, NEW c \in Lexemes, NEW v \in Texts, NEW loop,
           LoopRule(loop, u \o (Doubled(c) \o v)),
           NEW scan \in Open, Passes(loop, u, scan),
           c \in White => c # Break /\ scan.started
    PROVE  \E next \in Open :
             /\ Passes(loop, u \o Doubled(c), next)
             /\ scan.started \/ c \notin White \cup Brackets => next.started
<1> DEFINE w == Doubled(c)  s == u \o (w \o v)  m == Read(u, scan)
<1>1. /\ scan \in ScanSet /\ ~scan.inside /\ scan.line = 0
      /\ (scan.spaced => scan.started) /\ (scan.started => scan.textLine = 0)
  BY DEF Open
<1>2. c # Break /\ (c \in White => scan.started)
  BY MarksAre
<1>5. LoopRule(loop, s)
  OBVIOUS
<1>3. CASE c \in Brackets
  <2> DEFINE x == <<c>> \o v  two == <<c, c>>
  <2>1. x \in Texts /\ x # <<>> /\ x[1] = c
    <3>1. x \in Texts /\ Len(x) = 1 + Len(v) /\ x[1] = c /\ Len(v) \in Nat
      BY FirstOfOne, TextsJoin
    <3> HIDE DEF x
    <3> QED
      BY <3>1, TextsJoin
  <2>2. w = two /\ two \o v = <<c>> \o x /\ two \in Texts /\ Len(two) = 2
    <3>1. w = two /\ two \in Texts /\ Len(two) = 2
      BY <1>3, TextsJoin DEF Doubled
    <3>2. <<c, c>> \o v = <<c>> \o (<<c>> \o v)
      BY FirstOfTwo
    <3> QED
      BY <3>1, <3>2
  <2> HIDE DEF x, two, w
  <2>3. s = u \o (<<c>> \o x)
    BY <2>2
  <2> HIDE DEF s
  <2>4. MinifyTurn(s, m) = Joined(m, 2, <<c, c>>, scan)
    BY <1>1, <1>2, <1>3, <2>1, <2>3, TurnRules
  <2>5. Joined(m, 2, two, scan) = Read(u \o two, scan)
    <3>1. u \o two \in Texts /\ Len(u \o two) = Len(u) + Len(two) /\ Len(u) \in Nat
      BY <2>2, JoinIs
    <3>2. Len(u) + 1 + 2 = Len(u \o two) + 1
      BY <2>2, <3>1
    <3>3. m.next = Len(u) + 1 /\ m.written = u
      BY DEF Read
    <3> HIDE DEF m
    <3> QED
      BY <3>2, <3>3 DEF Joined, Read
  <2>6. MinifyTurn(s, Read(u, scan)) = Read(u \o w, scan)
    BY <2>2, <2>4, <2>5 DEF two
  <2>7. w \in Texts /\ Len(w) >= 1
    BY <2>2
  <2>8. Passes(loop, u \o w, scan)
    BY <1>5, <2>6, <2>7, PassesOn DEF s
  <2>9. c \notin White \cup Brackets => FALSE
    BY <1>3
  <2> QED
    BY <2>8, <2>9 DEF w
<1>4. CASE c \notin Brackets
  <2> DEFINE next == TextGoesOn(scan)  one == <<c>>
  <2>1. w = one /\ one \in Texts /\ Len(one) = 1
    BY <1>4, TextsJoin DEF Doubled
  <2>2. scan.started => ~Indents(scan)
    BY <1>1 DEF Indents
  <2>3. next \in Open /\ next.started
    BY <1>1 DEF Open, ScanSet, TextGoesOn
  <2> HIDE DEF w, next
  <2>4. MinifyTurn(u \o (<<c>> \o v), m) = Read(u \o <<c>>, next)
    BY <1>1, <1>2, <1>4, <2>2, TurnRules DEF next
  <2> HIDE DEF one
  <2>5. MinifyTurn(s, Read(u, scan)) = Read(u \o w, next)
    BY <2>1, <2>4 DEF one
  <2>6. w \in Texts /\ Len(w) >= 1
    BY <2>1
  <2> HIDE DEF s
  <2>7. Passes(loop, u \o w, next)
    BY <1>5, <2>5, <2>6, PassesOn DEF s
  <2> QED
    BY <2>3, <2>7 DEF w
<1> QED
  BY <1>3, <1>4

(* A text that keeps its white space is passed as it is.                       *)
LEMMA TextPasses ==
    ASSUME NEW u \in Texts, NEW t \in Texts, KeepsSpaces(t), NEW v \in Texts, NEW loop,
           LoopRule(loop, u \o (Escaped(t) \o v)),
           NEW scan \in Open, Passes(loop, u, scan)
    PROVE  \E next \in Open : Passes(loop, u \o Escaped(t), next)
<1> DEFINE N == Len(t)  more(k) == \E j \in 1 .. k : t[j] \notin White \cup Brackets
<1>1. N \in Nat
  BY TextsJoin
<1>2. PICK upTo : EscapedRule(upTo, t)
  BY EscapedIs
<1>3. upTo[0] = <<>> /\ Escaped(t) = upTo[N]
  BY <1>2 DEF EscapedRule
<1> DEFINE Gone(k) == \E next \in Open : Passes(loop, u \o upTo[k], next)
                                         /\ (more(k) => next.started)
           S == {k \in 0 .. N : \A x \in Texts : LoopRule(loop, u \o (upTo[k] \o x)) => Gone(k)}
<1>4. 0 \in S
  <2>1. 0 \in 0 .. N /\ u \o <<>> = u
    BY <1>1, TextsJoin
  <2>2. ~more(0)
    OBVIOUS
  <2> HIDE DEF more
  <2>3. Gone(0)
    BY <1>3, <2>1, <2>2
  <2> QED
    BY <2>1, <2>3
<1>5. ASSUME NEW k \in 0 .. N - 1, k \in S PROVE k + 1 \in S
  <2> DEFINE c == t[k + 1]  w == Doubled(c)
  <2>1. /\ k + 1 \in 1 .. N /\ k + 1 \in 0 .. N /\ c \in Lexemes /\ w \in Texts
        /\ upTo[k] \in Texts /\ upTo[k + 1] = upTo[k] \o w
        /\ \A x \in Texts : w \o x \in Texts /\ upTo[k + 1] \o x = upTo[k] \o (w \o x)
    <3>1. MoreWritten(upTo, t, k)
      BY <1>2, EscapedMore
    <3> QED
      BY <3>1, Zenon DEF MoreWritten
  <2>2. c \in White => c # Break /\ (c \in White => more(k))
    <3>1. c \in White => c # "\n" /\ \E j \in 1 .. k + 1 : t[j] \notin White \cup Brackets
      BY <2>1 DEF KeepsSpaces
    <3>2. ASSUME c \in White, NEW j \in 1 .. k + 1, t[j] \notin White \cup Brackets
          PROVE  j \in 1 .. k
      BY <1>1, <3>2
    <3> QED
      BY <3>1, <3>2 DEF Break
  <2>3. more(k + 1) => more(k) \/ c \notin White \cup Brackets
    <3>1. ASSUME NEW j \in 1 .. k + 1, j \notin 1 .. k PROVE j = k + 1
      BY <1>1, <3>1
    <3> QED
      BY <3>1
  <2> HIDE DEF more, w, c
  <2>4. ASSUME NEW x \in Texts, LoopRule(loop, u \o (upTo[k + 1] \o x)) PROVE Gone(k + 1)
    <3> DEFINE y == w \o x  a == u \o upTo[k]
    <3>1. y \in Texts /\ upTo[k + 1] \o x = upTo[k] \o y
      BY <2>1
    <3>2. LoopRule(loop, u \o (upTo[k] \o y))
      BY <2>4, <3>1
    <3>3. PICK now \in Open : Passes(loop, a, now) /\ (more(k) => now.started)
      BY <1>5, <3>1, <3>2
    <3>4. a \in Texts /\ u \o (upTo[k] \o y) = a \o y /\ u \o (upTo[k] \o w) = a \o w
      <4> HIDE DEF y
      <4> DEFINE f == upTo[k]
      <4>1. f \in Texts /\ w \in Texts /\ y \in Texts
        BY <2>1, <3>1
      <4> HIDE DEF f
      <4>2. u \o f \in Texts
        BY <4>1, JoinIs
      <4>3. (u \o f) \o y = u \o (f \o y)
        BY <4>1, JoinTwice
      <4>4. (u \o f) \o w = u \o (f \o w)
        BY <4>1, JoinTwice
      <4> QED
        BY <4>2, <4>3, <4>4 DEF f
    <3> HIDE DEF a
    <3>5. LoopRule(loop, a \o (w \o x))
      BY <3>2, <3>4
    <3>6. c \in White => c # Break /\ now.started
      BY <2>2, <3>3
    <3>7. PICK next \in Open :
            Passes(loop, a \o w, next)
            /\ (now.started \/ c \notin White \cup Brackets => next.started)
      BY <2>1, <3>3, <3>4, <3>5, <3>6, DoubledPasses DEF w
    <3>8. u \o upTo[k + 1] = a \o w
      BY <2>1, <3>4
    <3>9. more(k + 1) => next.started
      BY <2>3, <3>3, <3>7
    <3> QED
      BY <3>7, <3>8, <3>9
  <2> HIDE DEF Gone
  <2> QED
    BY <2>1, <2>4
<1>6. \A k \in 0 .. N - 1 : k \in S => k + 1 \in S
  BY <1>5
<1> HIDE DEF S, N
<1>7. \A k \in 0 .. N : k \in S
  BY ONLY <1>1, <1>4, <1>6, UpTo
<1>8. N \in S
  BY <1>1, <1>7
<1>9. Gone(N)
  <2> HIDE DEF Gone
  <2> QED
    BY <1>3, <1>8 DEF S
<1> QED
  BY <1>3, <1>9

(* So is the name of a tag.                                                    *)
LEMMA NamePasses ==
    ASSUME NEW u \in Texts, NEW name, Nameable(name), NEW v \in Texts, NEW loop,
           LoopRule(loop, u \o (name \o v)),
           NEW scan \in InTag, Passes(loop, u, scan)
    PROVE  \E next \in InTag : Passes(loop, u \o name, next)
<1> DEFINE N == Len(name)
<1>1. /\ N \in Nat /\ name \in Texts
      /\ \A k \in 1 .. N : name[k] \in Lexemes /\ name[k] \notin Brackets /\ name[k] \notin Breaks
  BY TextsJoin DEF Nameable
<1>2. /\ First(name, 0) = <<>> /\ First(name, N) = name
      /\ \A k \in 0 .. N : First(name, k) \in Texts
      /\ \A k \in 1 .. N : First(name, k) = First(name, k - 1) \o <<name[k]>>
  BY <1>1, OneMore
<1> DEFINE Gone(k) == \E next \in InTag : Passes(loop, u \o First(name, k), next)
           S == {k \in 0 .. N : \A x \in Texts :
                   LoopRule(loop, u \o (First(name, k) \o x)) => Gone(k)}
<1>3. 0 \in S
  <2>1. 0 \in 0 .. N /\ u \o <<>> = u
    BY <1>1, TextsJoin
  <2>2. Gone(0)
    BY <1>2, <2>1
  <2> QED
    BY <2>1, <2>2
<1>4. ASSUME NEW k \in 0 .. N - 1, k \in S PROVE k + 1 \in S
  <2> DEFINE c == name[k + 1]  f == First(name, k)  w == <<c>>  g == First(name, k + 1)
  <2>1. k + 1 \in 1 .. N /\ k + 1 \in 0 .. N /\ k \in 0 .. N /\ (k + 1) - 1 = k
    BY <1>1
  <2>2. c \in Lexemes /\ c \notin Brackets /\ c # Break /\ f \in Texts /\ g = f \o w
    BY <1>1, <1>2, <2>1, MarksAre
  <2>3. w \in Texts /\ Len(w) = 1
    BY <2>2, TextsJoin
  <2>4. ASSUME NEW x \in Texts, LoopRule(loop, u \o (g \o x)) PROVE Gone(k + 1)
    <3> DEFINE y == w \o x  a == u \o f
    <3> HIDE DEF f, g, c
    <3>1. y \in Texts
      BY <2>3, JoinIs
    <3>2. (f \o w) \o x = f \o (w \o x)
      BY <2>2, <2>3, JoinTwice
    <3>3. LoopRule(loop, u \o (f \o y))
      BY <2>2, <2>4, <3>2
    <3>4. PICK now \in InTag : Passes(loop, a, now)
      BY <1>4, <3>1, <3>3 DEF f
    <3>5. a \in Texts /\ u \o (f \o y) = a \o y /\ u \o (f \o w) = a \o w
      <4> HIDE DEF w, y
      <4>1. a \in Texts
        BY <2>2, JoinIs
      <4>2. (u \o f) \o y = u \o (f \o y)
        BY <2>2, <3>1, JoinTwice
      <4>3. (u \o f) \o w = u \o (f \o w)
        BY <2>2, <2>3, JoinTwice
      <4> QED
        BY <4>1, <4>2, <4>3
    <3>6. LoopRule(loop, a \o y)
      BY <3>3, <3>5
    <3> HIDE DEF a
    <3> DEFINE next == InsideSet(now, c # More)
    <3>7. now \in ScanSet /\ now.inside
      BY DEF InTag
    <3>8. MinifyTurn(a \o (<<c>> \o x), Read(a, now)) = Read(a \o <<c>>, next)
      BY <2>2, <3>5, <3>7, TurnRules
    <3>9. next \in InTag
      <4>1. c # More
        BY <2>2, MarksAre
      <4>2. InsideSet(now, TRUE) \in InTag
        BY DEF InTag, ScanSet, InsideSet
      <4>3. (c # More) = TRUE
        BY <4>1
      <4> HIDE DEF InTag
      <4> QED
        BY <4>2, <4>3
    <3> HIDE DEF next, w, y
    <3>10. MinifyTurn(a \o y, Read(a, now)) = Read(a \o w, next)
      BY <3>8 DEF w, y
    <3>11. Passes(loop, a \o w, next)
      <4> DEFINE s == a \o y
      <4>1. s = a \o (w \o x) /\ LoopRule(loop, s)
        BY <3>6 DEF y
      <4>2. MinifyTurn(s, Read(a, now)) = Read(a \o w, next)
        BY <3>10
      <4>3. Len(w) >= 1
        BY <2>3
      <4> HIDE DEF s
      <4> QED
        BY <2>3, <3>4, <3>5, <4>1, <4>2, <4>3, PassesOn
    <3>12. u \o g = a \o w
      BY <2>2, <3>5
    <3> QED
      BY <3>9, <3>11, <3>12 DEF g
  <2> HIDE DEF Gone
  <2> QED
    BY <2>1, <2>4
<1>5. \A k \in 0 .. N - 1 : k \in S => k + 1 \in S
  BY <1>4
<1> HIDE DEF S, N
<1>6. \A k \in 0 .. N : k \in S
  BY ONLY <1>1, <1>3, <1>5, UpTo
<1>7. N \in S
  BY <1>1, <1>6
<1>8. Gone(N)
  <2> HIDE DEF Gone
  <2> QED
    BY <1>2, <1>7 DEF S
<1> QED
  BY <1>2, <1>8

(* A character is passed when the turn takes it as it is.                     *)
LEMMA OnePasses ==
    ASSUME NEW u \in Texts, NEW c \in Lexemes, NEW v \in Texts, NEW loop,
           LoopRule(loop, u \o (<<c>> \o v)), NEW scan, Passes(loop, u, scan), NEW next,
           MinifyTurn(u \o (<<c>> \o v), Read(u, scan)) = Read(u \o <<c>>, next)
    PROVE  Passes(loop, u \o <<c>>, next)
<1> DEFINE w == <<c>>  s == u \o (w \o v)
<1>1. w \in Texts /\ Len(w) >= 1
  BY TextsJoin
<1>2. LoopRule(loop, s) /\ MinifyTurn(s, Read(u, scan)) = Read(u \o w, next)
  OBVIOUS
<1> HIDE DEF w, s
<1>3. Passes(loop, u \o w, next)
  BY <1>1, <1>2, PassesOn DEF s
<1> QED
  BY <1>3 DEF w

(* So is a tag, from bracket to bracket.                                       *)
LEMMA OpeningPasses ==
    ASSUME NEW u \in Texts, NEW name, Nameable(name), NEW v \in Texts, Follows(v), NEW loop,
           LoopRule(loop, u \o (Opening(name) \o v)),
           NEW scan \in Open, Passes(loop, u, scan)
    PROVE  \E next \in Open : Passes(loop, u \o Opening(name), next)
<1> DEFINE less == <<Less>>  more == <<More>>  r == more \o v  q == name \o r
           a == u \o less  b == a \o name
<1>1. /\ name \in Texts /\ Len(name) >= 1 /\ Len(name) \in Nat /\ name[1] # Less
      /\ less \in Texts /\ more \in Texts
  <2>1. name \in Texts /\ name # <<>>
    BY DEF Nameable
  <2>2. Len(name) >= 1 /\ Len(name) \in Nat
    BY <2>1, TextsJoin
  <2>3. 1 \in 1 .. Len(name)
    BY <2>2
  <2> QED
    BY <2>1, <2>2, <2>3, MarksAre, TextsJoin DEF Nameable
<1>2. Opening(name) \o v = less \o q /\ r \in Texts /\ q \in Texts
  BY <1>1, OpeningSplits
<1>3. Opening(name) = (less \o name) \o more
  BY Zenon DEF Opening, Less, More
<1>4. q[1] # Less
  <2>1. 1 \in 1 .. Len(name)
    BY <1>1
  <2>2. q[1] = name[1]
    BY <1>1, <1>2, <2>1, JoinedAt
  <2> QED
    BY <1>1, <2>2
<1> HIDE DEF less, more, q, r
<1>5. a \in Texts /\ b \in Texts
  <2>1. a \in Texts
    BY <1>1, JoinIs
  <2> HIDE DEF a
  <2> QED
    BY <1>1, <2>1, JoinIs
<1>6. /\ u \o (less \o q) = a \o q /\ a \o q = b \o r
      /\ u \o ((less \o name) \o more) = b \o more
  <2>1. (u \o less) \o q = u \o (less \o q)
    BY <1>1, <1>2, JoinTwice
  <2>2. a \o (name \o r) = (a \o name) \o r
    <3>1. a \in Texts /\ name \in Texts /\ r \in Texts
      BY <1>1, <1>2, <1>5
    <3> HIDE DEF a
    <3> QED
      BY <3>1, JoinTwice
  <2>3. less \o name \in Texts
    BY <1>1, JoinIs
  <2>4. (u \o (less \o name)) \o more = u \o ((less \o name) \o more)
    <3> DEFINE x == less \o name
    <3> HIDE DEF x
    <3> QED
      BY <1>1, <2>3, JoinTwice DEF x
  <2>5. (u \o less) \o name = u \o (less \o name)
    BY <1>1, JoinTwice
  <2> QED
    BY <2>1, <2>2, <2>4, <2>5 DEF q
<1> DEFINE first == TagOpened(scan)
<1>7. Passes(loop, a, first) /\ first \in InTag
  <2>1. first \in InTag /\ scan \in ScanSet /\ ~scan.inside
    BY DEF InTag, ScanSet, TagOpened, Open
  <2> HIDE DEF first
  <2>2. MinifyTurn(u \o (<<Less>> \o q), Read(u, scan)) = Read(u \o <<Less>>, first)
    BY <1>2, <1>4, <2>1, MarksAre, TurnRules DEF first
  <2>3. LoopRule(loop, u \o (<<Less>> \o q))
    BY <1>2 DEF less
  <2>4. Passes(loop, u \o <<Less>>, first)
    BY <1>2, <2>2, <2>3, MarksAre, OnePasses
  <2> QED
    BY <2>1, <2>4 DEF less
<1> HIDE DEF first
<1>8. PICK second \in InTag : Passes(loop, b, second)
  <2>1. LoopRule(loop, a \o (name \o r))
    BY <1>2, <1>6 DEF q
  <2> HIDE DEF a
  <2> QED
    BY <1>2, <1>5, <1>7, <2>1, NamePasses
<1> HIDE DEF a
<1> DEFINE third == InsideSet(second, FALSE)
<1>9. third \in Open
  BY DEF InTag, Open, ScanSet, InsideSet
<1> HIDE DEF third, b
<1>10. Passes(loop, b \o more, third)
  <2>1. second \in ScanSet /\ second.inside
    BY DEF InTag
  <2> DEFINE c == More  s == b \o (<<c>> \o v)
  <2>2. ~(v # <<>> /\ v[1] = c) /\ (c # More) = FALSE /\ c # Break /\ c \in Lexemes
    BY MarksAre DEF Follows
  <2>3. LoopRule(loop, s)
    BY <1>2, <1>6 DEF r, more
  <2>4. b \in Texts
    BY <1>5
  <2>5. more = <<c>>
    BY DEF more
  <2> HIDE DEF c
  <2>6. MinifyTurn(s, Read(b, second)) = Read(b \o <<c>>, InsideSet(second, c # More))
    BY <2>1, <2>2, <2>4, TurnRules
  <2>7. MinifyTurn(s, Read(b, second)) = Read(b \o <<c>>, third)
    BY <2>2, <2>6 DEF third
  <2>8. Passes(loop, b \o <<c>>, third)
    BY <1>8, <2>2, <2>3, <2>4, <2>7, OnePasses
  <2> QED
    BY <2>5, <2>8
<1> QED
  BY <1>3, <1>6, <1>9, <1>10

\* All texts of a phrase keep their white space.
Kept(p) == Len(p) > 1 \/ ~IsText(p[1])

(* So is what each tag of a readable phrase is written as.                    *)
LEMMA WrittenPasses ==
    ASSUME NEW p \in Seq(Leaves), Readable(p), Kept(p), NEW i \in 1 .. Len(p),
           NEW u \in Texts, NEW loop, LoopRule(loop, u \o From(p, i)),
           NEW scan \in Open, Passes(loop, u, scan)
    PROVE  \E next \in Open : Passes(loop, u \o Written(p[i]), next)
<1> DEFINE w == Written(p[i])  v == From(p, i + 1)
<1>1. /\ From(p, i) = w \o v /\ w \in Texts /\ v \in Texts
      /\ i + 1 \in 1 .. Len(p) + 1
  <2>1. i + 1 \in 1 .. Len(p) + 1
    BY RestGoes
  <2> QED
    BY <2>1, RestGoes
<1>2. LoopRule(loop, u \o (w \o v))
  BY <1>1
<1>3. ~IsText(p[i]) => Follows(v)
  BY RestFollows
<1> HIDE DEF v, w
<1>4. ASSUME NEW t, TextAt(p, i, t) PROVE \E next \in Open : Passes(loop, u \o w, next)
  <2>1. KeepsSpaces(t) /\ t \in Texts /\ w = Escaped(t)
    <3>1. IsText(p[i]) /\ (Len(p) > 1 => KeepsSpaces(t)) /\ t \in Texts /\ w = Escaped(t)
      BY <1>4 DEF TextAt, w
    <3>2. Len(p) > 1
      <4>1. Len(p) \in Nat
        BY RestGoes
      <4>2. CASE i = 1
        BY <3>1, <4>2 DEF Kept
      <4>3. CASE i # 1
        BY <4>1, <4>3
      <4> QED
        BY <4>2, <4>3
    <3> QED
      BY <3>1, <3>2
  <2> QED
    BY <1>1, <1>2, <2>1, TextPasses
<1>5. ASSUME NEW name, BareAt(p, i, name) PROVE \E next \in Open : Passes(loop, u \o w, next)
  <2>1. Nameable(name) /\ w = Opening(name) /\ Follows(v)
    BY <1>3, <1>5 DEF BareAt, w
  <2> QED
    BY <1>1, <1>2, <2>1, OpeningPasses
<1>6. ASSUME NEW name, NEW t, FullAt(p, i, name, t)
      PROVE  \E next \in Open : Passes(loop, u \o w, next)
  <2> DEFINE o == Opening(name)  e == Escaped(t)  z == EndOf(name)  r == z \o v  a == u \o o
             b == a \o e
  <2>1. /\ Nameable(name) /\ w = (o \o e) \o z /\ Follows(v)
        /\ t \in Texts /\ t # <<>> /\ t[1] # More /\ KeepsSpaces(t)
    BY <1>3, <1>6 DEF FullAt, w
  <2>2. r \in Texts /\ e \o r \in Texts /\ Follows(e \o r) /\ w \o v = o \o (e \o r)
    BY <1>1, <2>1, FullSplits
  <2>3. o \in Texts /\ e \in Texts /\ z \in Texts
    BY <2>1, OpeningIs, EscapedIs DEF Nameable
  <2>4. LoopRule(loop, u \o (o \o (e \o r)))
    BY <1>2, <2>2
  <2>5. PICK first \in Open : Passes(loop, a, first)
    <3> DEFINE x == e \o r
    <3>1. x \in Texts /\ Follows(x) /\ LoopRule(loop, u \o (o \o x))
      BY <2>2, <2>4
    <3> HIDE DEF x
    <3> QED
      BY <2>1, <3>1, OpeningPasses
  <2>10. Nameable(<<Slash>> \o name) /\ z = Opening(<<Slash>> \o name)
    BY <2>1, EndIsOpening
  <2> HIDE DEF o, e, z, r
  <2>6. a \in Texts /\ b \in Texts /\ u \o (o \o (e \o r)) = a \o (e \o r)
        /\ a \o (e \o r) = b \o r /\ u \o ((o \o e) \o z) = b \o z
    <3>1. a \in Texts
      BY <2>3, JoinIs
    <3>2. (u \o o) \o (e \o r) = u \o (o \o (e \o r))
      <4> DEFINE x == e \o r
      <4>1. x \in Texts
        BY <2>2
      <4> HIDE DEF x
      <4>2. (u \o o) \o x = u \o (o \o x)
        BY <2>3, <4>1, JoinTwice
      <4> QED
        BY <4>2 DEF x
    <3>3. o \o e \in Texts
      BY <2>3, JoinIs
    <3>4. (u \o (o \o e)) \o z = u \o ((o \o e) \o z)
      <4> DEFINE x == o \o e
      <4>1. x \in Texts
        BY <3>3
      <4> HIDE DEF x
      <4>2. (u \o x) \o z = u \o (x \o z)
        BY <2>3, <4>1, JoinTwice
      <4> QED
        BY <4>2 DEF x
    <3>5. (u \o o) \o e = u \o (o \o e)
      BY <2>3, JoinTwice
    <3>6. (a \o e) \o r = a \o (e \o r) /\ a \o e \in Texts
      <4>1. a \in Texts /\ e \in Texts /\ r \in Texts
        BY <2>2, <2>3, <3>1
      <4> HIDE DEF a
      <4>2. (a \o e) \o r = a \o (e \o r)
        BY <4>1, JoinTwice
      <4>3. a \o e \in Texts
        BY <4>1, JoinIs
      <4> QED
        BY <4>2, <4>3
    <3> QED
      BY <3>1, <3>2, <3>4, <3>5, <3>6
  <2> HIDE DEF a
  <2>7. PICK second \in Open : Passes(loop, b, second)
    <3>1. LoopRule(loop, a \o (Escaped(t) \o r))
      BY <2>4, <2>6 DEF e
    <3>2. \E next \in Open : Passes(loop, a \o Escaped(t), next)
      BY <2>1, <2>2, <2>5, <2>6, <3>1, TextPasses
    <3> QED
      BY <3>2 DEF e
  <2> HIDE DEF b
  <2>8. \E next \in Open : Passes(loop, b \o z, next)
    <3> DEFINE n == <<Slash>> \o name
    <3>1. Nameable(n) /\ z = Opening(n)
      BY <2>10
    <3>2. LoopRule(loop, b \o (z \o v))
      BY <2>4, <2>6 DEF r
    <3> HIDE DEF n
    <3>3. LoopRule(loop, b \o (Opening(n) \o v))
      BY <3>1, <3>2
    <3>4. \E next \in Open : Passes(loop, b \o Opening(n), next)
      BY <1>1, <2>1, <2>6, <2>7, <3>1, <3>3, OpeningPasses
    <3> QED
      BY <3>1, <3>4
  <2>9. u \o w = b \o z
    BY <2>1, <2>6
  <2> QED
    BY <2>8, <2>9
<1>7. \E next \in Open : Passes(loop, u \o w, next)
  BY <1>4, <1>5, <1>6, ReadableIs
<1> QED
  BY <1>7 DEF w

(* What is written for a readable phrase stays as it is when lines are joined. *)
LEMMA MinifiedStays ==
    ASSUME NEW p \in Seq(Leaves), Readable(p), Kept(p)
    PROVE  Minified(WrittenAs(p)) = WrittenAs(p)
<1> DEFINE N == Len(p)  s == WrittenAs(p)
<1>1. /\ N \in Nat /\ s \in Texts /\ From(p, 1) = s /\ From(p, N + 1) = <<>>
      /\ \A i \in 1 .. N + 1 : From(p, i) \in Texts
  <2>1. 1 \in 1 .. Len(p) + 1
    BY RestGoes
  <2> QED
    BY <2>1, RestGoes
<1>2. PICK loop : LoopRule(loop, s)
  BY <1>1, MinifiedGoes, TextsAre
<1> DEFINE Gone(i) == \E u \in Texts, scan \in Open : s = u \o From(p, i) /\ Passes(loop, u, scan)
           S == {k \in 0 .. N : Gone(k + 1)}
<1>3. 0 \in S
  <2> DEFINE none == <<>>
  <2>1. none \in Texts /\ Len(none) = 0 /\ none \o s = s
    BY <1>1, TextsJoin
  <2>2. ScanStart \in Open
    BY DEF Open, ScanStart, Scan, ScanSet
  <2>3. loop[0] = Read(none, ScanStart)
    BY <1>2, <2>1 DEF LoopRule, Read
  <2> HIDE DEF none
  <2>4. Passes(loop, none, ScanStart)
    <3>1. 0 \in 0 .. Len(none)
      BY <2>1
    <3> QED
      BY <2>3, <3>1 DEF Passes
  <2>5. Gone(1)
    BY <1>1, <2>1, <2>2, <2>4
  <2>6. 0 \in 0 .. N /\ 0 + 1 = 1
    BY <1>1
  <2> HIDE DEF Gone
  <2> QED
    BY <2>5, <2>6
<1>4. ASSUME NEW k \in 0 .. N - 1, k \in S PROVE k + 1 \in S
  <2> DEFINE i == k + 1  w == Written(p[i])  v == From(p, i + 1)
  <2>1. i \in 1 .. N /\ i \in 0 .. N /\ i + 1 \in 1 .. N + 1
    BY <1>1
  <2>2. From(p, i) = w \o v /\ w \in Texts /\ v \in Texts
    BY <1>1, <2>1, RestGoes
  <2>3. PICK u \in Texts, scan \in Open : s = u \o From(p, i) /\ Passes(loop, u, scan)
    BY <1>4
  <2>4. PICK next \in Open : Passes(loop, u \o w, next)
    <3>1. LoopRule(loop, u \o From(p, i))
      BY <1>2, <2>3
    <3> HIDE DEF i
    <3> QED
      BY <2>1, <2>3, <3>1, WrittenPasses
  <2> HIDE DEF w, v
  <2>5. u \o w \in Texts /\ s = (u \o w) \o v
    <3>1. u \o w \in Texts
      BY <2>2, JoinIs
    <3>2. (u \o w) \o v = u \o (w \o v)
      BY <2>2, JoinTwice
    <3> QED
      BY <2>2, <2>3, <3>1, <3>2
  <2>6. Gone(i + 1)
    BY <2>4, <2>5 DEF v
  <2> HIDE DEF Gone
  <2> QED
    BY <2>1, <2>6
<1>5. \A k \in 0 .. N - 1 : k \in S => k + 1 \in S
  BY <1>4
<1> HIDE DEF S, N
<1>6. \A k \in 0 .. N : k \in S
  BY ONLY <1>1, <1>3, <1>5, UpTo
<1>7. PICK scan \in Open : Passes(loop, s, scan)
  <2>1. N \in S
    BY <1>1, <1>6
  <2>2. Gone(N + 1)
    <3> HIDE DEF Gone
    <3> QED
      BY <2>1 DEF S
  <2>3. \A u \in Texts : u \o <<>> = u
    BY TextsJoin
  <2> QED
    BY <1>1, <2>2, <2>3
<1> DEFINE M == Len(s)  m == Read(s, scan)
<1>8. M \in Nat /\ m.next > M /\ m.written = s
  BY <1>1, TextsJoin DEF Read
<1>9. PICK j \in 0 .. M : loop[j] = m
  BY <1>7 DEF Passes
<1>10. MinifyTurn(s, m) = m
  BY <1>8, Zenon DEF MinifyTurn
<1>11. \A k \in 1 .. M : loop[k] = MinifyTurn(s, loop[k - 1])
  BY <1>2 DEF LoopRule
<1>12. Minified(s) = loop[M].written
  BY <1>2 DEF LoopRule
<1> HIDE DEF M, m
<1> DEFINE R == {k \in 0 .. M : j + k <= M => loop[j + k] = m}
<1>13. 0 \in R
  BY <1>8, <1>9
<1>14. ASSUME NEW k \in 0 .. M - 1, k \in R PROVE k + 1 \in R
  <2> SUFFICES ASSUME j + (k + 1) <= M PROVE loop[j + (k + 1)] = m
    BY <1>8
  <2>1. j + (k + 1) \in 1 .. M /\ (j + (k + 1)) - 1 = j + k /\ j + k <= M
    BY <1>8, <1>9
  <2>2. loop[j + (k + 1)] = MinifyTurn(s, loop[j + k])
    BY <1>11, <2>1
  <2> QED
    BY <1>10, <1>14, <2>1, <2>2
<1>15. \A k \in 0 .. M - 1 : k \in R => k + 1 \in R
  BY <1>14
<1> HIDE DEF R
<1>16. \A k \in 0 .. M : k \in R
  BY ONLY <1>8, <1>13, <1>15, UpTo
<1>17. loop[M] = m
  <2>1. M - j \in 0 .. M /\ j + (M - j) = M
    BY <1>8, <1>9
  <2>2. M - j \in R
    BY <1>16, <2>1
  <2> QED
    BY <2>1, <2>2 DEF R
<1> QED
  BY <1>8, <1>12, <1>17

-----------------------------------------------------------------------------
(* The children that the turns of the loop find                                *)

TurnOf(children) == [rest \in Texts |-> ChildrenBy(children, rest)]

ChildRule(f, M) ==
    /\ f = [n \in 0 .. M |-> f[n]] /\ f[0] = [rest \in Texts |-> {}]
    /\ \A n \in 1 .. M : f[n] = TurnOf(f[n - 1])

(* The children that Parsed gives are those the last turn finds.              *)
LEMMA ParsedGoes ==
    ASSUME NEW s \in Texts
    PROVE  \E children : /\ ChildRule(children, Len(s) + 1)
                         /\ \A name : Parsed(s, name) = ParsedBy(children[Len(s) + 1], s, name)
<1> DEFINE M == Len(s) + 1
           Turn(f, n) == [rest \in Texts |-> IF n = 0 THEN {} ELSE ChildrenBy(f[n - 1], rest)]
           Rule(f) == f = [n \in 0 .. M |-> Turn(f, n)]
           loop == CHOOSE f : Rule(f)
           S == {k \in 0 .. M : \E f : ChildRule(f, k)}
<1>1. M \in Nat
  BY TextsJoin
<1>2. \A name : Parsed(s, name) = ParsedBy(loop[M], s, name)
  BY Zenon DEF Parsed
<1>3. \A f, n : Turn(f, n) = IF n = 0 THEN [rest \in Texts |-> {}] ELSE TurnOf(f[n - 1])
  BY Zenon DEF TurnOf
<1> HIDE DEF loop, M, Turn
<1>4. 0 \in S
  <2> DEFINE none == [rest \in Texts |-> {}]  f == [n \in 0 .. 0 |-> none]
  <2> HIDE DEF none
  <2>1. f = [n \in 0 .. 0 |-> f[n]] /\ f[0] = none /\ 1 .. 0 = {}
    OBVIOUS
  <2> HIDE DEF f
  <2>2. ChildRule(f, 0)
    BY <2>1 DEF ChildRule, none
  <2> QED
    BY <1>1, <2>2
<1>5. ASSUME NEW k \in 0 .. M - 1, k \in S PROVE k + 1 \in S
  <2>1. PICK f : ChildRule(f, k)
    BY <1>5
  <2> DEFINE new == TurnOf(f[k])  g == [n \in 0 .. k + 1 |-> IF n = k + 1 THEN new ELSE f[n]]
  <2>2. /\ k \in Nat /\ 0 \in 0 .. k + 1 /\ 0 # k + 1 /\ k + 1 \in 0 .. k + 1 /\ k + 1 \in 0 .. M
        /\ (k + 1) - 1 = k /\ k \in 0 .. k + 1 /\ k # k + 1
        /\ \A n \in 1 .. k : n \in 0 .. k + 1 /\ n # k + 1 /\ n - 1 \in 0 .. k + 1 /\ n - 1 # k + 1
        /\ \A n \in 1 .. k + 1 : n \in 1 .. k \/ n = k + 1
    BY <1>1
  <2> HIDE DEF new
  <2>3. /\ g = [n \in 0 .. k + 1 |-> g[n]]
        /\ \A n \in 0 .. k + 1 : g[n] = IF n = k + 1 THEN new ELSE f[n]
    OBVIOUS
  <2> HIDE DEF g
  <2>4. g[0] = [rest \in Texts |-> {}]
    BY <2>1, <2>2, <2>3 DEF ChildRule
  <2>5. ASSUME NEW n \in 1 .. k + 1 PROVE g[n] = TurnOf(g[n - 1])
    <3>1. CASE n = k + 1
      <4>1. g[k + 1] = new /\ g[k] = f[k]
        BY <2>2, <2>3
      <4> QED
        BY <2>2, <3>1, <4>1 DEF new
    <3>2. CASE n \in 1 .. k
      <4>1. g[n] = f[n] /\ g[n - 1] = f[n - 1]
        BY <2>2, <2>3, <3>2
      <4>2. f[n] = TurnOf(f[n - 1])
        BY <2>1, <3>2 DEF ChildRule
      <4> QED
        BY <4>1, <4>2
    <3> QED
      BY <2>2, <3>1, <3>2
  <2>6. ChildRule(g, k + 1)
    BY <2>3, <2>4, <2>5 DEF ChildRule
  <2> QED
    BY <2>2, <2>6
<1>6. \A k \in 0 .. M - 1 : k \in S => k + 1 \in S
  BY <1>5
<1> HIDE DEF S
<1>7. \A k \in 0 .. M : k \in S
  BY ONLY <1>1, <1>4, <1>6, UpTo
<1>8. PICK g : ChildRule(g, M)
  <2>1. M \in S
    BY <1>1, <1>7
  <2> QED
    BY <2>1 DEF S
<1>9. Rule(g)
  <2>1. \A n \in 0 .. M : g[n] = Turn(g, n)
    <3>1. g[0] = Turn(g, 0)
      BY <1>3, <1>8 DEF ChildRule
    <3>2. ASSUME NEW n \in 1 .. M PROVE g[n] = Turn(g, n)
      <4>1. n # 0
        BY <1>1
      <4>2. g[n] = TurnOf(g[n - 1])
        BY <1>8 DEF ChildRule
      <4> QED
        BY <1>3, <4>1, <4>2
    <3>3. \A n \in 0 .. M : n = 0 \/ n \in 1 .. M
      BY <1>1
    <3> QED
      BY <3>1, <3>2, <3>3
  <2>2. g = [n \in 0 .. M |-> g[n]]
    BY <1>8 DEF ChildRule
  <2> QED
    BY <2>1, <2>2
<1>10. Rule(loop)
  <2> HIDE DEF Rule
  <2> QED
    BY <1>9 DEF loop
<1>11. loop = [n \in 0 .. M |-> loop[n]] /\ \A n \in 0 .. M : loop[n] = Turn(loop, n)
  BY <1>10
<1>12. ChildRule(loop, M)
  <2>1. 0 \in 0 .. M /\ \A n \in 1 .. M : n \in 0 .. M /\ n # 0
    BY <1>1
  <2>2. loop[0] = [rest \in Texts |-> {}]
    BY <1>3, <1>11, <2>1
  <2>3. \A n \in 1 .. M : loop[n] = TurnOf(loop[n - 1])
    BY <1>3, <1>11, <2>1
  <2> QED
    BY <1>11, <2>2, <2>3 DEF ChildRule
<1> QED
  BY <1>2, <1>12 DEF M

-----------------------------------------------------------------------------
(* What a turn of the loop finds                                               *)

\* A source that is cut between u and v, at c
(* A text is cut into what is before a place and what is after it.            *)
LEMMA CutSplits ==
    ASSUME NEW u \in Texts, NEW c \in Lexemes, NEW v \in Texts, NEW cut, cut = Len(u) + 1
    PROVE  LET s == u \o (<<c>> \o v) IN Before(s, cut) = u /\ After(s, cut) = v
<1> DEFINE one == <<c>>  x == one \o v  s == u \o x  a == u \o one
<1>1. one \in Texts /\ Len(one) = 1 /\ Len(u) \in Nat
  BY TextsJoin
<1> HIDE DEF one
<1>2. x \in Texts /\ a \in Texts /\ Len(a) = Len(u) + 1
  BY <1>1, JoinIs
<1>3. s = a \o v
  BY <1>1, JoinTwice
<1>4. cut # 0 /\ cut - 1 = Len(u) /\ cut + 1 = Len(a) + 1
  BY <1>1, <1>2
<1>5. SubSeq(s, 1, Len(u)) = u
  <2> HIDE DEF x
  <2> QED
    BY <1>2, JoinSplits
<1>6. SubSeq(s, Len(a) + 1, Len(s)) = v
  <2>1. SubSeq(a \o v, Len(a) + 1, Len(a \o v)) = v
    <3> HIDE DEF a
    <3> QED
      BY <1>2, JoinSplits
  <2> QED
    BY <1>3, <2>1
<1> HIDE DEF s, a
<1>7. Before(s, cut) = u /\ After(s, cut) = v
  BY <1>4, <1>5, <1>6 DEF Before, After
<1> QED
  BY <1>7 DEF s, x, one

(* A text between tags is read as it was meant.                               *)
LEMMA TextIsRead ==
    ASSUME NEW t \in Texts, NEW children, NEW name
    PROVE  /\ TextTag(Escaped(t)) = Tag(TextName, {t}, <<>>)
           /\ ParsedBy(children, Escaped(t), name) = {Tag(name, {t}, <<>>)}
<1> DEFINE e == Escaped(t)
<1>1. Stripped(e) = t
  <2>1. Stripped(e \o <<>>) = t \o Stripped(<<>>)
    BY TextGoes, TextsJoin
  <2>2. e \o <<>> = e /\ t \o <<>> = t
    BY EscapedIs, TextsJoin
  <2> QED
    BY <2>1, <2>2, StrippedIs
<1>2. Count(e, Less) = 2 * Count(t, Less)
  BY TextGoes
<1> HIDE DEF e
<1>3. TextTag(e) = Tag(TextName, {Stripped(e)}, <<>>)
  BY Zenon DEF TextTag, TextName
<1>4. Count(e, Less) = 2 * Count(Stripped(e), Less)
      => ParsedBy(children, e, name) = {Tag(name, {Stripped(e)}, <<>>)}
  BY Zenon DEF ParsedBy, Less
<1> QED
  BY <1>1, <1>2, <1>3, <1>4 DEF e

(* So is the name of a tag,                                                   *)
LEMMA NamedIs ==
    ASSUME NEW children, NEW name, Nameable(name), NEW w \in Texts, Follows(w)
    PROVE  Named(children, name \o (<<More>> \o w)) = Contained(children, name, w)
<1> DEFINE s == name \o (<<More>> \o w)  cut == CutAt(s, More)
<1>1. /\ name \in Texts /\ name # <<>> /\ Len(name) >= 1 /\ Len(name) \in Nat
  <2>1. name \in Texts /\ name # <<>>
    BY DEF Nameable
  <2> QED
    BY <2>1, TextsJoin
<1>2. cut = Len(name) + 1
  BY OpeningGoes
<1> HIDE DEF cut
<1>3. Before(s, cut) = name /\ After(s, cut) = w
  BY <1>1, <1>2, MarksAre, CutSplits
<1>4. NameOf(name) = name
  BY NameGoes
<1>5. cut > 1 /\ cut # 1 /\ cut # 0 /\ s # <<>>
  <2>1. <<More>> \o w \in Texts
    BY MarksAre, FirstOfOne
  <2> DEFINE x == <<More>> \o w
  <2> HIDE DEF x
  <2>2. s \in Texts /\ Len(s) = Len(name) + Len(x) /\ Len(x) \in Nat
    BY <1>1, <2>1, JoinIs DEF x
  <2> HIDE DEF s
  <2>3. Len(s) >= 1
    BY <1>1, <2>2
  <2>4. s # <<>>
    BY <2>2, <2>3, TextsJoin
  <2> QED
    BY <1>1, <1>2, <2>4
<1> HIDE DEF s
<1>6. cut = CutAt(s, ">")
  BY Zenon DEF cut, More
<1>7. Named(children, s) = Contained(children, name, w)
  <2> DEFINE A == s = <<>> \/ cut = 1
             B == s # <<>> /\ cut = 0
             C == cut > 1 /\ name = <<>>
             D == cut > 1 /\ name # <<>>
             b == IF name = <<>> THEN {<<>>} ELSE {}
             d == Contained(children, name, w)
  <2>1. Named(children, s) = CASE A -> {<<>>} [] B -> b [] C -> children[w] [] D -> d
    <3>1. /\ After(s, CutAt(s, ">")) = w /\ NameOf(Before(s, CutAt(s, ">"))) = name
      BY <1>3, <1>4, <1>6
    <3> QED
      BY <1>6, <3>1, Zenon DEF Named
  <2>2. ~A /\ ~B /\ ~C /\ D
    BY <1>1, <1>5
  <2> HIDE DEF A, B, C, D, b, d
  <2>3. Named(children, s) = d
    BY <2>1, <2>2
  <2> QED
    BY <2>3 DEF d
<1> QED
  BY <1>7 DEF s

(* and what has no name has no children.                                      *)
LEMMA NothingNamed == ASSUME NEW children PROVE Named(children, <<>>) = {<<>>}
<1> DEFINE s == <<>>  cut == CutAt(s, More)
<1>1. cut = 0 /\ s = <<>>
  BY MarksAre, CutIs
<1>2. cut = CutAt(s, ">")
  BY Zenon DEF More
<1> HIDE DEF s, cut
<1> DEFINE name == NameOf(Before(s, cut))
           A == s = <<>> \/ cut = 1
           B == s # <<>> /\ cut = 0
           C == cut > 1 /\ name = <<>>
           D == cut > 1 /\ name # <<>>
           b == IF name = <<>> THEN {<<>>} ELSE {}
           c == children[After(s, cut)]
           d == Contained(children, name, After(s, cut))
<1>3. Named(children, s) = CASE A -> {<<>>} [] B -> b [] C -> c [] D -> d
  BY <1>2, Zenon DEF Named
<1>4. A /\ ~B /\ ~C /\ ~D
  BY <1>1
<1> HIDE DEF A, B, C, D, b, c, d
<1>5. Named(children, s) = {<<>>}
  BY <1>3, <1>4
<1> QED
  BY <1>1, <1>5

Only(S, x) == S = {x}

\* A tag without text has no end, and what follows it is what is left.
(* A tag that does not end holds nothing,                                     *)
LEMMA BareContained ==
    ASSUME NEW children, NEW name, NEW v, NEW tags, Only(children[v], tags),
           Occurrences(EndOf(name), v) = {}
    PROVE  Only(Contained(children, name, v), <<Tag(name, NoText, <<>>)>> \o tags)
<1> DEFINE one == <<Tag(name, NoText, <<>>)>>
<1>1. Contained(children, name, v) = {one \o rest : rest \in children[v]}
  BY Zenon DEF Contained
<1> HIDE DEF one
<1>2. {one \o rest : rest \in children[v]} = {one \o tags}
  BY DEF Only
<1> QED
  BY <1>1, <1>2 DEF one, Only

\* A tag ends where its end is first found.
(* and one that ends holds its text.                                          *)
LEMMA FullContained ==
    ASSUME NEW children, NEW name, Nameable(name), NEW t \in Texts, NEW v \in Texts,
           Occurrences(EndOf(name), Escaped(t)) = {}, NEW tags, Only(children[v], tags)
    PROVE  Only(Contained(children, name, Escaped(t) \o (EndOf(name) \o v)),
                <<Tag(name, {t}, <<>>)>> \o tags)
<1> DEFINE e == Escaped(t)  z == EndOf(name)  s == e \o (z \o v)  ends == Occurrences(z, s)
           end == CHOOSE i \in ends : \A j \in ends : i <= j
           inside == ParsedBy(children, SubSeq(s, 1, end - 1), name)
           tag == Tag(name, {t}, <<>>)
<1>1. /\ Len(e) + 1 \in ends /\ \A i \in ends : Len(e) + 1 <= i
      /\ SubSeq(s, 1, Len(e)) = e /\ After(s, Len(e) + Len(z)) = v
  BY EscapedIs, FirstEnd
<1>2. e \in Texts /\ Len(e) \in Nat /\ z \in Texts /\ Len(z) \in Nat
  <2>1. e \in Texts /\ z \in Texts
    BY EscapedIs, OpeningIs DEF Nameable
  <2> QED
    BY <2>1, TextsJoin
<1> HIDE DEF inside, tag
<1>3. Contained(children, name, s)
        = IF ends = {} THEN {<<Tag(name, NoText, <<>>)>> \o rest : rest \in children[s]}
          ELSE {(IF inside = {} THEN <<>> ELSE <<CHOOSE x \in inside : TRUE>>) \o rest :
                  rest \in children[After(s, end + Len(z) - 1)]}
  BY Zenon DEF Contained, inside
<1> HIDE DEF s, z
<1>4. ends \subseteq Nat
  BY DEF Occurrences
<1> HIDE DEF ends
<1>5. end = Len(e) + 1
  <2>1. end \in ends /\ \A j \in ends : end <= j
    <3>1. \E i \in ends : \A j \in ends : i <= j
      BY <1>1
    <3> QED
      BY <3>1
  <2> HIDE DEF end
  <2> QED
    BY <1>1, <1>2, <1>4, <2>1
<1> HIDE DEF end
<1>6. end - 1 = Len(e) /\ end + Len(z) - 1 = Len(e) + Len(z)
  BY <1>2, <1>5
<1>7. inside = {tag}
  <2>1. inside = ParsedBy(children, e, name)
    BY <1>1, <1>6 DEF inside
  <2> QED
    BY <2>1, TextIsRead DEF e, tag
<1>8. (CHOOSE x \in inside : TRUE) = tag /\ inside # {}
  BY <1>7
<1>9. children[After(s, end + Len(z) - 1)] = {tags} /\ ends # {}
  BY <1>1, <1>6 DEF Only
<1> DEFINE one == <<tag>>
<1>10. Contained(children, name, s)
         = {one \o rest : rest \in children[After(s, end + Len(z) - 1)]}
  BY <1>3, <1>8, <1>9
<1> HIDE DEF one
<1>11. Contained(children, name, s) = {one \o tags}
  BY <1>9, <1>10
<1> QED
  BY <1>11 DEF one, tag, s, z, e, Only

TextBefore(before) == IF before = <<>> THEN <<>> ELSE <<TextTag(before)>>

(* What a turn finds: a tag with what is before it, or a text to the end.     *)
LEMMA ChildrenByIs ==
    ASSUME NEW children, NEW s, NEW tags,
           Only(Named(children, After(s, CutAt(s, Less))), tags)
    PROVE  Only(ChildrenBy(children, s), TextBefore(Before(s, CutAt(s, Less))) \o tags)
<1> DEFINE text == TextBefore(Before(s, CutAt(s, Less)))
<1>1. ChildrenBy(children, s)
        = {text \o rest : rest \in Named(children, After(s, CutAt(s, Less)))}
  BY Zenon DEF ChildrenBy, TextBefore, Less
<1> HIDE DEF text
<1> QED
  BY <1>1 DEF Only, text

(* A tag is found at its bracket, with what it holds and with what follows it. *)
LEMMA TagIsFound ==
    ASSUME NEW p \in Seq(Leaves), Readable(p), NEW i \in 1 .. Len(p), ~IsText(p[i]),
           NEW children, Only(children[From(p, i + 1)], Rest(p, i + 1))
    PROVE  \E x \in Texts : /\ From(p, i) = <<Less>> \o x /\ CutAt(From(p, i), Less) = 1
                            /\ Only(Named(children, x), Rest(p, i))
<1> DEFINE s == From(p, i)  v == From(p, i + 1)  q == Rest(p, i + 1)
           Found(name, w) == /\ Nameable(name) /\ w \in Texts /\ Follows(w)
                             /\ s = Opening(name) \o w
                             /\ Only(Contained(children, name, w), Rest(p, i))
<1>1. /\ s = Written(p[i]) \o v /\ v \in Texts /\ Rest(p, i) = <<p[i]>> \o q
  <2>1. i + 1 \in 1 .. Len(p) + 1
    BY RestGoes
  <2> QED
    BY <2>1, RestGoes
<1>2. Follows(v) /\ Only(children[v], q)
  BY RestFollows
<1> HIDE DEF s, v, q
<1>3. ASSUME NEW name, BareAt(p, i, name) PROVE Found(name, v)
  <2>1. /\ Nameable(name) /\ Written(p[i]) = Opening(name) /\ p[i] = Tag(name, NoText, <<>>)
        /\ Occurrences(EndOf(name), v) = {}
    BY <1>3 DEF BareAt, v
  <2>2. Only(Contained(children, name, v), <<Tag(name, NoText, <<>>)>> \o q)
    <3>1. Only(children[v], q) /\ Occurrences(EndOf(name), v) = {}
      BY <1>2, <2>1
    <3> QED
      BY <3>1, BareContained
  <2>3. Only(Contained(children, name, v), Rest(p, i))
    BY <1>1, <2>1, <2>2
  <2> QED
    BY <1>1, <1>2, <2>1, <2>3
<1>4. ASSUME NEW name, NEW t, FullAt(p, i, name, t)
      PROVE  Found(name, Escaped(t) \o (EndOf(name) \o v))
  <2> DEFINE w == Escaped(t) \o (EndOf(name) \o v)
  <2>1. /\ Nameable(name) /\ p[i] = Tag(name, {t}, <<>>) /\ t \in Texts /\ t # <<>> /\ t[1] # More
        /\ Written(p[i]) = (Opening(name) \o Escaped(t)) \o EndOf(name)
        /\ Occurrences(EndOf(name), Escaped(t)) = {}
    BY <1>4 DEF FullAt
  <2>2. w \in Texts /\ Follows(w)
        /\ ((Opening(name) \o Escaped(t)) \o EndOf(name)) \o v = Opening(name) \o w
    <3>1. Nameable(name) /\ t \in Texts /\ t # <<>> /\ t[1] # More /\ v \in Texts
      BY <1>1, <2>1
    <3> QED
      BY <3>1, FullSplits
  <2>3. Only(Contained(children, name, w), <<Tag(name, {t}, <<>>)>> \o q)
    <3>1. /\ Nameable(name) /\ t \in Texts /\ v \in Texts /\ Only(children[v], q)
          /\ Occurrences(EndOf(name), Escaped(t)) = {}
      BY <1>1, <1>2, <2>1
    <3> QED
      BY <3>1, FullContained
  <2> HIDE DEF w
  <2>4. Only(Contained(children, name, w), Rest(p, i))
    BY <1>1, <2>1, <2>3
  <2>5. s = Opening(name) \o w
    BY <1>1, <2>1, <2>2
  <2>6. Found(name, w)
    BY <2>1, <2>2, <2>4, <2>5
  <2> QED
    BY <2>6 DEF w
<1>5. PICK name, w : Found(name, w)
  <2>1. ~\E t : TextAt(p, i, t)
    BY DEF TextAt
  <2> HIDE DEF Found
  <2> QED
    BY <1>3, <1>4, <2>1, ReadableIs
<1> DEFINE x == name \o (<<More>> \o w)
<1>6. /\ Opening(name) \o w = <<Less>> \o x /\ x \in Texts /\ CutAt(Opening(name) \o w, Less) = 1
      /\ Named(children, x) = Contained(children, name, w)
  <2>1. name \in Texts
    BY <1>5 DEF Nameable
  <2> QED
    BY <1>5, <2>1, OpeningSplits, OpeningGoes, NamedIs
<1> HIDE DEF x
<1>7. s = <<Less>> \o x /\ CutAt(s, Less) = 1 /\ Only(Named(children, x), Rest(p, i))
  BY <1>5, <1>6
<1> QED
  BY <1>6, <1>7 DEF s

(* A turn at a tag finds it before what is found in what follows,             *)
LEMMA TagTurn ==
    ASSUME NEW p \in Seq(Leaves), Readable(p), NEW i \in 1 .. Len(p), ~IsText(p[i]),
           NEW children, Only(children[From(p, i + 1)], Rest(p, i + 1))
    PROVE  Only(ChildrenBy(children, From(p, i)), Rest(p, i))
<1> DEFINE s == From(p, i)  q == Rest(p, i)
<1>1. PICK x \in Texts : s = <<Less>> \o x /\ CutAt(s, Less) = 1 /\ Only(Named(children, x), q)
  BY TagIsFound
<1>2. <<>> \o q = q
  <2>1. i \in 1 .. Len(p) + 1
    BY RestGoes
  <2>2. q \in Seq(Leaves)
    BY <2>1, RestGoes
  <2> QED
    BY <2>2, ConcatEmptySeq
<1> HIDE DEF s, q
<1>3. Before(s, 1) = <<>> /\ After(s, 1) = x
  <2> DEFINE u == <<>>
  <2>1. u \in Texts /\ 1 = Len(u) + 1 /\ u \o (<<Less>> \o x) = <<Less>> \o x
    <3>1. <<Less>> \o x \in Texts
      BY MarksAre, FirstOfOne
    <3> QED
      BY <3>1, TextsJoin
  <2> HIDE DEF u
  <2> DEFINE c == Less  cut == 1
  <2>3. c \in Lexemes /\ cut = Len(u) + 1
    BY <2>1, MarksAre
  <2> HIDE DEF c, cut
  <2>4. Before(u \o (<<c>> \o x), cut) = u /\ After(u \o (<<c>> \o x), cut) = x
    BY <2>1, <2>3, CutSplits
  <2>2. Before(u \o (<<Less>> \o x), 1) = u /\ After(u \o (<<Less>> \o x), 1) = x
    BY <2>4 DEF c, cut
  <2> QED
    BY <1>1, <2>1, <2>2 DEF u
<1>4. Only(Named(children, After(s, CutAt(s, Less))), q)
  BY <1>1, <1>3
<1>5. Only(ChildrenBy(children, s), TextBefore(Before(s, CutAt(s, Less))) \o q)
  BY <1>4, ChildrenByIs
<1>6. TextBefore(Before(s, CutAt(s, Less))) \o q = q
  <2>1. TextBefore(Before(s, CutAt(s, Less))) = <<>>
    BY <1>1, <1>3 DEF TextBefore
  <2> QED
    BY <1>2, <2>1
<1> QED
  BY <1>5, <1>6 DEF s, q

(* and a turn at a text finds the text before it.                             *)
LEMMA TextTurn ==
    ASSUME NEW p \in Seq(Leaves), Readable(p), NEW i \in 1 .. Len(p), NEW t, TextAt(p, i, t),
           NEW children, i < Len(p) => Only(children[From(p, i + 2)], Rest(p, i + 2))
    PROVE  Only(ChildrenBy(children, From(p, i)), Rest(p, i))
<1> DEFINE s == From(p, i)  e == Escaped(t)  v == From(p, i + 1)  q == Rest(p, i + 1)
<1>1. Len(p) \in Nat /\ i + 1 \in 1 .. Len(p) + 1
  BY RestGoes
<1>2. /\ s = e \o v /\ v \in Texts /\ Rest(p, i) = <<p[i]>> \o q
      /\ e \in Texts /\ e # <<>> /\ TextTag(e) = p[i]
  <2>1. Written(p[i]) = e /\ p[i] = Tag(TextName, {t}, <<>>) /\ t \in Texts /\ t # <<>>
    BY DEF TextAt
  <2>2. TextTag(e) = Tag(TextName, {t}, <<>>)
    BY <2>1, TextIsRead
  <2>3. e \in Texts /\ Len(e) >= 1
    BY <2>1, EscapedBegins
  <2>4. e # <<>>
    <3> HIDE DEF e
    <3> QED
      BY <2>3, TextsJoin
  <2> QED
    BY <1>1, <2>1, <2>2, <2>3, <2>4, RestGoes
<1>3. CutAt(e \o v, Less) = Shift(Len(e), CutAt(v, Less))
  BY <1>2, MarksAre, TextGoes DEF TextAt
<1> HIDE DEF e, s
<1>4. PICK x \in Texts : Before(s, CutAt(s, Less)) = e /\ After(s, CutAt(s, Less)) = x
                         /\ Only(Named(children, x), q)
  <2>1. CASE i = Len(p)
    <3>1. v = <<>> /\ q = <<>>
      BY <2>1, RestGoes
    <3>2. CutAt(v, Less) = 0 /\ e \o v = e /\ <<>> \in Texts
      BY <1>2, <3>1, MarksAre, CutIs, TextsJoin
    <3> HIDE DEF v
    <3>3. CutAt(s, Less) = 0 /\ s = e
      BY <1>2, <1>3, <3>2 DEF Shift
    <3>4. Before(s, 0) = s /\ After(s, 0) = <<>>
      BY DEF Before, After
    <3>5. Only(Named(children, <<>>), q)
      BY <3>1, NothingNamed DEF Only
    <3> QED
      BY <3>2, <3>3, <3>4, <3>5
  <2>2. CASE i # Len(p)
    <3> DEFINE k == i + 1
    <3>1. k \in 1 .. Len(p) /\ k > 1 /\ k - 1 = i /\ k + 1 = i + 2 /\ i < Len(p)
      BY <1>1, <2>2
    <3>2. ~IsText(p[k])
      <4>1. ASSUME NEW u, TextAt(p, k, u) PROVE FALSE
        BY <3>1, <4>1 DEF TextAt
      <4> HIDE DEF k
      <4> QED
        BY <3>1, <4>1, ReadableIs DEF BareAt, FullAt
    <3>3. Only(children[From(p, k + 1)], Rest(p, k + 1))
      BY <3>1
    <3>4. v = From(p, k) /\ q = Rest(p, k)
      OBVIOUS
    <3> HIDE DEF k, v, q
    <3>5. PICK x \in Texts : v = <<Less>> \o x /\ CutAt(v, Less) = 1 /\ Only(Named(children, x), q)
      BY <3>1, <3>2, <3>3, <3>4, TagIsFound
    <3>6. CutAt(s, Less) = Len(e) + 1
      <4>1. Shift(Len(e), 1) = Len(e) + 1
        BY DEF Shift
      <4> QED
        BY <1>2, <1>3, <3>5, <4>1
    <3>7. /\ Before(e \o (<<Less>> \o x), Len(e) + 1) = e
          /\ After(e \o (<<Less>> \o x), Len(e) + 1) = x
      BY <1>2, MarksAre, CutSplits
    <3> QED
      BY <1>2, <3>5, <3>6, <3>7
  <2> QED
    BY <2>1, <2>2
<1> HIDE DEF q
<1>5. Only(Named(children, After(s, CutAt(s, Less))), q)
  BY <1>4
<1>6. Only(ChildrenBy(children, s), TextBefore(Before(s, CutAt(s, Less))) \o q)
  BY <1>5, ChildrenByIs
<1>7. TextBefore(Before(s, CutAt(s, Less))) = <<p[i]>>
  <2>1. TextBefore(e) = <<p[i]>>
    BY <1>2 DEF TextBefore
  <2> QED
    BY <1>4, <2>1
<1> QED
  BY <1>2, <1>6, <1>7 DEF s

\* Every tag takes a character.
(* What is written for a tag takes at least a character.                      *)
LEMMA WrittenTakes ==
    ASSUME NEW p \in Seq(Leaves), Readable(p), NEW i \in 1 .. Len(p)
    PROVE  /\ Len(From(p, i)) \in Nat /\ Len(From(p, i + 1)) \in Nat
           /\ Len(From(p, i)) >= Len(From(p, i + 1)) + 1
<1> DEFINE w == Written(p[i])  v == From(p, i + 1)
<1>1. From(p, i) = w \o v /\ w \in Texts /\ v \in Texts
  <2>1. i + 1 \in 1 .. Len(p) + 1
    BY RestGoes
  <2> QED
    BY <2>1, RestGoes
<1>2. ASSUME NEW name \in Texts PROVE Len(Opening(name)) >= 1
  BY <1>2, OpeningSplits, TextsJoin
<1>3. Len(w) >= 1
  <2>1. ASSUME NEW t, TextAt(p, i, t) PROVE Len(w) >= 1
    <3>1. w = Escaped(t) /\ t \in Texts /\ t # <<>>
      BY <2>1 DEF TextAt
    <3> QED
      BY <3>1, EscapedBegins
  <2>2. ASSUME NEW name, BareAt(p, i, name) PROVE Len(w) >= 1
    <3>1. w = Opening(name) /\ name \in Texts
      BY <2>2 DEF BareAt, Nameable
    <3> QED
      BY <1>2, <3>1
  <2>3. ASSUME NEW name, NEW t, FullAt(p, i, name, t) PROVE Len(w) >= 1
    <3> DEFINE o == Opening(name)  e == Escaped(t)  z == EndOf(name)  a == o \o e
    <3>1. w = a \o z /\ name \in Texts /\ t \in Texts
      BY <2>3 DEF FullAt, Nameable
    <3>2. o \in Texts /\ e \in Texts /\ z \in Texts /\ Len(o) >= 1
      BY <1>2, <3>1, OpeningIs, EscapedIs
    <3> HIDE DEF o, e, z, w
    <3>3. a \in Texts /\ Len(a) = Len(o) + Len(e) /\ Len(e) \in Nat /\ Len(o) \in Nat
      BY <3>2, JoinIs
    <3> HIDE DEF a
    <3>4. Len(a \o z) = Len(a) + Len(z) /\ Len(z) \in Nat
      BY <3>2, <3>3, JoinIs
    <3> QED
      BY <3>1, <3>2, <3>3, <3>4
  <2> HIDE DEF w
  <2> QED
    BY <2>1, <2>2, <2>3, ReadableIs
<1> HIDE DEF w, v
<1>4. Len(w \o v) = Len(w) + Len(v) /\ Len(w) \in Nat /\ Len(v) \in Nat
  BY <1>1, JoinIs
<1>5. Len(From(p, i)) = Len(w) + Len(v)
  BY <1>1, <1>4
<1> QED
  BY <1>3, <1>4, <1>5 DEF v

\* With turns enough, the children of what is left are the tags that are left.
ReadFrom(f, M, p, i) == \A n \in 1 .. M : n > Len(From(p, i)) => Only(f[n][From(p, i)], Rest(p, i))

(* From the end of a phrase to its first tag, what is read is what was meant. *)
LEMMA ChildrenAre ==
    ASSUME NEW p \in Seq(Leaves), Readable(p), NEW M \in Nat, NEW f, ChildRule(f, M)
    PROVE  \A i \in 1 .. Len(p) + 1 : ReadFrom(f, M, p, i)
<1> DEFINE N == Len(p)
<1>1. N \in Nat /\ \A i \in 1 .. N + 1 : From(p, i) \in Texts /\ Len(From(p, i)) \in Nat
  BY RestGoes, TextsJoin
<1>2. \A n \in 1 .. M : \A rest \in Texts : f[n][rest] = ChildrenBy(f[n - 1], rest)
  BY DEF ChildRule, TurnOf
<1>3. ReadFrom(f, M, p, N + 1)
  <2>1. From(p, N + 1) = <<>> /\ Rest(p, N + 1) = <<>> /\ <<>> \in Texts
    BY RestGoes, TextsJoin
  <2>2. \A children : Only(ChildrenBy(children, <<>>), <<>>)
    <3>1. ASSUME NEW children PROVE Only(ChildrenBy(children, <<>>), <<>>)
      <4> DEFINE none == <<>>
      <4>1. CutAt(none, Less) = 0 /\ Before(none, 0) = none /\ After(none, 0) = none
            /\ none \o none = none
        BY MarksAre, CutIs, TextsJoin DEF Before, After
      <4>2. TextBefore(none) = none
        BY DEF TextBefore
      <4>3. Only(Named(children, none), none)
        BY NothingNamed DEF Only
      <4> HIDE DEF none
      <4>4. Only(Named(children, After(none, CutAt(none, Less))), none)
        BY <4>1, <4>3
      <4>5. Only(ChildrenBy(children, none), TextBefore(Before(none, CutAt(none, Less))) \o none)
        BY <4>4, ChildrenByIs
      <4>6. Only(ChildrenBy(children, none), none)
        BY <4>1, <4>2, <4>5
      <4> QED
        BY <4>6 DEF none
    <3> QED
      BY <3>1
  <2> QED
    BY <1>2, <2>1, <2>2 DEF ReadFrom
<1>4. ASSUME NEW i \in 1 .. N, \A j \in i + 1 .. N + 1 : ReadFrom(f, M, p, j)
      PROVE  ReadFrom(f, M, p, i)
  <2> SUFFICES ASSUME NEW n \in 1 .. M, n > Len(From(p, i))
               PROVE  Only(f[n][From(p, i)], Rest(p, i))
    BY DEF ReadFrom
  <2> DEFINE children == f[n - 1]
  <2>1. i + 1 \in i + 1 .. N + 1 /\ i \in 1 .. N + 1 /\ i + 1 \in 1 .. N + 1
    BY <1>1
  <2>2. Len(From(p, i)) >= Len(From(p, i + 1)) + 1
    BY WrittenTakes
  <2>3. f[n][From(p, i)] = ChildrenBy(children, From(p, i))
    BY <1>1, <1>2, <2>1
  <2>4. n - 1 \in 1 .. M /\ n - 1 > Len(From(p, i + 1))
    BY <1>1, <2>1, <2>2
  <2>5. Only(children[From(p, i + 1)], Rest(p, i + 1))
    BY <1>4, <2>1, <2>4 DEF ReadFrom
  <2>6. i < N => Only(children[From(p, i + 2)], Rest(p, i + 2))
    <3> SUFFICES ASSUME i < N PROVE Only(children[From(p, i + 2)], Rest(p, i + 2))
      OBVIOUS
    <3> DEFINE k == i + 1
    <3>1. k \in 1 .. N /\ k + 1 = i + 2 /\ i + 2 \in i + 1 .. N + 1 /\ i + 2 \in 1 .. N + 1
      BY <1>1
    <3>2. Len(From(p, k)) >= Len(From(p, k + 1)) + 1
      <4> HIDE DEF k
      <4> QED
        BY <3>1, WrittenTakes
    <3>3. Len(From(p, i + 1)) >= Len(From(p, i + 2)) + 1
      BY <3>1, <3>2
    <3>4. n - 1 > Len(From(p, i + 2))
      BY <1>1, <2>1, <2>4, <3>1, <3>3
    <3> QED
      BY <1>4, <2>4, <3>1, <3>4 DEF ReadFrom
  <2> HIDE DEF children
  <2>7. Only(ChildrenBy(children, From(p, i)), Rest(p, i))
    <3>1. CASE ~IsText(p[i])
      BY <2>5, <3>1, TagTurn
    <3>2. CASE IsText(p[i])
      <4>1. PICK t : TextAt(p, i, t)
        BY <3>2, ReadableIs DEF BareAt, FullAt
      <4> QED
        BY <2>6, <4>1, TextTurn
    <3> QED
      BY <3>1, <3>2
  <2> QED
    BY <2>3, <2>7
<1> DEFINE S == {k \in 0 .. N : \A j \in N + 1 - k .. N + 1 : ReadFrom(f, M, p, j)}
<1>5. 0 \in S
  <2>1. 0 \in 0 .. N /\ \A j \in N + 1 - 0 .. N + 1 : j = N + 1
    BY <1>1
  <2> QED
    BY <1>3, <2>1
<1>6. ASSUME NEW k \in 0 .. N - 1, k \in S PROVE k + 1 \in S
  <2>1. /\ N - k \in 1 .. N /\ k + 1 \in 0 .. N /\ (N - k) + 1 = N + 1 - k
        /\ \A j \in N + 1 - (k + 1) .. N + 1 : j = N - k \/ j \in N + 1 - k .. N + 1
    BY <1>1
  <2>2. \A j \in N + 1 - k .. N + 1 : ReadFrom(f, M, p, j)
    BY <1>6
  <2>3. ReadFrom(f, M, p, N - k)
    BY <1>4, <2>1, <2>2
  <2> QED
    BY <2>1, <2>2, <2>3
<1>7. \A k \in 0 .. N - 1 : k \in S => k + 1 \in S
  BY <1>6
<1> HIDE DEF S, N
<1>8. \A k \in 0 .. N : k \in S
  BY ONLY <1>1, <1>5, <1>7, UpTo
<1>9. N \in S
  BY <1>1, <1>8
<1>10. N + 1 - N = 1
  BY <1>1
<1> QED
  BY <1>9, <1>10 DEF S, N

(* A readable phrase is read as it was meant, whatever its tags and texts.     *)
LEMMA PhraseIsRead ==
    ASSUME NEW p \in Seq(Leaves), Readable(p), NEW name
    PROVE  Parsed(WrittenAs(p), name) = {Intended(p, name)}
<1> DEFINE s == WrittenAs(p)  M == Len(s) + 1
<1>1. /\ s \in Texts /\ s = From(p, 1) /\ Len(p) \in Nat /\ p # <<>> /\ Len(s) \in Nat
      /\ Rest(p, 1) = p
  <2>1. s \in Texts
    BY PhraseIsWritten
  <2>2. p # <<>>
    BY Zenon DEF Readable, WellFormed
  <2> QED
    BY <2>1, <2>2, RestGoes, TextsJoin
<1>2. Len(p) >= 1 /\ 1 \in 1 .. Len(p) /\ 1 \in 1 .. Len(p) + 1
  <2>1. Len(p) # 0
    BY <1>1
  <2> QED
    BY <1>1, <2>1
<1>3. PICK children : /\ ChildRule(children, M)
                      /\ \A n : Parsed(s, n) = ParsedBy(children[M], s, n)
  BY <1>1, ParsedGoes
<1>4. CASE IsText(p[1]) /\ Len(p) = 1
  <2>1. PICK t : TextAt(p, 1, t)
    BY <1>2, <1>4, ReadableIs DEF BareAt, FullAt
  <2>2. p[1] = Tag(TextName, {t}, <<>>) /\ Written(p[1]) = Escaped(t) /\ t \in Texts
    BY <2>1 DEF TextAt
  <2>3. s = Escaped(t)
    <3>1. From(p, 1) = Written(p[1]) \o From(p, 1 + 1) /\ From(p, Len(p) + 1) = <<>>
      BY <1>2, RestGoes
    <3>2. Escaped(t) \o <<>> = Escaped(t)
      BY <2>2, EscapedIs, TextsJoin
    <3> QED
      BY <1>1, <1>4, <2>2, <3>1, <3>2
  <2>4. ParsedBy(children[M], Escaped(t), name) = {Tag(name, {t}, <<>>)}
    BY <2>2, TextIsRead
  <2>5. Intended(p, name) = Tag(name, {t}, <<>>)
    <3>1. p[1].text = {t}
      BY <2>2 DEF Tag
    <3> QED
      BY <1>4, <3>1 DEF Intended
  <2> QED
    BY <1>3, <2>3, <2>4, <2>5
<1>5. CASE ~(IsText(p[1]) /\ Len(p) = 1)
  <2>10. IsText(p[1]) => Len(p) > 1
    <3> SUFFICES ASSUME IsText(p[1]) PROVE Len(p) > 1
      OBVIOUS
    <3> DEFINE n == Len(p)
    <3>1. n # 1 /\ n >= 1 /\ n \in Nat
      <4>1. n # 1
        BY <1>5
      <4> QED
        BY <1>1, <1>2, <4>1
    <3> HIDE DEF n
    <3>2. n > 1
      BY <3>1
    <3> QED
      BY <3>2 DEF n
  <2>1. Kept(p)
    BY <2>10 DEF Kept
  <2>2. Minified(s) = s
    BY <2>1, MinifiedStays
  <2>3. TagsFrom(p, 1) # {}
    <3>1. CASE ~IsText(p[1])
      BY <1>2, <3>1 DEF TagsFrom
    <3>2. CASE IsText(p[1])
      <4> DEFINE k == 2
      <4>1. k \in 1 .. Len(p) /\ k > 1 /\ k - 1 = 1
        <5>1. Len(p) > 1 /\ Len(p) \in Nat
          BY <1>1, <2>10, <3>2
        <5> QED
          BY <5>1
      <4> HIDE DEF k
      <4>2. ~IsText(p[k])
        <5>1. ASSUME NEW u, TextAt(p, k, u) PROVE FALSE
          BY <3>2, <4>1, <5>1 DEF TextAt
        <5> QED
          BY <4>1, <5>1, ReadableIs DEF BareAt, FullAt
      <4> QED
        BY <4>1, <4>2 DEF TagsFrom
    <3> QED
      BY <3>1, <3>2
  <2>4. Single(s) \in Int /\ Single(s) >= 1
    BY <1>1, <1>2, <2>3, TagsAreSingle
  <2>5. ~(Count(s, "<") = 2 * Count(Stripped(s), "<"))
    <3> DEFINE a == Count(s, Less)  b == Count(Stripped(s), Less)
    <3>1. a \in Nat /\ b \in Nat
      <4>1. Stripped(s) \in Texts
        BY <1>1, StrippedIs
      <4> QED
        BY <1>1, <4>1, CountJoins
    <3>2. Single(s) = a - 2 * b
      BY DEF Single
    <3> HIDE DEF a, b
    <3>3. ~(a = 2 * b)
      BY <2>4, <3>1, <3>2
    <3> QED
      BY <3>3, Zenon DEF a, b, Less
  <2> DEFINE c == children[M]
  <2>6. ParsedBy(c, s, name) = {Tag(name, NoText, tags) : tags \in c[Minified(s)]}
    <3> HIDE DEF s, c
    <3> QED
      BY <2>5, Zenon DEF ParsedBy
  <2>7. Only(c[s], p)
    <3>1. M \in Nat /\ M \in 1 .. M /\ M > Len(s)
      BY <1>1
    <3>2. ReadFrom(children, M, p, 1)
      <4> HIDE DEF M
      <4> QED
        BY <1>2, <1>3, <3>1, ChildrenAre
    <3> QED
      BY <1>1, <3>1, <3>2 DEF ReadFrom
  <2> HIDE DEF c
  <2>8. ParsedBy(c, s, name) = {Tag(name, NoText, p)}
    BY <2>2, <2>6, <2>7 DEF Only
  <2>9. Intended(p, name) = Tag(name, NoText, p)
    BY <1>5 DEF Intended
  <2> QED
    BY <1>3, <2>8, <2>9 DEF c
<1> QED
  BY <1>4, <1>5

\* A tree is what was read from what was written for the phrase that was meant.
ReadInv ==
    \A p \in meant, t \in tree :
      p \in Seq(Leaves) /\ \E side : t \in Parsed(WrittenAs(p), <<side>>)

(* It is read so in every state.                                              *)
LEMMA ReadStays == Spec => []ReadInv
<1>1. Init => ReadInv
  BY Zenon DEF Init, ReadInv
<1>2. ReadInv /\ [Next]_vars => ReadInv'
  <2> SUFFICES ASSUME ReadInv, [Next]_vars PROVE ReadInv'
    OBVIOUS
  <2>1. ASSUME NEW input \in Inputs, NEW p \in input.meant
        PROVE  p \in Seq(Leaves) /\ input.source = WrittenAs(p)
    <3>1. CASE input \in {[source |-> s, meant |-> {}] : s \in Sources}
      BY <2>1, <3>1
    <3>2. ASSUME NEW q \in Phrases, input = [source |-> WrittenAs(q), meant |-> {q}]
          PROVE  p \in Seq(Leaves) /\ input.source = WrittenAs(p)
      BY <2>1, <3>2, MatcherAssumption
    <3> QED
      BY <3>1, <3>2 DEF Inputs
  <2>2. ASSUME NEW input \in Inputs, Receive(input), NEW t, NEW side,
               t \in Parsed(input.source, <<side>>), tree' = {t}
        PROVE  ReadInv'
    <3>1. meant' = input.meant
      BY <2>2, Zenon DEF Receive
    <3>2. ASSUME NEW p \in meant' PROVE p \in Seq(Leaves) /\ t \in Parsed(WrittenAs(p), <<side>>)
      BY <2>1, <2>2, <3>1
    <3> QED
      BY <2>2, <3>2, Zenon DEF ReadInv
  <2>3. ASSUME NEW input \in Inputs, NEW side \in {"match", "expand"}, Refuse(input, side)
        PROVE  ReadInv'
    <3>1. tree' = {}
      BY <2>3, Zenon DEF Refuse, Receive, Fresh
    <3> QED
      BY <3>1, Zenon DEF ReadInv
  <2>4. ASSUME NEW input \in Inputs, AddMatch(input) PROVE ReadInv'
    <3>1. Receive(input) /\ \E t \in Parsed(input.source, <<"match">>) : tree' = {t}
      BY <2>4, Zenon DEF AddMatch
    <3> QED
      BY <2>2, <3>1, Zenon
  <2>5. ASSUME NEW input \in Inputs, Expand(input) PROVE ReadInv'
    <3>1. Receive(input) /\ \E t \in Parsed(input.source, <<"expand">>) : tree' = {t}
      BY <2>5, Zenon DEF Expand
    <3> QED
      BY <2>2, <3>1, Zenon
  <2>6. ASSUME meant' = meant, tree' = tree PROVE ReadInv'
    BY <2>6, Zenon DEF ReadInv
  <2>7. ASSUME NEW c \in Chars, Type(c) PROVE ReadInv'
    BY <2>6, <2>7, Zenon DEF Type, rule
  <2>8. CASE Edit
    BY <2>6, <2>8, Zenon DEF Edit, rule
  <2>9. CASE UNCHANGED vars
    BY <2>6, <2>9, Zenon DEF vars
  <2> QED
    BY <2>3, <2>4, <2>5, <2>7, <2>8, <2>9 DEF Next
<1> QED
  BY <1>1, <1>2, PTL DEF Spec

(* A text written as docs/info.md asks for is read as it was meant by          *)
(* tag_parse (tags.c:160-363), whatever its tags and texts and however many:   *)
(* joining its lines leaves it as it is, a doubled bracket never opens or ends *)
(* a tag, and each tag ends at its own end.                                    *)
THEOREM PhrasesRead == Spec => []ReadsAsWritten
<1>1. ReadInv => ReadsAsWritten
  <2> SUFFICES ASSUME ReadInv, NEW p \in meant, NEW t \in tree, Readable(p)
               PROVE  t = Intended(p, t.name)
    BY Zenon DEF ReadsAsWritten
  <2>1. p \in Seq(Leaves) /\ \E side : t \in Parsed(WrittenAs(p), <<side>>)
    BY Zenon DEF ReadInv
  <2>2. PICK side : t \in Parsed(WrittenAs(p), <<side>>)
    BY <2>1
  <2> DEFINE name == <<side>>
  <2>3. t \in Parsed(WrittenAs(p), name)
    BY <2>2
  <2> HIDE DEF name
  <2>4. t = Intended(p, name)
    BY <2>1, <2>3, PhraseIsRead
  <2>5. Intended(p, name).name = name
    BY DEF Intended, Tag
  <2> QED
    BY <2>4, <2>5
<1> QED
  BY <1>1, ReadStays, PTL
=============================================================================
