--------------------------- MODULE CommandProofs ---------------------------
(***************************************************************************)
(* Proofs about Command, for any arguments, calls and values, any length   *)
(* of the buffer and of the messages, and however the network cuts them:   *)
(* the arguments are read as they stand in the line; what is sent is read  *)
(* as it was built, so that the server is asked for what was meant; the    *)
(* answer comes back as it was given, and the exit code says what it was.  *)
(***************************************************************************)
EXTENDS Command, SequenceTheorems, FiniteSetTheorems, WellFoundedInduction, TLAPS

-----------------------------------------------------------------------------
(* Numbers, loops and lists                                                    *)

(* A set of naturals that is not empty has a least element.                    *)
LEMMA LeastOfNat ==
    ASSUME NEW S \in SUBSET Nat, S # {}
    PROVE  Least(S) \in S /\ \A k \in S : Least(S) <= k
<1> DEFINE R == {ss \in Nat \X Nat : ss[1] < ss[2]}
<1>0. IsWellFoundedOn(R, Nat)
  BY NatLessThanWellFounded, Zenon DEF OpToRel
<1>1. PICK x \in S : \A y \in S : ~(<<y, x>> \in R)
  <2> HIDE DEF R
  <2> QED BY <1>0, WFMin
<1>2. \A y \in S : x <= y
  <2>1. ASSUME NEW y \in S, y < x PROVE FALSE
    <3> DEFINE ss == <<y, x>>
    <3>1. ss \in Nat \X Nat /\ ss[1] < ss[2]
      BY <2>1
    <3>2. ss \in R
      BY ONLY <3>1, Zenon DEF R
    <3> QED
      BY <3>2, <1>1
  <2> QED
    BY <2>1
<1> QED
  BY <1>2 DEF Least

(* What is true of 0 and, when of a number, of the next one, is true of all up *)
(* to N.                                                                       *)
LEMMA UpTo ==
    ASSUME NEW N \in Nat, NEW S, 0 \in S, \A i \in 0 .. N - 1 : i \in S => i + 1 \in S
    PROVE  \A i \in 0 .. N : i \in S
<1> DEFINE rest == {i \in 0 .. N : i \notin S}
<1> SUFFICES ASSUME rest # {} PROVE FALSE
  OBVIOUS
<1>1. rest \in SUBSET Nat
  OBVIOUS
<1> DEFINE k == Least(rest)
<1>2. k \in rest /\ \A l \in rest : k <= l
  BY <1>1, LeastOfNat
<1> HIDE DEF k
<1>3. k - 1 \in 0 .. N - 1 /\ k - 1 \notin rest
  BY <1>2
<1> QED
  BY <1>2, <1>3

\* A step of a loop over the numbers up to N, with a value of V that it carries along
Step(step, N, V) == step \in [(1 .. N) \X V -> V]

\* The value after each of the numbers
Computed(f, start, step, N, V) ==
    f \in [0 .. N -> V] /\ f[0] = start /\ \A i \in 1 .. N : f[i] = step[<<i, f[i - 1]>>]

(* A loop over the numbers up to N computes something.                         *)
LEMMA LoopComputes ==
    ASSUME NEW N \in Nat, NEW V, NEW start \in V, NEW step, Step(step, N, V)
    PROVE  \E f : Computed(f, start, step, N, V)
<1> DEFINE Reaches(n, f) ==
        f \in [0 .. n -> V] /\ f[0] = start /\ \A i \in 1 .. n : f[i] = step[<<i, f[i - 1]>>]
    S == {n \in 0 .. N : \E f : Reaches(n, f)}
<1>1. 0 \in S
  <2>1. Reaches(0, [i \in 0 .. 0 |-> start])
    OBVIOUS
  <2> HIDE DEF Reaches
  <2> QED
    BY <2>1
<1>2. ASSUME NEW n \in 0 .. N - 1, n \in S PROVE n + 1 \in S
  <2>1. PICK f : Reaches(n, f)
    BY <1>2
  <2> DEFINE next == step[<<n + 1, f[n]>>]
             g == [i \in 0 .. n + 1 |-> IF i = n + 1 THEN next ELSE f[i]]
  <2>2. n + 1 \in 1 .. N /\ f[n] \in V
    BY <2>1
  <2>3. next \in V
    BY <2>2 DEF Step
  <2> HIDE DEF next
  <2>4. g \in [0 .. n + 1 -> V] /\ g[0] = start
    BY <2>1, <2>3
  <2>5. ASSUME NEW i \in 1 .. n + 1 PROVE g[i] = step[<<i, g[i - 1]>>]
    <3>1. CASE i = n + 1
      <4>1. i - 1 = n /\ g[i - 1] = f[n] /\ g[i] = next
        BY <3>1
      <4> QED
        BY <3>1, <4>1 DEF next
    <3>2. CASE i # n + 1
      <4>1. i \in 1 .. n /\ i - 1 \in 0 .. n /\ g[i] = f[i] /\ g[i - 1] = f[i - 1]
        BY <3>2
      <4> QED
        BY <2>1, <4>1
    <3> QED
      BY <3>1, <3>2
  <2>6. Reaches(n + 1, g)
    BY <2>4, <2>5
  <2> HIDE DEF Reaches, g
  <2> QED
    BY <2>2, <2>6
<1>3. N \in S
  <2> HIDE DEF S
  <2> QED
    BY <1>1, <1>2, UpTo
<1> QED
  BY <1>3 DEF Computed

-----------------------------------------------------------------------------
(* Ordered                                                                     *)

\* s is the list of the numbers of S from the least on.
Lists(s, S) ==
    /\ s \in Seq(S) /\ \A i \in S : \E n \in DOMAIN s : s[n] = i
    /\ \A m, n \in DOMAIN s : m < n => s[m] < s[n]

(* As many numbers of S as n are up to the n-th of them.                       *)
LEMMA Ranks ==
    ASSUME NEW S \in SUBSET Nat, NEW s, Lists(s, S), NEW n \in 0 .. Len(s),
           NEW T, \A k \in 1 .. n : s[k] \in T, \A t \in T : \E k \in 1 .. n : s[k] = t
    PROVE  IsFiniteSet(T) /\ Cardinality(T) = n
<1>1. Len(s) \in Nat /\ DOMAIN s = 1 .. Len(s) /\ \A k \in 1 .. Len(s) : s[k] \in S
  BY LenProperties, ElementOfSeq DEF Lists
<1> DEFINE f == [k \in 1 .. n |-> s[k]]
<1>2. f \in [1 .. n -> T] /\ \A t \in T : \E k \in 1 .. n : f[k] = t
  OBVIOUS
<1>3. \A k, l \in 1 .. n : f[k] = f[l] => k = l
  <2> SUFFICES ASSUME NEW k \in 1 .. n, NEW l \in 1 .. n, s[k] = s[l] PROVE k = l
    OBVIOUS
  <2>1. k \in DOMAIN s /\ l \in DOMAIN s /\ k \in 1 .. Len(s) /\ l \in 1 .. Len(s)
    BY <1>1
  <2>2. s[k] \in Nat
    BY <1>1, <2>1
  <2> QED
    BY <2>1, <2>2 DEF Lists
<1>4. f \in Bijection(1 .. n, T)
  BY <1>2, <1>3 DEF Bijection, Injection, Surjection, IsInjective
<1>5. ExistsBijection(1 .. n, T)
  BY <1>4 DEF ExistsBijection
<1>6. IsFiniteSet(1 .. n) /\ Cardinality(1 .. n) = n
  BY FS_Interval
<1> QED
  BY <1>5, <1>6, FS_Bijection

(* There is one such list, and it is Ordered.                                  *)
LEMMA OrderedIs ==
    ASSUME NEW S \in SUBSET Nat, NEW s, Lists(s, S)
    PROVE  Ordered(S) = s /\ IsFiniteSet(S) /\ Cardinality(S) = Len(s)
<1>1. Len(s) \in Nat /\ DOMAIN s = 1 .. Len(s) /\ \A k \in 1 .. Len(s) : s[k] \in S
  BY LenProperties, ElementOfSeq DEF Lists
<1>2. \A i \in S : \E k \in 1 .. Len(s) : s[k] = i
  BY <1>1 DEF Lists
<1>3. IsFiniteSet(S) /\ Cardinality(S) = Len(s)
  <2>1. Len(s) \in 0 .. Len(s)
    BY <1>1
  <2> QED
    BY <1>1, <1>2, <2>1, Ranks
<1>4. ASSUME NEW n \in 1 .. Len(s) PROVE Cardinality({j \in S : j <= s[n]}) = n
  <2>1. \A k \in 1 .. Len(s) : s[k] <= s[n] <=> k <= n
    <3> SUFFICES ASSUME NEW k \in 1 .. Len(s) PROVE s[k] <= s[n] <=> k <= n
      OBVIOUS
    <3>1. s[k] \in Nat /\ s[n] \in Nat /\ k \in DOMAIN s /\ n \in DOMAIN s
      BY <1>1
    <3>2. k < n => s[k] < s[n]
      BY <3>1 DEF Lists
    <3>3. n < k => s[n] < s[k]
      BY <3>1 DEF Lists
    <3> QED
      BY <3>1, <3>2, <3>3
  <2> DEFINE low == {j \in S : j <= s[n]}
  <2>2. n \in 0 .. Len(s)
    OBVIOUS
  <2>3. \A k \in 1 .. n : s[k] \in low
    BY <1>1, <2>1
  <2>4. \A j \in low : \E k \in 1 .. n : s[k] = j
    BY <1>1, <1>2, <2>1
  <2> HIDE DEF low
  <2>5. Cardinality(low) = n
    BY <2>2, <2>3, <2>4, Ranks
  <2> QED
    BY <2>5 DEF low
<1>5. ASSUME NEW n \in 1 .. Len(s)
      PROVE  (CHOOSE i \in S : Cardinality({j \in S : j <= i}) = n) = s[n]
  <2>1. ASSUME NEW i \in S, Cardinality({j \in S : j <= i}) = n PROVE i = s[n]
    <3>1. PICK k \in 1 .. Len(s) : i = s[k]
      BY <1>2
    <3>2. k = n
      BY <1>4, <2>1, <3>1
    <3> QED
      BY <3>1, <3>2
  <2> QED
    BY <1>1, <1>4, <2>1
<1>6. Ordered(S) = [n \in 1 .. Len(s) |-> CHOOSE i \in S : Cardinality({j \in S : j <= i}) = n]
  BY <1>3 DEF Ordered
<1>7. Ordered(S) = [n \in 1 .. Len(s) |-> s[n]]
  BY <1>5, <1>6
<1>8. s = [n \in 1 .. Len(s) |-> s[n]]
  BY <1>1, LenProperties DEF Lists
<1> QED
  BY <1>3, <1>7, <1>8

(* One more number, above the others, comes last.                              *)
LEMMA ListsOneMore ==
    ASSUME NEW S \in SUBSET Nat, NEW s, Lists(s, S), NEW i \in Nat, \A j \in S : j < i
    PROVE  Lists(Append(s, i), S \cup {i})
<1> DEFINE t == Append(s, i)
<1>1. Len(s) \in Nat /\ DOMAIN s = 1 .. Len(s) /\ \A k \in 1 .. Len(s) : s[k] \in S
  BY LenProperties, ElementOfSeq DEF Lists
<1>2. s \in Seq(S \cup {i})
  BY SeqMonotonic DEF Lists
<1>3. /\ t \in Seq(S \cup {i}) /\ Len(t) = Len(s) + 1 /\ DOMAIN t = 1 .. Len(s) + 1
      /\ \A k \in 1 .. Len(s) : t[k] = s[k]
      /\ t[Len(s) + 1] = i
  BY <1>1, <1>2, AppendProperties
<1> HIDE DEF t
<1>4. ASSUME NEW m \in DOMAIN t, NEW n \in DOMAIN t, m < n PROVE t[m] < t[n]
  <2>1. m \in 1 .. Len(s) /\ t[m] = s[m] /\ s[m] \in S
    BY <1>1, <1>3, <1>4
  <2>2. CASE n = Len(s) + 1
    BY <1>3, <2>1, <2>2
  <2>3. CASE n \in 1 .. Len(s)
    BY <1>1, <1>3, <1>4, <2>1, <2>3 DEF Lists
  <2> QED
    BY <1>1, <1>3, <2>2, <2>3
<1>5. ASSUME NEW j \in S \cup {i} PROVE \E n \in DOMAIN t : t[n] = j
  <2>1. CASE j = i
    BY <1>1, <1>3, <2>1
  <2>2. CASE j \in S
    BY <1>1, <1>3, <2>2 DEF Lists
  <2> QED
    BY <2>1, <2>2
<1> QED
  BY <1>3, <1>4, <1>5 DEF Lists, t

(* Every set of numbers up to N has one.                                       *)
LEMMA OrderedLists ==
    ASSUME NEW N \in Nat, NEW S \in SUBSET (1 .. N)
    PROVE  Lists(Ordered(S), S) /\ IsFiniteSet(S) /\ Len(Ordered(S)) = Cardinality(S)
<1> DEFINE Up(n) == {j \in S : j <= n}
           Good == {n \in 0 .. N : \E s : Lists(s, Up(n))}
<1>0. \A j \in S : j \in Nat /\ 1 <= j /\ j <= N
  OBVIOUS
<1>1. 0 \in Good
  <2>1. Up(0) = {}
    <3> SUFFICES ASSUME NEW j \in S, j <= 0 PROVE FALSE
      OBVIOUS
    <3> QED
      BY <1>0
  <2>2. Lists(<<>>, {})
    BY DEF Lists
  <2> QED
    BY <2>1, <2>2
<1>2. ASSUME NEW n \in 0 .. N - 1, n \in Good PROVE n + 1 \in Good
  <2>1. PICK s : Lists(s, Up(n))
    BY <1>2
  <2>2. CASE n + 1 \in S
    <3>0. \A j \in S : j <= n + 1 <=> j <= n \/ j = n + 1
      BY <1>0
    <3>1. Up(n + 1) = Up(n) \cup {n + 1}
      BY <2>2, <3>0
    <3>2. Up(n) \in SUBSET Nat /\ \A j \in Up(n) : j < n + 1
      <4> SUFFICES ASSUME NEW j \in S, j <= n PROVE j \in Nat /\ j < n + 1
        OBVIOUS
      <4> QED
        BY <1>0
    <3>3. Lists(Append(s, n + 1), Up(n + 1))
      BY <2>1, <3>1, <3>2, ListsOneMore
    <3> QED
      BY <3>3
  <2>3. CASE n + 1 \notin S
    <3>0. \A j \in S : j <= n + 1 <=> j <= n
      BY <1>0, <2>3
    <3>1. Up(n + 1) = Up(n)
      BY <3>0
    <3> QED
      BY <2>1, <3>1
  <2> QED
    BY <2>2, <2>3
<1>3. N \in Good
  <2> HIDE DEF Good
  <2> QED
    BY <1>1, <1>2, UpTo
<1>4. PICK s : Lists(s, S)
  <2>1. Up(N) = S
    BY <1>0
  <2> QED
    BY <1>3, <2>1
<1> QED
  BY <1>4, OrderedIs

-----------------------------------------------------------------------------
(* InOrder                                                                     *)

(* It lists what stands at the places that Ordered lists.                      *)
LEMMA InOrderIs ==
    ASSUME NEW X, NEW list \in Seq(X), NEW S \in SUBSET (1 .. Len(list)), NEW s, Lists(s, S),
           NEW t \in Seq(X), Len(t) = Len(s), \A n \in 1 .. Len(s) : t[n] = list[s[n]]
    PROVE  InOrder(S, list) = t
<1>1. Ordered(S) = s
  <2>1. S \in SUBSET Nat
    OBVIOUS
  <2> QED
    BY <2>1, OrderedIs
<1>2. DOMAIN s = 1 .. Len(s)
  BY LenProperties DEF Lists
<1>3. InOrder(S, list) = [n \in 1 .. Len(s) |-> list[s[n]]]
  BY <1>1, <1>2 DEF InOrder
<1>4. t = [n \in 1 .. Len(s) |-> t[n]]
  BY LenProperties
<1> QED
  BY <1>3, <1>4

(* What it returns is as long as there are places.                             *)
LEMMA InOrderType ==
    ASSUME NEW X, NEW list \in Seq(X), NEW S \in SUBSET (1 .. Len(list))
    PROVE  /\ InOrder(S, list) \in Seq(X) /\ Len(InOrder(S, list)) = Cardinality(S)
           /\ \A n \in 1 .. Cardinality(S) : \E i \in S : InOrder(S, list)[n] = list[i]
           /\ IsFiniteSet(S)
<1> DEFINE s == Ordered(S)
<1>1. Len(list) \in Nat /\ \A i \in 1 .. Len(list) : list[i] \in X
  BY LenProperties, ElementOfSeq
<1>2. Lists(s, S) /\ IsFiniteSet(S) /\ Len(s) = Cardinality(S)
  BY <1>1, OrderedLists
<1> HIDE DEF s
<1>3. Len(s) \in Nat /\ DOMAIN s = 1 .. Len(s) /\ \A n \in 1 .. Len(s) : s[n] \in S
  BY <1>2, LenProperties, ElementOfSeq DEF Lists
<1>4. InOrder(S, list) = [n \in 1 .. Len(s) |-> list[s[n]]]
  BY <1>3 DEF InOrder, s
<1>5. \A n \in 1 .. Len(s) : list[s[n]] \in X
  BY <1>1, <1>3
<1>6. InOrder(S, list) \in Seq(X) /\ Len(InOrder(S, list)) = Len(s)
  BY <1>3, <1>4, <1>5
<1> QED
  BY <1>2, <1>3, <1>4, <1>6

(* One more place, behind the others, adds what stands there.                  *)
LEMMA InOrderOneMore ==
    ASSUME NEW X, NEW list \in Seq(X), NEW S \in SUBSET (1 .. Len(list)),
           NEW i \in 1 .. Len(list), \A j \in S : j < i
    PROVE  InOrder(S \cup {i}, list) = Append(InOrder(S, list), list[i])
<1> DEFINE s == Ordered(S)
           u == InOrder(S, list)
           t == Append(u, list[i])
<1>1. Len(list) \in Nat /\ \A j \in 1 .. Len(list) : list[j] \in X
  BY LenProperties, ElementOfSeq
<1>2. Lists(s, S) /\ Len(s) = Cardinality(S)
  BY <1>1, OrderedLists
<1>3. u \in Seq(X) /\ Len(u) = Len(s)
  BY <1>2, InOrderType
<1>4. Len(s) \in Nat /\ DOMAIN s = 1 .. Len(s)
  BY <1>2, LenProperties DEF Lists
<1>5. \A n \in 1 .. Len(s) : u[n] = list[s[n]]
  BY <1>4 DEF InOrder
<1> HIDE DEF s, u
<1>6. Lists(Append(s, i), S \cup {i})
  <2>1. S \in SUBSET Nat /\ i \in Nat
    OBVIOUS
  <2> QED
    BY <1>2, <2>1, ListsOneMore
<1>7. /\ Len(Append(s, i)) = Len(s) + 1 /\ Append(s, i)[Len(s) + 1] = i
      /\ \A n \in 1 .. Len(s) : Append(s, i)[n] = s[n]
  <2>1. S \subseteq Nat /\ i \in Nat
    OBVIOUS
  <2>2. s \in Seq(Nat)
    BY <1>2, <2>1, SeqMonotonic DEF Lists
  <2> QED
    BY <2>1, <2>2, AppendProperties
<1>8. /\ t \in Seq(X) /\ Len(t) = Len(s) + 1 /\ t[Len(s) + 1] = list[i]
      /\ \A n \in 1 .. Len(s) : t[n] = u[n]
  <2>1. list[i] \in X
    BY <1>1
  <2> QED
    BY <1>3, <2>1, AppendProperties
<1> HIDE DEF t
<1>9. \A n \in 1 .. Len(s) + 1 : t[n] = list[Append(s, i)[n]]
  <2> SUFFICES ASSUME NEW n \in 1 .. Len(s) + 1 PROVE t[n] = list[Append(s, i)[n]]
    OBVIOUS
  <2>1. CASE n = Len(s) + 1
    BY <1>7, <1>8, <2>1
  <2>2. CASE n \in 1 .. Len(s)
    BY <1>5, <1>7, <1>8, <2>2
  <2> QED
    BY <1>4, <2>1, <2>2
<1>10. S \cup {i} \in SUBSET (1 .. Len(list))
  OBVIOUS
<1>11. InOrder(S \cup {i}, list) = t
  <2> DEFINE r == Append(s, i)
  <2>1. /\ Lists(r, S \cup {i}) /\ Len(t) = Len(r)
        /\ \A n \in 1 .. Len(r) : t[n] = list[r[n]]
    BY <1>6, <1>7, <1>8, <1>9
  <2> HIDE DEF r
  <2> QED
    BY <1>8, <1>10, <2>1, InOrderIs
<1> QED
  BY <1>11 DEF t, u

(* No places, nothing.                                                         *)
LEMMA InOrderNone == ASSUME NEW X, NEW list \in Seq(X) PROVE InOrder({}, list) = <<>>
<1> DEFINE none == <<>>
           S == {}
<1>1. Lists(none, S)
  BY DEF Lists
<1>2. /\ S \in SUBSET (1 .. Len(list)) /\ none \in Seq(X)
      /\ \A n \in 1 .. Len(none) : none[n] = list[none[n]]
  OBVIOUS
<1> HIDE DEF none, S
<1>3. InOrder(S, list) = none
  BY <1>1, <1>2, InOrderIs
<1> QED
  BY <1>3 DEF none, S

-----------------------------------------------------------------------------
(* Tokens                                                                      *)

(* A text without delimiters is its only token.                                *)
LEMMA OneToken ==
    ASSUME NEW X, NEW text \in Seq(X), text # <<>>, NEW d, \A i \in DOMAIN text : text[i] # d
    PROVE  Tokens(text, d) = <<text>>
<1>1. Len(text) \in Nat \ {0} /\ DOMAIN text = 1 .. Len(text)
  BY LenProperties, EmptySeq
<1> DEFINE begins == {i \in DOMAIN text : text[i] # d /\ (i > 1 => text[i - 1] = d)}
           end(i) == Least({j \in i .. Len(text) : j < Len(text) => text[j + 1] = d})
<1>2. begins = {1}
  BY <1>1
<1>3. Lists(<<1>>, {1})
  BY DEF Lists
<1>4. Ordered(begins) = <<1>>
  <2>1. {1} \in SUBSET Nat
    OBVIOUS
  <2> QED
    BY <1>2, <1>3, <2>1, OrderedIs
<1>5. {j \in 1 .. Len(text) : j < Len(text) => text[j + 1] = d} = {Len(text)}
  BY <1>1
<1>6. end(1) = Len(text)
  <2>1. Least({Len(text)}) = Len(text)
    BY <1>1 DEF Least
  <2> QED
    BY <1>5, <2>1
<1>7. Tokens(text, d) =
        [n \in DOMAIN Ordered(begins) |->
            SubSeq(text, Ordered(begins)[n], end(Ordered(begins)[n]))]
  BY DEF Tokens
<1> HIDE DEF begins, end
<1>8. Tokens(text, d) = [n \in 1 .. 1 |-> SubSeq(text, 1, Len(text))]
  BY <1>4, <1>6, <1>7
<1> QED
  BY <1>8, SubSeqFull
\* The flags of an option are those of one of these names.
OptionNames == {<<"p", "port">>, <<"v", "version">>, <<"e", "enable">>, <<"g", "group">>,
                <<"i", "id">>, <<"c", "columns">>, <<"w", "where">>}

FlagsOf(n) == <<<<"-", n[1]>>, <<"-", "-", n[2]>>>>

(* Each option of a command has a name of its own.                             *)
LEMMA OptionTable ==
    ASSUME NEW name \in DOMAIN Options
    PROVE  /\ DOMAIN Options[name] \in SUBSET Nat
           /\ \A k \in DOMAIN Options[name] :
                /\ Options[name][k].hasValue \in BOOLEAN
                /\ \E n \in OptionNames : Options[name][k].flags = FlagsOf(n)
           /\ \A k, l \in DOMAIN Options[name] :
                Options[name][k].flags = Options[name][l].flags => k = l
<1>1. name \in {"texc", "add", "remove", "close", "list", "config"}
  BY DEF Options
<1> DEFINE Good(table) ==
        /\ DOMAIN table \in SUBSET Nat
        /\ \A k \in DOMAIN table :
             /\ table[k].hasValue \in BOOLEAN
             /\ \E n \in OptionNames : table[k].flags = FlagsOf(n)
        /\ \A k, l \in DOMAIN table : table[k].flags = table[l].flags => k = l
<1>2. Good(Options["texc"])
  <2>1. DOMAIN Options["texc"] = {1, 2}
    BY DEF Options
  <2>2. /\ Options["texc"][1].flags = FlagsOf(<<"p", "port">>) /\ Options["texc"][1].hasValue = TRUE
        /\ Options["texc"][2].flags = FlagsOf(<<"v", "version">>)
        /\ Options["texc"][2].hasValue = FALSE
    BY DEF Options, Option, FlagsOf
  <2>3. /\ FlagsOf(<<"p", "port">>) # FlagsOf(<<"v", "version">>)
    BY DEF FlagsOf
  <2>4. <<"p", "port">> \in OptionNames /\ <<"v", "version">> \in OptionNames
    BY DEF OptionNames
  <2> DEFINE t == Options["texc"]
  <2> HIDE DEF t
  <2>5. DOMAIN t \in SUBSET Nat
    BY <2>1 DEF t
  <2>6. \A k \in DOMAIN t : t[k].hasValue \in BOOLEAN
    BY <2>1, <2>2 DEF t
  <2>7. \A k \in DOMAIN t : \E n \in OptionNames : t[k].flags = FlagsOf(n)
    BY <2>1, <2>2, <2>4 DEF t
  <2>8. \A k, l \in DOMAIN t : t[k].flags = t[l].flags => k = l
    BY <2>1, <2>2, <2>3 DEF t
  <2> QED
    BY <2>5, <2>6, <2>7, <2>8 DEF t
<1>3. Good(Options["add"])
  <2>1. DOMAIN Options["add"] = {1, 2}
    BY DEF Options
  <2>2. /\ Options["add"][1].flags = FlagsOf(<<"e", "enable">>) /\ Options["add"][1].hasValue = TRUE
        /\ Options["add"][2].flags = FlagsOf(<<"g", "group">>) /\ Options["add"][2].hasValue = TRUE
    BY DEF Options, Option, FlagsOf
  <2>3. /\ FlagsOf(<<"e", "enable">>) # FlagsOf(<<"g", "group">>)
    BY DEF FlagsOf
  <2>4. <<"e", "enable">> \in OptionNames /\ <<"g", "group">> \in OptionNames
    BY DEF OptionNames
  <2> DEFINE t == Options["add"]
  <2> HIDE DEF t
  <2>5. DOMAIN t \in SUBSET Nat
    BY <2>1 DEF t
  <2>6. \A k \in DOMAIN t : t[k].hasValue \in BOOLEAN
    BY <2>1, <2>2 DEF t
  <2>7. \A k \in DOMAIN t : \E n \in OptionNames : t[k].flags = FlagsOf(n)
    BY <2>1, <2>2, <2>4 DEF t
  <2>8. \A k, l \in DOMAIN t : t[k].flags = t[l].flags => k = l
    BY <2>1, <2>2, <2>3 DEF t
  <2> QED
    BY <2>5, <2>6, <2>7, <2>8 DEF t
<1>4. Good(Options["remove"])
  <2>1. DOMAIN Options["remove"] = {1, 2}
    BY DEF Options
  <2>2. /\ Options["remove"][1].flags = FlagsOf(<<"i", "id">>)
        /\ Options["remove"][1].hasValue = FALSE
        /\ Options["remove"][2].flags = FlagsOf(<<"g", "group">>)
        /\ Options["remove"][2].hasValue = FALSE
    BY DEF Options, Option, FlagsOf
  <2>3. /\ FlagsOf(<<"i", "id">>) # FlagsOf(<<"g", "group">>)
    BY DEF FlagsOf
  <2>4. <<"i", "id">> \in OptionNames /\ <<"g", "group">> \in OptionNames
    BY DEF OptionNames
  <2> DEFINE t == Options["remove"]
  <2> HIDE DEF t
  <2>5. DOMAIN t \in SUBSET Nat
    BY <2>1 DEF t
  <2>6. \A k \in DOMAIN t : t[k].hasValue \in BOOLEAN
    BY <2>1, <2>2 DEF t
  <2>7. \A k \in DOMAIN t : \E n \in OptionNames : t[k].flags = FlagsOf(n)
    BY <2>1, <2>2, <2>4 DEF t
  <2>8. \A k, l \in DOMAIN t : t[k].flags = t[l].flags => k = l
    BY <2>1, <2>2, <2>3 DEF t
  <2> QED
    BY <2>5, <2>6, <2>7, <2>8 DEF t
<1>5. Good(Options["close"])
  <2>1. Options["close"] = <<>> /\ DOMAIN <<>> = {}
    BY DEF Options
  <2> QED
    BY <2>1
<1>6. Good(Options["list"])
  <2>1. DOMAIN Options["list"] = {1, 2}
    BY DEF Options
  <2>2. /\ Options["list"][1].flags = FlagsOf(<<"c", "columns">>)
        /\ Options["list"][1].hasValue = TRUE
        /\ Options["list"][2].flags = FlagsOf(<<"w", "where">>)
        /\ Options["list"][2].hasValue = TRUE
    BY DEF Options, Option, FlagsOf
  <2>3. /\ FlagsOf(<<"c", "columns">>) # FlagsOf(<<"w", "where">>)
    BY DEF FlagsOf
  <2>4. <<"c", "columns">> \in OptionNames /\ <<"w", "where">> \in OptionNames
    BY DEF OptionNames
  <2> DEFINE t == Options["list"]
  <2> HIDE DEF t
  <2>5. DOMAIN t \in SUBSET Nat
    BY <2>1 DEF t
  <2>6. \A k \in DOMAIN t : t[k].hasValue \in BOOLEAN
    BY <2>1, <2>2 DEF t
  <2>7. \A k \in DOMAIN t : \E n \in OptionNames : t[k].flags = FlagsOf(n)
    BY <2>1, <2>2, <2>4 DEF t
  <2>8. \A k, l \in DOMAIN t : t[k].flags = t[l].flags => k = l
    BY <2>1, <2>2, <2>3 DEF t
  <2> QED
    BY <2>5, <2>6, <2>7, <2>8 DEF t
<1>7. Good(Options["config"])
  <2>1. DOMAIN Options["config"] = {1, 2, 3}
    BY DEF Options
  <2>2. /\ Options["config"][1].flags = FlagsOf(<<"i", "id">>)
        /\ Options["config"][1].hasValue = FALSE
        /\ Options["config"][2].flags = FlagsOf(<<"g", "group">>)
        /\ Options["config"][2].hasValue = FALSE
        /\ Options["config"][3].flags = FlagsOf(<<"e", "enable">>)
        /\ Options["config"][3].hasValue = TRUE
    BY DEF Options, Option, FlagsOf
  <2>3. /\ FlagsOf(<<"i", "id">>) # FlagsOf(<<"g", "group">>)
        /\ FlagsOf(<<"i", "id">>) # FlagsOf(<<"e", "enable">>)
        /\ FlagsOf(<<"g", "group">>) # FlagsOf(<<"e", "enable">>)
    BY DEF FlagsOf
  <2>4. /\ <<"i", "id">> \in OptionNames /\ <<"g", "group">> \in OptionNames
        /\ <<"e", "enable">> \in OptionNames
    BY DEF OptionNames
  <2> DEFINE t == Options["config"]
  <2> HIDE DEF t
  <2>5. DOMAIN t \in SUBSET Nat
    BY <2>1 DEF t
  <2>6. \A k \in DOMAIN t : t[k].hasValue \in BOOLEAN
    BY <2>1, <2>2 DEF t
  <2>7. \A k \in DOMAIN t : \E n \in OptionNames : t[k].flags = FlagsOf(n)
    BY <2>1, <2>2, <2>4 DEF t
  <2>8. \A k, l \in DOMAIN t : t[k].flags = t[l].flags => k = l
    BY <2>1, <2>2, <2>3 DEF t
  <2> QED
    BY <2>5, <2>6, <2>7, <2>8 DEF t
<1> HIDE DEF Good
<1>9. Good(Options[name])
  BY <1>1, <1>2, <1>3, <1>4, <1>5, <1>6, <1>7
<1> QED
  BY <1>9 DEF Good

-----------------------------------------------------------------------------
(* The loop over the arguments                                                 *)

\* The argument that is next, counted behind the name of the command
Place == at - (Len(argv) - Len(Rest(argv)))

Takes(name, arg) == arg = Dashes \/ Valued(name, arg)

\* i belongs to the argument before it.
Belongs(name, args, i) ==
    i > 1 /\ i - 1 \notin TakenIn(name, args) /\ Takes(name, args[i - 1])

FlagsBefore(p, name, args) == {i \in Flags(name, args) : i < p}

Taking(k, i, name, args) ==
    [found |-> TRUE, value |-> IF Options[name][k].hasValue THEN {args[i + 1]} ELSE NoValue]

\* Every flag before p is of an option and has set it; no other option is set.
FlagsRead(p, name, args, opts) ==
    /\ \A i \in FlagsBefore(p, name, args) : OptionsFor(name, args[i]) # {}
    /\ \A i, j \in FlagsBefore(p, name, args) :
          i # j => OptionsFor(name, args[i]) \cap OptionsFor(name, args[j]) = {}
    /\ DOMAIN opts = DOMAIN Options[name]
    /\ \A k \in DOMAIN Options[name] :
          /\ \A i \in FlagsBefore(p, name, args) :
                k \in OptionsFor(name, args[i]) => opts[k] = Taking(k, i, name, args)
          /\ (\A i \in FlagsBefore(p, name, args) : k \notin OptionsFor(name, args[i]))
                => opts[k] = Unset

\* The positional arguments before p are kept, in their order.
PositionalsRead(p, name, args, values) ==
    /\ values = InOrder({i \in PositionalsOf(name, args) : i < p}, args)
    /\ Len(values) <= Arity[name]

\* What is before p was read as it is meant.
ReadUpTo(p, name, args, opts, values) ==
    /\ p \in 1 .. Len(args) + 1 /\ ~Belongs(name, args, p)
    /\ FlagsRead(p, name, args, opts) /\ PositionalsRead(p, name, args, values)

ArgumentsInv ==
    /\ argv \in Seq(Seq(STRING)) /\ at \in Nat
    /\ status = "start" => at = 1 /\ positionals = <<>>
    /\ status \in {"parsing", "args"} => command = CommandOf(argv)
    /\ OneFlagEach =>
         /\ status = "parsing" =>
              ReadUpTo(Place, CommandOf(argv), Rest(argv), options, positionals)
         /\ status \notin {"start", "parsing", "call"} => ReadAsWritten

-----------------------------------------------------------------------------
(* What arguments are                                                          *)

(* An argument is a flag of one option at most, and not the request for help.  *)
LEMMA OneOption ==
    ASSUME NEW name \in DOMAIN Options, NEW arg
    PROVE  /\ \A k, l \in OptionsFor(name, arg) : k = l
           /\ arg \in ToSet(Help) => OptionsFor(name, arg) = {}
           /\ OptionsFor(name, arg) # {} => IsFlag(arg)
<1> DEFINE table == Options[name]
<1> HIDE DEF table
<1>1. /\ \A k \in DOMAIN table : \E n \in OptionNames : table[k].flags = FlagsOf(n)
      /\ \A k, l \in DOMAIN table : table[k].flags = table[l].flags => k = l
  BY OptionTable DEF table
<1>2. \A n : ToSet(FlagsOf(n)) = {<<"-", n[1]>>, <<"-", "-", n[2]>>}
  BY DEF ToSet, FlagsOf
<1>3. \A k : k \in OptionsFor(name, arg) <=> k \in DOMAIN table /\ arg \in ToSet(table[k].flags)
  BY DEF OptionsFor, table
<1>4. ASSUME NEW m \in OptionNames, NEW n \in OptionNames,
             arg \in ToSet(FlagsOf(m)), arg \in ToSet(FlagsOf(n))
      PROVE  m = n
  <2>1. arg \in {<<"-", m[1]>>, <<"-", "-", m[2]>>} /\ arg \in {<<"-", n[1]>>, <<"-", "-", n[2]>>}
    BY <1>2, <1>4
  <2>2. m[1] = n[1] \/ m[2] = n[2]
    BY <2>1
  <2> QED
    BY <2>2 DEF OptionNames
<1>5. ASSUME NEW m \in OptionNames, arg \in ToSet(FlagsOf(m))
      PROVE  arg \notin ToSet(Help) /\ IsFlag(arg)
  <2>1. arg \in {<<"-", m[1]>>, <<"-", "-", m[2]>>}
    BY <1>2, <1>5
  <2>2. ToSet(Help) = {<<"-", "h">>, <<"-", "-", "help">>}
    BY DEF ToSet, Help
  <2>3. m[1] # "h" /\ m[2] # "help" /\ m[1] # "-"
    BY DEF OptionNames
  <2>4. arg \notin ToSet(Help)
    BY <2>1, <2>2, <2>3
  <2>5. arg # <<"-", "-">> /\ arg # <<>> /\ Head(arg) = "-"
    BY <2>1, <2>3
  <2> QED
    BY <2>4, <2>5 DEF IsFlag, Dashed, Dashes
<1> QED
  BY <1>1, <1>3, <1>4, <1>5

(* An argument without a comma is one flag.                                    *)
LEMMA PlainMatches ==
    ASSUME NEW arg \in Seq(STRING), arg # <<>>, ~Contains(arg, Comma), NEW a, NEW b
    PROVE  FlagMatches(<<a, b>>, arg) <=> arg \in ToSet(<<a, b>>)
<1>1. Tokens(arg, Comma) = <<arg>>
  <2>1. \A i \in DOMAIN arg : arg[i] # Comma
    BY LenProperties DEF Contains
  <2> QED
    BY <2>1, OneToken
<1>2. \A x : x \in ToSet(<<a, b>>) <=> x = a \/ x = b
  <2>1. DOMAIN <<a, b>> = {1, 2} /\ <<a, b>>[1] = a /\ <<a, b>>[2] = b
    OBVIOUS
  <2> QED
    BY <2>1 DEF ToSet
<1>3. \A x : x \in ToSet(<<arg>>) <=> x = arg
  <2>1. DOMAIN <<arg>> = {1} /\ <<arg>>[1] = arg
    OBVIOUS
  <2> QED
    BY <2>1 DEF ToSet
<1>4. 2 \in 2 .. 2 /\ \A k \in 2 .. 2 : k = 2
  OBVIOUS
<1>5. FlagMatches(<<a, b>>, arg) <=> a = arg \/ b = arg
  <2>1. /\ Len(<<a, b>>) = 2 /\ <<a, b>>[1] = a /\ <<a, b>>[2] = b
        /\ <<arg>> # <<>> /\ <<arg>>[1] = arg
    OBVIOUS
  <2> QED
    BY <1>1, <1>3, <1>4, <2>1 DEF FlagMatches
<1> QED
  BY <1>2, <1>5

(* TakenIn is what Belongs says, from argument to argument.                    *)
LEMMA TakenInIs ==
    ASSUME NEW X, NEW args \in Seq(X), NEW name
    PROVE  /\ TakenIn(name, args) \subseteq DOMAIN args
           /\ \A i \in DOMAIN args : i \in TakenIn(name, args) <=> Belongs(name, args, i)
<1> DEFINE N == Len(args)
           taken[i \in 0 .. Len(args)] ==
            i > 1 /\ ~taken[i - 1] /\ (args[i - 1] = Dashes \/ Valued(name, args[i - 1]))
           step == [p \in (1 .. N) \X {0, 1} |->
                       IF p[1] > 1 /\ p[2] = 0 /\ Takes(name, args[p[1] - 1]) THEN 1 ELSE 0]
<1>1. N \in Nat /\ DOMAIN args = 1 .. N
  BY LenProperties
<1> HIDE DEF N
<1>2. Step(step, N, {0, 1}) /\ 0 \in {0, 1}
  BY DEF Step
<1>3. PICK g : Computed(g, 0, step, N, {0, 1})
  <2> HIDE DEF step
  <2> QED
    BY <1>1, <1>2, LoopComputes
<1>4. \A i \in 0 .. N :
        g[i] = IF i > 1 /\ g[i - 1] = 0 /\ Takes(name, args[i - 1]) THEN 1 ELSE 0
  <2> SUFFICES ASSUME NEW i \in 0 .. N
               PROVE  g[i] = IF i > 1 /\ g[i - 1] = 0 /\ Takes(name, args[i - 1]) THEN 1 ELSE 0
    OBVIOUS
  <2>1. CASE i = 0
    BY <1>3, <2>1 DEF Computed
  <2>2. CASE i # 0
    <3>1. i \in 1 .. N /\ i - 1 \in 0 .. N /\ g[i - 1] \in {0, 1}
      BY <1>1, <1>3, <2>2 DEF Computed
    <3>2. <<i, g[i - 1]>> \in (1 .. N) \X {0, 1} /\ g[i] = step[<<i, g[i - 1]>>]
      BY <1>3, <3>1 DEF Computed
    <3> QED
      BY <3>2
  <2> QED
    BY <2>1, <2>2
<1> DEFINE f == [i \in 0 .. N |-> g[i] = 1]
<1>5. f = [i \in 0 .. N |-> i > 1 /\ ~f[i - 1] /\ Takes(name, args[i - 1])]
  <2> SUFFICES ASSUME NEW i \in 0 .. N
               PROVE  (g[i] = 1) = (i > 1 /\ ~f[i - 1] /\ Takes(name, args[i - 1]))
    BY Zenon
  <2>1. i > 1 => i - 1 \in 0 .. N
    BY <1>1
  <2>2. i > 1 => (f[i - 1] <=> g[i - 1] = 1)
    BY <2>1, Zenon
  <2> HIDE DEF f
  <2>4. i > 1 => g[i - 1] \in {0, 1}
    BY <1>3, <2>1 DEF Computed
  <2>3. g[i] = 1 <=> i > 1 /\ ~f[i - 1] /\ Takes(name, args[i - 1])
    BY <1>4, <2>2, <2>4
  <2> QED
    BY <2>3, Zenon
<1>6. taken = [i \in 0 .. N |-> i > 1 /\ ~taken[i - 1] /\ Takes(name, args[i - 1])]
  BY <1>5 DEF N, Takes
<1>7. TakenIn(name, args) = {i \in DOMAIN args : taken[i]}
  BY DEF TakenIn
<1> HIDE DEF taken
<1>8. \A i \in 1 .. N : taken[i] <=> i > 1 /\ ~taken[i - 1] /\ Takes(name, args[i - 1])
  <2>1. \A i \in 0 .. N : taken[i] = (i > 1 /\ ~taken[i - 1] /\ Takes(name, args[i - 1]))
    BY <1>6, Zenon
  <2>2. \A i \in 1 .. N : i \in 0 .. N
    BY <1>1
  <2> QED
    BY <2>1, <2>2, Zenon
<1>9. \A i \in 1 .. N : i > 1 => i - 1 \in 1 .. N
  BY <1>1
<1> QED
  BY <1>1, <1>7, <1>8, <1>9 DEF Belongs, Takes

(* How the argument that is next, and the one after it, are read.              *)
LEMMA ReadNext ==
    ASSUME NEW X, NEW args \in Seq(X), NEW name \in DOMAIN Options, NEW p \in 1 .. Len(args),
           ~Belongs(name, args, p)
    PROVE  /\ p \in Flags(name, args) <=> IsFlag(args[p])
           /\ p \in PositionalsOf(name, args) <=> ~Dashed(args[p])
           /\ ~Takes(name, args[p]) => ~Belongs(name, args, p + 1)
           /\ Takes(name, args[p]) /\ p < Len(args) =>
                /\ ~Belongs(name, args, p + 2) /\ p + 1 \notin Flags(name, args)
                /\ p + 1 \in PositionalsOf(name, args) <=> args[p] = Dashes
<1>1. Len(args) \in Nat /\ DOMAIN args = 1 .. Len(args) /\ p \in Nat
  BY LenProperties
<1>2. p \notin TakenIn(name, args)
  BY <1>1, TakenInIs
<1>3. p + 1 - 1 = p /\ p + 2 - 1 = p + 1 /\ p + 1 > 1
  BY <1>1
<1>4. ~Takes(name, args[p]) => ~Belongs(name, args, p + 1)
  BY <1>3 DEF Belongs
<1>5. ASSUME Takes(name, args[p]), p < Len(args)
      PROVE  p + 1 \in TakenIn(name, args) /\ ~Belongs(name, args, p + 2)
  <2>1. p + 1 \in DOMAIN args
    BY <1>1, <1>5
  <2>2. Belongs(name, args, p + 1)
    BY <1>2, <1>3, <1>5 DEF Belongs
  <2>3. p + 1 \in TakenIn(name, args)
    BY <2>1, <2>2, TakenInIs
  <2> QED
    BY <1>3, <2>3 DEF Belongs
<1>6. p < Len(args) => p + 1 \in DOMAIN args
  BY <1>1
<1> QED
  BY <1>1, <1>2, <1>3, <1>4, <1>5, <1>6 DEF Flags, PositionalsOf

(* The command that is named, and the arguments behind its name.               *)
LEMMA ArgvShape ==
    ASSUME argv \in Seq(Seq(STRING))
    PROVE  /\ CommandOf(argv) \in DOMAIN Options /\ Rest(argv) \in Seq(Seq(STRING))
           /\ Len(argv) - Len(Rest(argv)) = IF CommandOf(argv) = "texc" THEN 0 ELSE 1
           /\ \A i \in 1 .. Len(Rest(argv)) :
                 Rest(argv)[i] = argv[i + (Len(argv) - Len(Rest(argv)))]
<1>1. "texc" \in DOMAIN Options /\ SubCommands = DOMAIN Options \ {"texc"}
  BY DEF Options, SubCommands
<1>2. /\ CommandOf(argv) \in DOMAIN Options
      /\ CommandOf(argv) # "texc" => argv # <<>>
  BY <1>1 DEF CommandOf
<1>3. Len(argv) \in Nat
  BY LenProperties
<1>4. CASE CommandOf(argv) = "texc"
  BY <1>2, <1>3, <1>4 DEF Rest
<1>5. CASE CommandOf(argv) # "texc"
  BY <1>2, <1>3, <1>5, HeadTailProperties DEF Rest
<1> QED
  BY <1>4, <1>5

(* The argument that is next.                                                  *)
LEMMA NextArgument ==
    ASSUME argv \in Seq(Seq(STRING)), at \in Nat, Reading, NEW p, p = Place,
           p \in 1 .. Len(Rest(argv)) + 1
    PROVE  /\ p \in 1 .. Len(Rest(argv)) /\ Arg = Rest(argv)[p] /\ Arg \in Seq(STRING)
           /\ at \in DOMAIN argv
           /\ at = Len(argv) <=> p = Len(Rest(argv))
           /\ at < Len(argv) => argv[at + 1] = Rest(argv)[p + 1]
<1> DEFINE args == Rest(argv)
           d == Len(argv) - Len(args)
<1>1. /\ args \in Seq(Seq(STRING)) /\ d \in {0, 1} /\ Len(args) \in Nat /\ Len(argv) \in Nat
      /\ \A i \in 1 .. Len(args) : args[i] = argv[i + d]
      /\ DOMAIN argv = 1 .. Len(argv) /\ \A i \in 1 .. Len(args) : args[i] \in Seq(STRING)
  BY ArgvShape, LenProperties, ElementOfSeq
<1>2. d = Len(argv) - Len(args) /\ p = at - d /\ p \in 1 .. Len(args) + 1
  BY DEF Place
<1> HIDE DEF args, d
<1> DEFINE m == Len(argv)
           n == Len(args)
<1> HIDE DEF m, n
<1>3. /\ m \in Nat /\ n \in Nat /\ d \in {0, 1} /\ d = m - n /\ p = at - d /\ p \in 1 .. n + 1
      /\ at <= m
  BY <1>1, <1>2 DEF m, n, Reading
<1>4. /\ at = p + d /\ p \in 1 .. n /\ at \in 1 .. m /\ (at = m <=> p = n)
      /\ at < m => p + 1 \in 1 .. n /\ p + 1 + d = at + 1
  BY <1>3
<1> QED
  BY <1>1, <1>4 DEF Arg, args, m, n

(* Facts about the arguments of a command that its proofs share.               *)
LEMMA ArgumentsShape ==
    ASSUME NEW X, NEW args \in Seq(X), NEW name \in DOMAIN Options
    PROVE  /\ Len(args) \in Nat /\ DOMAIN args = 1 .. Len(args) /\ Arity[name] \in Nat
           /\ Flags(name, args) \in SUBSET (1 .. Len(args))
           /\ PositionalsOf(name, args) \in SUBSET (1 .. Len(args))
           /\ \A i \in Flags(name, args) : IsFlag(args[i])
           /\ \A i \in Flags(name, args) : i \notin TakenIn(name, args)
<1>1. Len(args) \in Nat /\ DOMAIN args = 1 .. Len(args)
  BY LenProperties
<1>2. Arity[name] \in Nat
  BY DEF Arity, Options
<1> QED
  BY <1>1, <1>2 DEF Flags, PositionalsOf

(* A positional argument, protected by dashes or not, comes behind the others. *)
LEMMA PositionalStep ==
    ASSUME NEW args \in Seq(Seq(STRING)), NEW name \in DOMAIN Options, NEW p \in 1 .. Len(args),
           NEW opts, NEW values, ReadUpTo(p, name, args, opts, values),
           Len(values) < Arity[name], NEW i, NEW q,
           \/ i = p /\ q = p + 1 /\ ~Dashed(args[p])
           \/ i = p + 1 /\ q = p + 2 /\ args[p] = Dashes /\ p < Len(args)
    PROVE  ReadUpTo(q, name, args, opts, Append(values, args[i]))
<1>1. /\ Len(args) \in Nat /\ p \in Nat /\ Arity[name] \in Nat
      /\ Flags(name, args) \in SUBSET (1 .. Len(args))
      /\ PositionalsOf(name, args) \in SUBSET (1 .. Len(args))
  BY ArgumentsShape
<1>2. Dashed(Dashes) /\ ~IsFlag(Dashes)
  BY DEF Dashed, Dashes, IsFlag
<1>3. ~IsFlag(args[p]) /\ (i = p => ~Takes(name, args[p])) /\ (i # p => Takes(name, args[p]))
  <2>1. i # p => args[p] = Dashes
    BY <1>1
  <2>2. OptionsFor(name, args[p]) # {} => IsFlag(args[p])
    BY OneOption
  <2> QED
    BY <1>2, <2>1, <2>2 DEF Takes, Valued, IsFlag
<1>4. /\ p \notin Flags(name, args) /\ ~Belongs(name, args, q)
      /\ i # p => i \notin Flags(name, args) /\ p \notin PositionalsOf(name, args)
      /\ i \in PositionalsOf(name, args)
  BY <1>1, <1>2, <1>3, ReadNext DEF ReadUpTo
<1>5. /\ q \in 1 .. Len(args) + 1 /\ i \in 1 .. Len(args) /\ i \in p .. q - 1
      /\ q \in p + 1 .. p + 2
      /\ i # p => q = p + 2 /\ i = p + 1
      /\ i = p => q = p + 1
  BY <1>1
<1>6. FlagsBefore(q, name, args) = FlagsBefore(p, name, args)
  BY <1>1, <1>4, <1>5, SMTT(30) DEF FlagsBefore
<1>7. {j \in PositionalsOf(name, args) : j < q} = {j \in PositionalsOf(name, args) : j < p} \cup {i}
  BY <1>1, <1>4, <1>5, SMTT(30)
<1> DEFINE S == {j \in PositionalsOf(name, args) : j < p}
<1>8. S \in SUBSET (1 .. Len(args)) /\ \A j \in S : j < i
  BY <1>1, <1>5
<1>9. values = InOrder(S, args) /\ values \in Seq(Seq(STRING))
  BY <1>8, InOrderType DEF ReadUpTo, PositionalsRead
<1>10. InOrder(S \cup {i}, args) = Append(values, args[i])
  BY <1>5, <1>8, <1>9, InOrderOneMore
<1>11. Len(Append(values, args[i])) <= Arity[name]
  <2>1. args[i] \in Seq(STRING)
    BY <1>5, ElementOfSeq
  <2>2. Len(Append(values, args[i])) = Len(values) + 1 /\ Len(values) \in Nat
    BY <1>9, <2>1, AppendProperties, LenProperties
  <2> QED
    BY <1>1, <2>2
<1>12. PositionalsRead(q, name, args, Append(values, args[i]))
  BY <1>7, <1>10, <1>11 DEF PositionalsRead
<1>13. FlagsRead(q, name, args, opts)
  BY <1>6 DEF ReadUpTo, FlagsRead
<1> QED
  BY <1>4, <1>5, <1>12, <1>13 DEF ReadUpTo

(* A flag that was not given before sets its option.                           *)
LEMMA FlagStep ==
    ASSUME NEW args \in Seq(Seq(STRING)), NEW name \in DOMAIN Options, NEW p \in 1 .. Len(args),
           NEW opts, NEW values, ReadUpTo(p, name, args, opts, values),
           NEW k \in OptionsFor(name, args[p]), ~opts[k].found, NEW q,
           Options[name][k].hasValue => p < Len(args) /\ q = p + 2,
           ~Options[name][k].hasValue => q = p + 1
    PROVE  ReadUpTo(q, name, args, [opts EXCEPT ![k] = Taking(k, p, name, args)], values)
<1> DEFINE F == FlagsBefore(p, name, args)
           G == FlagsBefore(q, name, args)
           next == [opts EXCEPT ![k] = Taking(k, p, name, args)]
<1>1. /\ Len(args) \in Nat /\ p \in Nat
      /\ Flags(name, args) \in SUBSET (1 .. Len(args))
      /\ PositionalsOf(name, args) \in SUBSET (1 .. Len(args))
  BY ArgumentsShape
<1>2. /\ IsFlag(args[p]) /\ Dashed(args[p]) /\ args[p] # Dashes
      /\ \A l \in OptionsFor(name, args[p]) : l = k
      /\ k \in DOMAIN Options[name] /\ Options[name][k].hasValue \in BOOLEAN
  <2>1. IsFlag(args[p]) /\ \A l \in OptionsFor(name, args[p]) : l = k
    BY OneOption
  <2>2. k \in DOMAIN Options[name]
    BY DEF OptionsFor
  <2>3. Options[name][k].hasValue \in BOOLEAN
    BY <2>2, OptionTable
  <2> QED
    BY <2>1, <2>2, <2>3 DEF IsFlag
<1>3. Takes(name, args[p]) <=> Options[name][k].hasValue
  BY <1>2 DEF Takes, Valued
<1>4. /\ p \in Flags(name, args) /\ p \notin PositionalsOf(name, args) /\ ~Belongs(name, args, q)
      /\ Options[name][k].hasValue =>
           p + 1 \notin Flags(name, args) /\ p + 1 \notin PositionalsOf(name, args)
  BY <1>2, <1>3, ReadNext DEF ReadUpTo
<1>5. q \in 1 .. Len(args) + 1 /\ q \in p + 1 .. p + 2 /\ (q = p + 2 <=> Options[name][k].hasValue)
  BY <1>1, <1>2
<1>0. /\ \A j \in Flags(name, args) : j < q <=> j < p \/ j = p
      /\ \A j \in PositionalsOf(name, args) : j < q <=> j < p
  <2>1. \A j \in 1 .. Len(args) : j < q <=> j < p \/ j = p \/ (j = p + 1 /\ q = p + 2)
    BY <1>1, <1>5
  <2> QED
    BY <1>1, <1>4, <1>5, <2>1
<1>6. G = F \cup {p} /\ p \notin F
  BY <1>0, <1>1, <1>4 DEF FlagsBefore
<1>7. {j \in PositionalsOf(name, args) : j < q} = {j \in PositionalsOf(name, args) : j < p}
  BY <1>0
<1>8. PositionalsRead(q, name, args, values)
  BY <1>7 DEF ReadUpTo, PositionalsRead
<1>9. FlagsRead(p, name, args, opts)
  BY DEF ReadUpTo
<1>10. \A i \in F : k \notin OptionsFor(name, args[i])
  <2> SUFFICES ASSUME NEW i \in F, k \in OptionsFor(name, args[i]) PROVE FALSE
    OBVIOUS
  <2>1. opts[k] = Taking(k, i, name, args)
    BY <1>2, <1>9 DEF FlagsRead
  <2> QED
    BY <2>1 DEF Taking
<1> HIDE DEF F, G
<1>11. FlagsRead(q, name, args, next)
  <2>1. \A i \in G : OptionsFor(name, args[i]) # {}
    BY <1>6, <1>9 DEF FlagsRead, F
  <2>2. \A i, j \in G : i # j => OptionsFor(name, args[i]) \cap OptionsFor(name, args[j]) = {}
    <3>1. \A i, j \in F : i # j => OptionsFor(name, args[i]) \cap OptionsFor(name, args[j]) = {}
      BY <1>9 DEF FlagsRead, F
    <3>2. \A i \in F : OptionsFor(name, args[i]) \cap OptionsFor(name, args[p]) = {}
      BY <1>2, <1>10
    <3> QED
      BY <1>6, <3>1, <3>2
  <2>3. DOMAIN next = DOMAIN Options[name] /\ DOMAIN opts = DOMAIN Options[name]
    BY <1>9 DEF FlagsRead
  <2>4. /\ next[k] = Taking(k, p, name, args)
        /\ \A l \in DOMAIN Options[name] : l # k => next[l] = opts[l]
    BY <1>2, <2>3
  <2> HIDE DEF next
  <2>5. ASSUME NEW l \in DOMAIN Options[name], NEW i \in G, l \in OptionsFor(name, args[i])
        PROVE  next[l] = Taking(l, i, name, args)
    <3>1. CASE i = p
      BY <1>2, <2>4, <2>5, <3>1
    <3>2. CASE i \in F
      <4>1. l # k
        BY <1>10, <2>5, <3>2
      <4> QED
        BY <1>9, <2>4, <2>5, <3>2, <4>1 DEF FlagsRead, F
    <3> QED
      BY <1>6, <3>1, <3>2
  <2>6. ASSUME NEW l \in DOMAIN Options[name], \A i \in G : l \notin OptionsFor(name, args[i])
        PROVE  next[l] = Unset
    <3>1. l # k /\ \A i \in F : l \notin OptionsFor(name, args[i])
      BY <1>6, <2>6
    <3> QED
      BY <1>9, <2>4, <3>1 DEF FlagsRead, F
  <2> QED
    BY <2>1, <2>2, <2>3, <2>5, <2>6 DEF FlagsRead, G
<1> QED
  BY <1>4, <1>5, <1>8, <1>11 DEF ReadUpTo

(* What the loop refuses is not well formed.                                   *)
LEMMA RefusedIsIllFormed ==
    ASSUME NEW args \in Seq(Seq(STRING)), NEW name \in DOMAIN Options, NEW p,
           NEW opts, NEW values, ReadUpTo(p, name, args, opts, values),
           \/ /\ p <= Len(args) /\ IsFlag(args[p])
              /\ \A k \in OptionsFor(name, args[p]) : opts[k].found
           \/ p = Len(args) /\ Takes(name, args[p])
           \/ /\ p <= Len(args) /\ ~Dashed(args[p])
              /\ ~(Len(values) < Arity[name])
           \/ /\ p < Len(args) /\ args[p] = Dashes
              /\ ~(Len(values) < Arity[name])
           \/ p > Len(args) /\ Len(values) < Arity[name]
    PROVE  ~WellFormed(name, args)
<1>1. /\ Len(args) \in Nat /\ p \in 1 .. Len(args) + 1 /\ Arity[name] \in Nat
      /\ ~Belongs(name, args, p)
  BY ArgumentsShape DEF ReadUpTo
<1>9. /\ Flags(name, args) \in SUBSET (1 .. Len(args))
      /\ PositionalsOf(name, args) \in SUBSET (1 .. Len(args))
      /\ DOMAIN args = 1 .. Len(args)
  BY ArgumentsShape
<1> DEFINE S == {j \in PositionalsOf(name, args) : j < p}
<1>2. /\ Len(values) = Cardinality(S) /\ IsFiniteSet(PositionalsOf(name, args))
      /\ Len(InOrder(PositionalsOf(name, args), args)) = Cardinality(PositionalsOf(name, args))
      /\ Cardinality(S) \in Nat /\ Cardinality(PositionalsOf(name, args)) \in Nat
  <2>1. S \in SUBSET (1 .. Len(args)) /\ values = InOrder(S, args)
    BY <1>9 DEF ReadUpTo, PositionalsRead
  <2> HIDE DEF S
  <2> QED
    BY <1>9, <2>1, InOrderType, FS_CardinalityType
<1>0. ASSUME p <= Len(args)
      PROVE  /\ p \in Flags(name, args) <=> IsFlag(args[p])
             /\ p \in PositionalsOf(name, args) <=> ~Dashed(args[p])
             /\ Takes(name, args[p]) /\ p < Len(args) =>
                  (p + 1 \in PositionalsOf(name, args) <=> args[p] = Dashes)
  <2>1. p \in 1 .. Len(args) /\ ~Belongs(name, args, p)
    BY <1>0, <1>1
  <2> QED
    BY <2>1, ReadNext
<1>3. CASE p <= Len(args) /\ IsFlag(args[p]) /\ \A k \in OptionsFor(name, args[p]) : opts[k].found
  <2>1. p \in Flags(name, args)
    BY <1>0, <1>3
  <2>2. CASE OptionsFor(name, args[p]) = {}
    BY <2>1, <2>2 DEF WellFormed
  <2>3. ASSUME NEW k \in OptionsFor(name, args[p]) PROVE ~WellFormed(name, args)
    <3>1. opts[k] # Unset /\ k \in DOMAIN Options[name]
      BY <1>3, <2>3 DEF Unset, OptionsFor
    <3>2. PICK i \in FlagsBefore(p, name, args) : k \in OptionsFor(name, args[i])
      BY <3>1 DEF ReadUpTo, FlagsRead
    <3>3. i \in Flags(name, args) /\ i < p
      BY DEF FlagsBefore
    <3>4. i # p
      <4>1. p \in Int
        BY <1>1
      <4> QED
        BY <3>3, <4>1
    <3> QED
      BY <2>1, <2>3, <3>2, <3>3, <3>4 DEF WellFormed
  <2> QED
    BY <2>2, <2>3
<1>4. CASE p = Len(args) /\ Takes(name, args[p])
  <2>1. p > 0 /\ p \notin TakenIn(name, args)
    <3>1. p \in DOMAIN args /\ ~Belongs(name, args, p)
      BY <1>1, <1>9, <1>4
    <3> QED
      BY <1>1, <3>1, TakenInIs
  <2> QED
    BY <1>4, <2>1 DEF WellFormed, Takes
<1>5. ASSUME NEW i \in PositionalsOf(name, args), p <= i, ~(Len(values) < Arity[name])
      PROVE  ~WellFormed(name, args)
  <2>1. S \subseteq PositionalsOf(name, args)
    OBVIOUS
  <2>3. i \notin S
    <3>1. p \in Nat
      BY <1>1
    <3>2. i \in 1 .. Len(args)
      BY <1>9
    <3> QED
      BY <1>5, <3>1, <3>2
  <2>2. Cardinality(S) < Cardinality(PositionalsOf(name, args))
    BY <1>2, <2>1, <2>3, FS_Subset
  <2> QED
    BY <1>1, <1>2, <1>5, <2>2 DEF WellFormed
<1>6. CASE p <= Len(args) /\ ~Dashed(args[p]) /\ ~(Len(values) < Arity[name])
  <2>1. p \in PositionalsOf(name, args)
    BY <1>0, <1>6
  <2> QED
    BY <1>1, <1>5, <1>6, <2>1
<1>7. CASE p < Len(args) /\ args[p] = Dashes /\ ~(Len(values) < Arity[name])
  <2>1. p + 1 \in PositionalsOf(name, args)
    <3>1. p \in Nat /\ Len(args) \in Nat /\ p < Len(args)
      BY <1>1, <1>7
    <3>2. p <= Len(args) /\ p <= p + 1
      BY <3>1
    <3> QED
      BY <1>0, <1>7, <3>1, <3>2 DEF Takes
  <2>2. p <= p + 1
    <3>1. p \in Nat
      BY <1>1
    <3> QED
      BY <3>1
  <2> QED
    BY <1>5, <1>7, <2>1, <2>2
<1>8. CASE p > Len(args) /\ Len(values) < Arity[name]
  <2>1. S = PositionalsOf(name, args)
    <3>1. \A j \in 1 .. Len(args) : j < p
      BY <1>1, <1>8
    <3> QED
      BY <1>9, <3>1
  <2> HIDE DEF S
  <2>2. Len(InOrder(PositionalsOf(name, args), args)) = Len(values)
    BY <1>2, <2>1
  <2>3. Len(values) # Arity[name]
    <3>1. Len(values) \in Nat /\ Arity[name] \in Nat
      BY <1>1, <1>2
    <3> QED
      BY <1>8, <3>1
  <2> QED
    BY <2>2, <2>3 DEF WellFormed
<1> QED
  BY <1>3, <1>4, <1>6, <1>7, <1>8

(* What the loop has read to its end with as many positional arguments as      *)
(* there should be is well formed, and read as it stands.                      *)
LEMMA AcceptedIsWellFormed ==
    ASSUME NEW args \in Seq(Seq(STRING)), NEW name \in DOMAIN Options, NEW p,
           NEW opts, NEW values, ReadUpTo(p, name, args, opts, values),
           p > Len(args), ~(Len(values) < Arity[name])
    PROVE  /\ WellFormed(name, args) /\ DOMAIN opts = DOMAIN Options[name]
           /\ values = InOrder(PositionalsOf(name, args), args)
           /\ \A k \in DOMAIN Options[name] :
                 /\ opts[k].found <=> GivenIn(name, k, args)
                 /\ opts[k].found => opts[k] = [found |-> TRUE, value |-> ValueOf(name, k, args)]
                 /\ ~opts[k].found => opts[k] = Unset
                                      /\ ValueOf(name, k, args) = Options[name][k].default
<1>1. /\ Len(args) \in Nat /\ p = Len(args) + 1 /\ Arity[name] \in Nat
      /\ Flags(name, args) \in SUBSET (1 .. Len(args))
      /\ PositionalsOf(name, args) \in SUBSET (1 .. Len(args))
      /\ DOMAIN args = 1 .. Len(args)
  BY ArgumentsShape DEF ReadUpTo
<1>2. /\ FlagsBefore(p, name, args) = Flags(name, args)
      /\ {j \in PositionalsOf(name, args) : j < p} = PositionalsOf(name, args)
  BY <1>1 DEF FlagsBefore
<1>3. values = InOrder(PositionalsOf(name, args), args) /\ Len(values) = Arity[name]
  <2>1. values = InOrder(PositionalsOf(name, args), args) /\ Len(values) <= Arity[name]
    BY <1>2 DEF ReadUpTo, PositionalsRead
  <2>2. values \in Seq(Seq(STRING))
    BY <1>1, <2>1, InOrderType
  <2>3. Len(values) \in Nat
    BY <2>2, LenProperties
  <2> QED
    BY <1>1, <2>1, <2>3
<1>4. /\ \A i \in Flags(name, args) : OptionsFor(name, args[i]) # {}
      /\ \A i, j \in Flags(name, args) :
            i # j => OptionsFor(name, args[i]) \cap OptionsFor(name, args[j]) = {}
      /\ DOMAIN opts = DOMAIN Options[name]
      /\ \A k \in DOMAIN Options[name] :
            /\ \A i \in Flags(name, args) :
                  k \in OptionsFor(name, args[i]) => opts[k] = Taking(k, i, name, args)
            /\ (\A i \in Flags(name, args) : k \notin OptionsFor(name, args[i]))
                  => opts[k] = Unset
  BY <1>2 DEF ReadUpTo, FlagsRead
<1>5. ASSUME Len(args) > 0, Len(args) \notin TakenIn(name, args)
      PROVE  args[Len(args)] # Dashes /\ ~Valued(name, args[Len(args)])
  <2>1. p > 1 /\ p - 1 = Len(args) /\ ~Belongs(name, args, p)
    BY <1>1, <1>5 DEF ReadUpTo
  <2> QED
    BY <1>5, <2>1 DEF Belongs, Takes
<1>6. WellFormed(name, args)
  BY <1>3, <1>4, <1>5 DEF WellFormed
<1>7. ASSUME NEW k \in DOMAIN Options[name]
      PROVE  /\ opts[k].found <=> GivenIn(name, k, args)
             /\ opts[k].found => opts[k] = [found |-> TRUE, value |-> ValueOf(name, k, args)]
             /\ ~opts[k].found => opts[k] = Unset
                                  /\ ValueOf(name, k, args) = Options[name][k].default
  <2> DEFINE given == {i \in Flags(name, args) : k \in OptionsFor(name, args[i])}
  <2>1. CASE given = {}
    <3>1. opts[k] = Unset /\ ~GivenIn(name, k, args)
      BY <1>4, <2>1 DEF GivenIn
    <3>2. ValueOf(name, k, args) = Options[name][k].default
      BY <2>1 DEF ValueOf
    <3> QED
      BY <3>1, <3>2 DEF Unset
  <2>2. ASSUME NEW i \in given
        PROVE  /\ GivenIn(name, k, args) /\ opts[k].found
               /\ opts[k] = [found |-> TRUE, value |-> ValueOf(name, k, args)]
    <3>1. opts[k] = Taking(k, i, name, args)
      BY <1>4
    <3>2. given = {i}
      BY <1>4
    <3>3. Least(given) = i
      <4>1. i \in Nat
        BY <1>1
      <4> QED
        BY <3>2, <4>1 DEF Least
    <3> HIDE DEF given
    <3>4. ValueOf(name, k, args) = IF Options[name][k].hasValue THEN {args[i + 1]} ELSE NoValue
      BY <3>2, <3>3 DEF ValueOf, given
    <3>5. GivenIn(name, k, args)
      BY <3>2 DEF GivenIn, given
    <3> QED
      BY <3>1, <3>4, <3>5 DEF Taking
  <2> QED
    BY <2>1, <2>2
<1> QED
  BY <1>3, <1>4, <1>6, <1>7

-----------------------------------------------------------------------------
(* The steps of the loop                                                       *)

(* Arguments of one flag each match the options that have the flag.            *)
LEMMA MatchingIs ==
    ASSUME NEW arg \in Seq(STRING), Dashed(arg), ~Contains(arg, Comma), command \in DOMAIN Options
    PROVE  /\ Matching(arg) = OptionsFor(command, arg)
           /\ FlagMatches(Help, arg) <=> arg \in ToSet(Help)
<1>1. arg # <<>>
  BY DEF Dashed
<1>2. \A k \in DOMAIN Options[command] : \E n \in OptionNames :
        Options[command][k].flags = <<<<"-", n[1]>>, <<"-", "-", n[2]>>>>
  BY OptionTable DEF FlagsOf
<1>3. \A k \in DOMAIN Options[command] :
        FlagMatches(Options[command][k].flags, arg) <=> arg \in ToSet(Options[command][k].flags)
  BY <1>1, <1>2, PlainMatches
<1>4. FlagMatches(Help, arg) <=> arg \in ToSet(Help)
  BY <1>1, PlainMatches DEF Help
<1> QED
  BY <1>3, <1>4 DEF Matching, OptionsFor

(* A parser is chosen by the first argument.                                   *)
LEMMA ChooseStep == ASSUME ArgumentsInv, ChooseParser PROVE ArgumentsInv'
<1> DEFINE name == CommandOf(argv)
           args == Rest(argv)
<1>1. /\ argv \in Seq(Seq(STRING)) /\ positionals = <<>> /\ at = 1 /\ status = "start"
  BY DEF ArgumentsInv, ChooseParser
<1>2. /\ name \in DOMAIN Options /\ args \in Seq(Seq(STRING)) /\ Len(args) \in Nat
      /\ Len(argv) - Len(args) = IF name = "texc" THEN 0 ELSE 1
  BY <1>1, ArgvShape, LenProperties
<1>3. command' = name /\ at' = IF name = "texc" THEN 1 ELSE 2
  BY DEF ChooseParser, CommandOf, SubCommands
<1>4. UNCHANGED <<argv, positionals>> /\ status' = "parsing"
  BY DEF ChooseParser
<1>5. options' = [k \in DOMAIN Options[name] |-> Unset]
  BY <1>3 DEF ChooseParser
<1>6. Place' = 1 /\ CommandOf(argv)' = name /\ Rest(argv)' = args
  <2>1. Rest(argv') = args /\ CommandOf(argv') = name
    BY <1>4
  <2>2. Place' = at' - (Len(argv) - Len(args))
    BY <1>4, <2>1 DEF Place
  <2> QED
    BY <1>2, <1>3, <2>1, <2>2
<1> HIDE DEF name, args
<1>7. /\ Flags(name, args) \in SUBSET (1 .. Len(args))
      /\ PositionalsOf(name, args) \in SUBSET (1 .. Len(args)) /\ Arity[name] \in Nat
  BY <1>2, ArgumentsShape
<1>8. FlagsBefore(1, name, args) = {} /\ {i \in PositionalsOf(name, args) : i < 1} = {}
  <2>1. \A i \in 1 .. Len(args) : ~(i < 1)
    BY <1>2
  <2> QED
    BY <1>7, <2>1 DEF FlagsBefore
<1>9. FlagsRead(1, name, args, options')
  BY <1>5, <1>8 DEF FlagsRead
<1>10. PositionalsRead(1, name, args, positionals')
  <2>1. positionals' = <<>> /\ InOrder({}, args) = <<>>
    BY <1>1, <1>2, <1>4, InOrderNone
  <2>2. Len(<<>>) <= Arity[name]
    BY <1>7
  <2> QED
    BY <1>8, <2>1, <2>2 DEF PositionalsRead
<1>11. ReadUpTo(1, name, args, options', positionals')
  BY <1>2, <1>9, <1>10 DEF ReadUpTo, Belongs
<1> QED
  BY <1>1, <1>3, <1>4, <1>6, <1>11 DEF ArgumentsInv, name, args

(* The step is refused, and rightly so.                                        *)
LEMMA Refusing ==
    ASSUME NEW why, why \notin {"start", "parsing", "args", "call"}, ArgumentsInv, Refuse(why),
           OneFlagEach => ~WellFormed(CommandOf(argv), Rest(argv))
    PROVE  ArgumentsInv'
<1>1. UNCHANGED <<argv, command, at, options, positionals>> /\ status' = why
  BY DEF Refuse
<1>2. OneFlagEach' => ReadAsWritten'
  BY <1>1 DEF OneFlagEach, ReadAsWritten
<1> QED
  BY <1>1, <1>2 DEF ArgumentsInv

(* The step moves on by d arguments.                                           *)
LEMMA MovingOn ==
    ASSUME ArgumentsInv, status = "parsing", NEW d \in {1, 2}, at' = at + d,
           UNCHANGED <<argv, command, status>>,
           OneFlagEach => ReadUpTo(Place + d, CommandOf(argv), Rest(argv), options', positionals')
    PROVE  ArgumentsInv'
<1>1. OneFlagEach' <=> OneFlagEach
  BY DEF OneFlagEach
<1>2. argv' = argv /\ CommandOf(argv') = CommandOf(argv) /\ Rest(argv') = Rest(argv)
  OBVIOUS
<1>3. argv \in Seq(Seq(STRING)) /\ at \in Nat /\ at + d \in Nat
  BY DEF ArgumentsInv
<1>4. Place' = Place + d
  <2>1. Len(argv) - Len(Rest(argv)) \in Int
    BY <1>3, ArgvShape
  <2>2. Place' = at' - (Len(argv) - Len(Rest(argv)))
    BY <1>2 DEF Place
  <2> QED
    BY <1>3, <2>1, <2>2 DEF Place
<1> QED
  BY <1>1, <1>2, <1>3, <1>4 DEF ArgumentsInv

(* A positional argument, or one behind dashes                                 *)
LEMMA PositionalRead == ASSUME ArgumentsInv, ReadPositional \/ ReadProtected PROVE ArgumentsInv'
<1> DEFINE name == CommandOf(argv)
           args == Rest(argv)
           p == Place
<1>1. Reading /\ status = "parsing" /\ command = name
  BY DEF ReadPositional, ReadProtected, Reading, ArgumentsInv
<1>2. argv \in Seq(Seq(STRING)) /\ at \in Nat
  BY DEF ArgumentsInv
<1>3. name \in DOMAIN Options /\ args \in Seq(Seq(STRING))
  BY <1>2, ArgvShape
<1>4. ASSUME OneFlagEach
      PROVE  /\ ReadUpTo(p, name, args, options, positionals)
             /\ p \in 1 .. Len(args) /\ Arg = args[p]
             /\ at = Len(argv) <=> p = Len(args)
             /\ at < Len(argv) => p < Len(args) /\ argv[at + 1] = args[p + 1]
  <2>1. ReadUpTo(p, name, args, options, positionals)
    BY <1>1, <1>4 DEF ArgumentsInv
  <2>2. p \in 1 .. Len(args) + 1 /\ Len(args) \in Nat
    BY <1>3, <2>1, LenProperties DEF ReadUpTo
  <2>3. /\ p \in 1 .. Len(args) /\ Arg = args[p]
        /\ at = Len(argv) <=> p = Len(args)
        /\ at < Len(argv) => argv[at + 1] = args[p + 1]
    BY <1>1, <1>2, <2>2, NextArgument
  <2>4. at < Len(argv) => at # Len(argv)
    BY <1>2, LenProperties
  <2> QED
    BY <2>1, <2>2, <2>3, <2>4
<1> HIDE DEF p
<1>5. CASE ReadPositional
  <2>1. CASE Len(positionals) < Arity[command]
    <3>1. TakePositional(Arg, 1)
      BY <1>5, <2>1 DEF ReadPositional
    <3>2. ASSUME OneFlagEach
          PROVE  ReadUpTo(p + 1, name, args, options', positionals')
      <4>1. ~Dashed(args[p]) /\ Len(positionals) < Arity[name]
        BY <1>1, <1>4, <1>5, <2>1, <3>2 DEF ReadPositional
      <4>2. ReadUpTo(p + 1, name, args, options, Append(positionals, args[p]))
        BY <1>3, <1>4, <3>2, <4>1, PositionalStep
      <4> QED
        BY <1>4, <3>1, <3>2, <4>2 DEF TakePositional
    <3> QED
      BY <1>1, <3>1, <3>2, MovingOn DEF TakePositional, p
  <2>2. CASE ~(Len(positionals) < Arity[command])
    <3>1. Refuse("positional_excess")
      BY <1>5, <2>2 DEF ReadPositional
    <3>2. OneFlagEach => ~WellFormed(name, args)
      BY <1>1, <1>3, <1>4, <1>5, <2>2, RefusedIsIllFormed DEF ReadPositional
    <3> QED
      BY <3>1, <3>2, Refusing
  <2> QED
    BY <2>1, <2>2
<1>6. CASE ReadProtected
  <2>1. Arg = Dashes /\ (at = Len(argv) \/ at < Len(argv))
    BY <1>1, <1>2, <1>6, LenProperties DEF ReadProtected, Reading
  <2>2. CASE at = Len(argv)
    <3>1. Refuse("positional_not_found")
      BY <1>2, <1>6, <2>2, LenProperties DEF ReadProtected
    <3>2. OneFlagEach => ~WellFormed(name, args)
      BY <1>3, <1>4, <2>1, <2>2, RefusedIsIllFormed DEF Takes
    <3> QED
      BY <3>1, <3>2, Refusing
  <2>3. CASE at < Len(argv) /\ Len(positionals) < Arity[command]
    <3>1. TakePositional(argv[at + 1], 2)
      BY <1>2, <1>6, <2>3, LenProperties DEF ReadProtected
    <3>2. ASSUME OneFlagEach
          PROVE  ReadUpTo(p + 2, name, args, options', positionals')
      <4>1. args[p] = Dashes /\ Len(positionals) < Arity[name] /\ p < Len(args)
        BY <1>1, <1>4, <2>1, <2>3, <3>2
      <4>2. ReadUpTo(p + 2, name, args, options, Append(positionals, args[p + 1]))
        BY <1>3, <1>4, <3>2, <4>1, PositionalStep
      <4> QED
        BY <1>4, <2>3, <3>1, <3>2, <4>2 DEF TakePositional
    <3> QED
      BY <1>1, <3>1, <3>2, MovingOn DEF TakePositional, p
  <2>4. CASE at < Len(argv) /\ ~(Len(positionals) < Arity[command])
    <3>1. Refuse("positional_excess")
      BY <1>2, <1>6, <2>4, LenProperties DEF ReadProtected
    <3>2. OneFlagEach => ~WellFormed(name, args)
      BY <1>1, <1>3, <1>4, <2>1, <2>4, RefusedIsIllFormed
    <3> QED
      BY <3>1, <3>2, Refusing
  <2> QED
    BY <2>1, <2>2, <2>3, <2>4
<1> QED
  BY <1>5, <1>6

(* What the argument to read next is, when what is before it was read          *)
LEMMA AtArgument ==
    ASSUME ArgumentsInv, Reading, OneFlagEach
    PROVE  /\ ReadUpTo(Place, CommandOf(argv), Rest(argv), options, positionals)
           /\ Place \in 1 .. Len(Rest(argv)) /\ Arg = Rest(argv)[Place]
           /\ at = Len(argv) <=> Place = Len(Rest(argv))
           /\ at < Len(argv) => Place < Len(Rest(argv)) /\ argv[at + 1] = Rest(argv)[Place + 1]
           /\ command = CommandOf(argv) /\ command \in DOMAIN Options
           /\ Rest(argv) \in Seq(Seq(STRING))
           /\ Dashed(Arg) =>
                /\ Matching(Arg) = OptionsFor(command, Arg)
                /\ FlagMatches(Help, Arg) <=> Arg \in ToSet(Help)
<1> DEFINE name == CommandOf(argv)
           args == Rest(argv)
           p == Place
<1>1. argv \in Seq(Seq(STRING)) /\ at \in Nat /\ status = "parsing" /\ command = name
  BY DEF ArgumentsInv, Reading
<1>2. name \in DOMAIN Options /\ args \in Seq(Seq(STRING))
  BY <1>1, ArgvShape
<1>3. ReadUpTo(p, name, args, options, positionals)
  BY <1>1 DEF ArgumentsInv
<1>4. p \in 1 .. Len(args) + 1 /\ Len(args) \in Nat
  BY <1>2, <1>3, LenProperties DEF ReadUpTo
<1>5. /\ p \in 1 .. Len(args) /\ Arg = args[p] /\ Arg \in Seq(STRING) /\ at \in DOMAIN argv
      /\ at = Len(argv) <=> p = Len(args)
      /\ at < Len(argv) => argv[at + 1] = args[p + 1]
  BY <1>1, <1>4, NextArgument
<1>6. at < Len(argv) => p < Len(args)
  <2>1. at < Len(argv) => at # Len(argv)
    BY <1>1, LenProperties
  <2> HIDE DEF p, args
  <2> QED
    BY <1>4, <1>5, <2>1
<1>7. Dashed(Arg) => ~Contains(Arg, Comma)
  BY <1>5 DEF OneFlagEach, Arg
<1>8. Dashed(Arg) => /\ Matching(Arg) = OptionsFor(command, Arg)
                     /\ FlagMatches(Help, Arg) <=> Arg \in ToSet(Help)
  BY <1>1, <1>2, <1>5, <1>7, MatchingIs
<1> QED
  BY <1>1, <1>2, <1>3, <1>5, <1>6, <1>8

(* Help, a flag that is none, an option                                        *)
LEMMA HelpRead == ASSUME ArgumentsInv, ReadHelp PROVE ArgumentsInv'
<1> DEFINE name == CommandOf(argv)
           args == Rest(argv)
           p == Place
<1>1. Reading /\ Dashed(Arg) /\ Arg # Dashes /\ FlagMatches(Help, Arg) /\ Refuse("help")
  BY DEF ReadHelp
<1>2. ASSUME OneFlagEach PROVE ~WellFormed(name, args)
  <2>1. /\ ReadUpTo(p, name, args, options, positionals) /\ p \in 1 .. Len(args)
        /\ Arg = args[p] /\ name \in DOMAIN Options /\ args \in Seq(Seq(STRING))
        /\ Arg \in ToSet(Help)
    BY <1>1, <1>2, AtArgument
  <2>2. OptionsFor(name, args[p]) = {}
    BY <2>1, OneOption
  <2>3. IsFlag(args[p]) /\ p <= Len(args)
    BY <1>1, <2>1, LenProperties DEF IsFlag
  <2> HIDE DEF name, args, p
  <2> QED
    BY <2>1, <2>2, <2>3, RefusedIsIllFormed
<1> QED
  BY <1>1, <1>2, Refusing

LEMMA UnknownRead == ASSUME ArgumentsInv, ReadUnknown PROVE ArgumentsInv'
<1> DEFINE name == CommandOf(argv)
           args == Rest(argv)
           p == Place
<1>1. Reading /\ Dashed(Arg) /\ Arg # Dashes /\ Matching(Arg) = {} /\ Refuse("flag_invalid")
  BY DEF ReadUnknown
<1>2. ASSUME OneFlagEach PROVE ~WellFormed(name, args)
  <2>1. /\ ReadUpTo(p, name, args, options, positionals) /\ p \in 1 .. Len(args)
        /\ Arg = args[p] /\ name \in DOMAIN Options /\ args \in Seq(Seq(STRING))
        /\ OptionsFor(name, args[p]) = {}
    BY <1>1, <1>2, AtArgument
  <2>2. IsFlag(args[p]) /\ p <= Len(args)
    BY <1>1, <2>1, LenProperties DEF IsFlag
  <2> HIDE DEF name, args, p
  <2> QED
    BY <2>1, <2>2, RefusedIsIllFormed
<1> QED
  BY <1>1, <1>2, Refusing

LEMMA FlagRead == ASSUME ArgumentsInv, ReadFlag PROVE ArgumentsInv'
<1> DEFINE name == CommandOf(argv)
           args == Rest(argv)
           p == Place
           k == Least(Matching(Arg))
           valued == Options[command][k].hasValue
<1>1. Reading /\ status = "parsing" /\ Dashed(Arg) /\ Arg # Dashes /\ Matching(Arg) # {}
  BY DEF ReadFlag, Reading
<1>2. argv \in Seq(Seq(STRING)) /\ at \in Nat /\ Len(argv) \in Nat /\ at <= Len(argv)
  BY <1>1, LenProperties DEF ArgumentsInv, Reading
<1>3. ASSUME OneFlagEach
      PROVE  /\ ReadUpTo(p, name, args, options, positionals) /\ p \in 1 .. Len(args)
             /\ Arg = args[p] /\ name \in DOMAIN Options /\ args \in Seq(Seq(STRING))
             /\ IsFlag(args[p]) /\ p <= Len(args) /\ command = name
             /\ at = Len(argv) <=> p = Len(args)
             /\ at < Len(argv) => p < Len(args) /\ argv[at + 1] = args[p + 1]
             /\ k \in OptionsFor(name, args[p])
             /\ \A l \in OptionsFor(name, args[p]) : l = k
  <2>1. /\ ReadUpTo(p, name, args, options, positionals) /\ p \in 1 .. Len(args)
        /\ Arg = args[p] /\ name \in DOMAIN Options /\ args \in Seq(Seq(STRING))
        /\ command = name /\ Matching(Arg) = OptionsFor(name, args[p])
        /\ at = Len(argv) <=> p = Len(args)
        /\ at < Len(argv) => p < Len(args) /\ argv[at + 1] = args[p + 1]
    BY <1>1, <1>3, AtArgument
  <2>2. IsFlag(args[p]) /\ p <= Len(args)
    BY <1>1, <2>1, LenProperties DEF IsFlag
  <2>3. \A l, m \in OptionsFor(name, args[p]) : l = m
    BY <2>1, OneOption
  <2>4. OptionsFor(name, args[p]) \subseteq Nat
    BY <2>1, OptionTable DEF OptionsFor
  <2>5. k \in OptionsFor(name, args[p])
    BY <1>1, <2>1, <2>4, LeastOfNat
  <2> HIDE DEF name, args, p, k
  <2> QED
    BY <2>1, <2>2, <2>3, <2>5
<1>4. /\ options[k].found => Refuse("flag_repeated")
      /\ ~options[k].found /\ valued /\ at = Len(argv) => Refuse("value_not_found")
      /\ ~options[k].found /\ ~(valued /\ at = Len(argv)) =>
           /\ options' = [options EXCEPT ![k] =
                 [found |-> TRUE, value |-> IF valued THEN {argv[at + 1]} ELSE NoValue]]
           /\ at' = IF valued THEN at + 2 ELSE at + 1
           /\ UNCHANGED <<argv, command, positionals, status>>
  BY DEF ReadFlag
<1> HIDE DEF name, args, p, k
<1>5. CASE options[k].found
  <2>1. Refuse("flag_repeated")
    BY <1>4, <1>5
  <2>2. OneFlagEach => ~WellFormed(name, args)
    BY <1>3, <1>5, RefusedIsIllFormed
  <2> QED
    BY <2>1, <2>2, Refusing DEF name, args
<1>6. CASE ~options[k].found /\ valued /\ at = Len(argv)
  <2>1. Refuse("value_not_found")
    BY <1>4, <1>6
  <2>2. ASSUME OneFlagEach PROVE ~WellFormed(name, args)
    <3>1. Takes(name, args[p])
      BY <1>3, <1>6, <2>2 DEF Takes, Valued
    <3> QED
      BY <1>3, <1>6, <2>2, <3>1, RefusedIsIllFormed
  <2> QED
    BY <2>1, <2>2, Refusing DEF name, args
<1>7. CASE ~options[k].found /\ ~(valued /\ at = Len(argv))
  <2> DEFINE d == IF valued THEN 2 ELSE 1
             value == IF valued THEN {argv[at + 1]} ELSE NoValue
  <2>1. /\ options' = [options EXCEPT ![k] = [found |-> TRUE, value |-> value]]
        /\ at' = at + d /\ d \in {1, 2} /\ UNCHANGED <<argv, command, positionals, status>>
    BY <1>4, <1>7
  <2>2. ASSUME OneFlagEach PROVE ReadUpTo(p + d, name, args, options', positionals')
    <3>1. valued => at < Len(argv)
      BY <1>2, <1>7
    <3>2. [found |-> TRUE, value |-> value] = Taking(k, p, name, args)
      BY <1>3, <2>2, <3>1 DEF Taking
    <3>3. /\ Options[name][k].hasValue => p < Len(args) /\ p + d = p + 2
          /\ ~Options[name][k].hasValue => p + d = p + 1
      BY <1>3, <2>2, <3>1
    <3> HIDE DEF d, value, valued
    <3>4. ReadUpTo(p + d, name, args, [options EXCEPT ![k] = Taking(k, p, name, args)],
                   positionals)
      BY <1>3, <1>7, <2>2, <3>3, FlagStep
    <3> QED
      BY <2>1, <3>2, <3>4
  <2> HIDE DEF d
  <2>3. at' = at + d /\ d \in {1, 2} /\ UNCHANGED <<argv, command, status>>
    BY <2>1
  <2>4. OneFlagEach => ReadUpTo(Place + d, CommandOf(argv), Rest(argv), options', positionals')
    BY <2>2 DEF p, name, args
  <2> QED
    BY <1>1, <2>3, <2>4, MovingOn
<1> QED
  BY <1>5, <1>6, <1>7

(* The end of the arguments                                                    *)
LEMMA EndRead == ASSUME ArgumentsInv, EndParse PROVE ArgumentsInv'
<1> DEFINE name == CommandOf(argv)
           args == Rest(argv)
           p == Place
           read == [k \in DOMAIN options |->
                       IF options[k].found THEN options[k]
                       ELSE [options[k] EXCEPT !.value = Options[command][k].default]]
<1>1. /\ argv \in Seq(Seq(STRING)) /\ at \in Nat /\ at > Len(argv) /\ status = "parsing"
      /\ command = name
  BY DEF ArgumentsInv, EndParse
<1>2. /\ name \in DOMAIN Options /\ args \in Seq(Seq(STRING)) /\ Len(args) \in Nat
      /\ Len(argv) \in Nat /\ Arity[name] \in Nat
  BY <1>1, ArgvShape, ArgumentsShape, LenProperties
<1>3. ASSUME OneFlagEach PROVE ReadUpTo(p, name, args, options, positionals)
  BY <1>1, <1>3 DEF ArgumentsInv
<1>4. p > Len(args)
  BY <1>1, <1>2 DEF Place
<1>5. CASE Len(positionals) < Arity[name]
  <2>1. Refuse("positional_required")
    BY <1>1, <1>5 DEF EndParse
  <2>2. OneFlagEach => ~WellFormed(name, args)
    <3> HIDE DEF p, name, args
    <3> QED
      BY <1>2, <1>3, <1>4, <1>5, RefusedIsIllFormed
  <2> QED
    BY <2>1, <2>2, Refusing
<1>6. CASE ~(Len(positionals) < Arity[name])
  <2>1. /\ status' = "args" /\ options' = read /\ UNCHANGED <<argv, command, at, positionals>>
    BY <1>1, <1>6 DEF EndParse
  <2>2. CommandOf(argv') = name /\ Rest(argv') = args /\ (OneFlagEach' <=> OneFlagEach)
    BY <2>1 DEF OneFlagEach
  <2>3. ASSUME OneFlagEach
        PROVE  /\ WellFormed(name, args)
               /\ positionals = InOrder(PositionalsOf(name, args), args)
               /\ \A k \in DOMAIN Options[name] :
                     read[k] = [found |-> GivenIn(name, k, args), value |-> ValueOf(name, k, args)]
    <3> HIDE DEF p, name, args
    <3>1. /\ WellFormed(name, args) /\ DOMAIN options = DOMAIN Options[name]
          /\ positionals = InOrder(PositionalsOf(name, args), args)
          /\ \A k \in DOMAIN Options[name] :
                /\ options[k].found <=> GivenIn(name, k, args)
                /\ options[k].found =>
                      options[k] = [found |-> TRUE, value |-> ValueOf(name, k, args)]
                /\ ~options[k].found => options[k] = Unset
                                        /\ ValueOf(name, k, args) = Options[name][k].default
      BY <1>2, <1>3, <1>4, <1>6, <2>3, AcceptedIsWellFormed
    <3>2. ASSUME NEW k \in DOMAIN Options[name]
          PROVE  read[k] = [found |-> GivenIn(name, k, args), value |-> ValueOf(name, k, args)]
      <4>1. CASE options[k].found
        BY <3>1, <3>2, <4>1, Zenon
      <4>2. CASE ~options[k].found
        <5>1. read[k] = [[found |-> FALSE, value |-> NoValue]
                            EXCEPT !.value = ValueOf(name, k, args)]
          BY <1>1, <3>1, <3>2, <4>2 DEF Unset
        <5>2. GivenIn(name, k, args) = FALSE
          BY <3>1, <3>2, <4>2 DEF GivenIn
        <5> HIDE DEF read
        <5> QED
          BY <5>1, <5>2
      <4> QED
        BY <4>1, <4>2
    <3> QED
      BY <3>1, <3>2
  <2> HIDE DEF read
  <2>4. OneFlagEach => ReadAsWritten'
    BY <1>1, <2>1, <2>2, <2>3 DEF ReadAsWritten
  <2> QED
    BY <1>1, <2>1, <2>2, <2>4 DEF ArgumentsInv
<1> QED
  BY <1>5, <1>6

(* Reading the arguments keeps what they are read as.                          *)
LEMMA ArgumentsStep == ASSUME ArgumentsInv, ReadArguments PROVE ArgumentsInv'
BY ChooseStep, PositionalRead, HelpRead, UnknownRead, FlagRead, EndRead DEF ReadArguments

-----------------------------------------------------------------------------
\* What an answer is made of, but for the blank line
Lexemes == {"200", "400", "504", "error", "format", "Timeout", "Sucess", "Api not found", "row",
            "newline", "0.4.1"}

Replies == [status : Lexemes, body : Seq(Lexemes)]

MessageOf(reply) == <<reply.status, BlankLine>> \o reply.body

ChannelShape ==
    /\ response \in [message : Seq(Lexemes \cup {BlankLine}), arrived : Nat, seen : Nat, read : Nat,
                     pieces : Nat, closed : BOOLEAN]
    /\ response.read <= response.arrived /\ response.arrived <= Len(response.message)
    /\ response.pieces = 0 => response.arrived = 0

\* What is sent back is the one answer; nothing is before it, or after a crash.
AnswerSent ==
    /\ server # "ended" => answer = {} /\ response.message = <<>>
    /\ server \notin {"ended", "crashed"} => response = Idle
    /\ server = "ended" =>
         \E reply \in answer : /\ answer = {reply} /\ reply \in Replies
                               /\ response.message = MessageOf(reply)

\* When the arguments are still read, nothing has been done.
InOrderDone ==
    /\ call # {} => status = "call"
    /\ client # "arguments" => status \notin {"start", "parsing"}
    /\ shown # {} => client = "ended"

(* A client that has looked has had a piece of the answer, and one that came in *)
(* one piece was seen whole, up to the block, and is read whole in the end.     *)
Looked ==
    /\ client \in {"peeked", "answered"} \/ shown # {} =>
         /\ server \in {"ended", "crashed"}
         /\ response.message # <<>> => response.pieces > 0
    /\ AtOnce(response) =>
         /\ client = "peeked" => response.seen = Smaller(Waiting(response), Block)
         /\ client = "answered" => response.read = response.arrived

AnswerInv == ChannelShape /\ AnswerSent /\ InOrderDone /\ Looked /\ ShownIsAnswered

-----------------------------------------------------------------------------
(* What the server answers                                                     *)

(* Everything but a table is a status and a word or two.                       *)
LEMMA ErrorsAreReplies ==
    /\ BadRequest \in Replies /\ BadFormat \in Replies /\ Reply("504", <<"Timeout">>) \in Replies
    /\ Success \in Replies /\ NotFound \in Replies /\ Reply("200", <<"0.4.1">>) \in Replies
BY DEF BadRequest, BadFormat, Success, NotFound, Reply, Replies, Lexemes, BlankLine

(* A table has the words of its rows, and no blank line.                       *)
LEMMA TablesAreReplies == \A rows \in 0 .. MaxRows : Table(rows) \in Replies
<1> SUFFICES ASSUME NEW rows \in 0 .. MaxRows PROVE Table(rows) \in Replies
  OBVIOUS
<1>1. 2 * (rows + 1) \in Nat
  BY CommandAssumption
<1>2. "row" \in Lexemes /\ "newline" \in Lexemes /\ "200" \in Lexemes
  BY DEF Lexemes, BlankLine
<1>3. [i \in 1 .. 2 * (rows + 1) |-> IF i % 2 = 1 THEN "row" ELSE "newline"] \in Seq(Lexemes)
  BY <1>1, <1>2
<1> QED
  BY <1>2, <1>3 DEF Table, Reply, Replies

(* Whatever a request asks for, the handler answers with one of these or       *)
(* crashes.                                                                    *)
LEMMA HandlersReply ==
    \A parsed : \A outcome \in Handled(parsed) : outcome.answer # {} =>
        \E reply \in Replies : outcome.answer = {reply}
<1> SUFFICES ASSUME NEW parsed, NEW outcome \in Handled(parsed), outcome.answer # {}
             PROVE  \E reply \in Replies : outcome.answer = {reply}
  OBVIOUS
<1>1. \A ask, replies : replies \subseteq Replies /\ outcome \in Outcome(ask, replies) =>
        \E reply \in Replies : outcome.answer = {reply}
  BY DEF Outcome
<1>2. outcome \notin Crash
  BY DEF Crash
<1>3. outcome \in Rejected => \E reply \in Replies : outcome.answer = {reply}
  BY <1>1, ErrorsAreReplies DEF Rejected
<1>4. \A a, b, c, d : outcome \in HandleAdd(a, b, c, d) =>
        \E reply \in Replies : outcome.answer = {reply}
  BY <1>1, <1>2, ErrorsAreReplies DEF HandleAdd
<1>5. \A a : outcome \in HandleRemove(a) => \E reply \in Replies : outcome.answer = {reply}
  BY <1>1, <1>3, ErrorsAreReplies DEF HandleRemove
<1>6. \A a, b : outcome \in HandleConfig(a, b) => \E reply \in Replies : outcome.answer = {reply}
  BY <1>1, <1>2, <1>3, ErrorsAreReplies DEF HandleConfig
<1>7. {BadRequest} \cup {Table(rows) : rows \in 0 .. MaxRows} \subseteq Replies
  BY ErrorsAreReplies, TablesAreReplies
<1>9. \A a, b : outcome \in HandleList(a, b) => \E reply \in Replies : outcome.answer = {reply}
  <2> DEFINE replies == {BadRequest} \cup {Table(rows) : rows \in 0 .. MaxRows}
  <2>1. \A a, b : outcome \in HandleList(a, b) => outcome \in Outcome({<<"list", a, b>>}, replies)
    BY <1>2 DEF HandleList
  <2> HIDE DEF replies
  <2> QED
    BY <1>1, <1>7, <2>1 DEF replies
<1> DEFINE to(path) == parsed.path = <<"/", path>>
<1>8. \/ outcome \in Rejected
      \/ outcome \in HandleAdd(Query(parsed, "match"), Query(parsed, "expand"),
                               Query(parsed, "enabled"), Query(parsed, "group"))
      \/ outcome \in HandleRemove(Identified(parsed))
      \/ outcome \in HandleList(Query(parsed, "columns"), Query(parsed, "condition"))
      \/ outcome \in Outcome({<<"close">>}, {Success})
      \/ outcome \in HandleConfig(Identified(parsed), Query(parsed, "enabled"))
      \/ outcome \in Outcome({<<"version">>}, {Reply("200", <<"0.4.1">>)})
      \/ outcome \in Outcome({}, {NotFound})
  BY DEF Handled
<1> QED
  BY <1>1, <1>3, <1>4, <1>5, <1>6, <1>8, <1>9, ErrorsAreReplies

-----------------------------------------------------------------------------
(* What the client makes of it                                                 *)

(* The body of the part of a message that was read is that part of the body.   *)
LEMMA BodyOfPart ==
    ASSUME NEW reply \in Replies, NEW n \in 0 .. Len(MessageOf(reply)),
           Contains(SubSeq(MessageOf(reply), 1, n), BlankLine)
    PROVE  /\ n >= 2
           /\ BodyOf(SubSeq(MessageOf(reply), 1, n)) = SubSeq(reply.body, 1, n - 2)
<1> DEFINE message == MessageOf(reply)
           text == SubSeq(message, 1, n)
<1>1. reply.status \in Lexemes /\ reply.body \in Seq(Lexemes) /\ Len(reply.body) \in Nat
  BY DEF Replies
<1>2. /\ message \in Seq(Lexemes \cup {BlankLine}) /\ Len(message) = 2 + Len(reply.body)
      /\ message[1] = reply.status /\ message[2] = BlankLine
      /\ \A i \in 1 .. Len(reply.body) : message[2 + i] = reply.body[i]
  BY <1>1 DEF MessageOf
<1>3. \A i \in 1 .. Len(message) : message[i] = BlankLine <=> i = 2
  <2> SUFFICES ASSUME NEW i \in 1 .. Len(message), i # 2 PROVE message[i] # BlankLine
    BY <1>2
  <2>0. BlankLine \notin Lexemes
    BY DEF Lexemes, BlankLine
  <2>1. CASE i = 1
    BY <1>1, <1>2, <2>0, <2>1
  <2>2. CASE i > 2
    <3>1. /\ i - 2 \in 1 .. Len(reply.body) /\ 2 + (i - 2) = i
          /\ message[2 + (i - 2)] = reply.body[i - 2]
      BY <1>1, <1>2, <2>2
    <3> QED
      BY <1>1, <2>0, <3>1, ElementOfSeq
  <2> QED
    BY <1>2, <2>1, <2>2
<1> HIDE DEF message
<1>4. n \in Nat /\ n <= Len(message) /\ Len(message) \in Nat
  BY <1>2 DEF message
<1>5. /\ text \in Seq(Lexemes \cup {BlankLine}) /\ Len(text) = n
      /\ \A i \in 1 .. n : text[i] = message[i]
  BY <1>2, <1>4
<1> HIDE DEF text
<1>6. PICK j \in 1 .. Len(text) : text[j] = BlankLine
  BY DEF Contains, message, text
<1>7. n >= 2
  BY <1>3, <1>4, <1>5, <1>6
<1>8. DOMAIN text = 1 .. n /\ (CHOOSE i \in DOMAIN text : text[i] = BlankLine) = 2
  BY <1>3, <1>4, <1>5, <1>7
<1>9. BodyOf(text) = SubSeq(text, 3, n)
  <2> DEFINE place == CHOOSE i \in DOMAIN text : text[i] = BlankLine
  <2>1. BodyOf(text) = SubSeq(text, place + 1, Len(text))
    BY DEF BodyOf
  <2>2. place = 2
    BY <1>8
  <2> HIDE DEF place
  <2> QED
    BY <1>5, <2>1, <2>2
<1>10. SubSeq(text, 3, n) = SubSeq(reply.body, 1, n - 2)
  <2>1. /\ Len(SubSeq(text, 3, n)) = n - 2 /\ Len(SubSeq(reply.body, 1, n - 2)) = n - 2
        /\ SubSeq(text, 3, n) \in Seq(Lexemes \cup {BlankLine})
        /\ SubSeq(reply.body, 1, n - 2) \in Seq(Lexemes \cup {BlankLine})
    BY <1>1, <1>2, <1>4, <1>5, <1>7
  <2>2. ASSUME NEW i \in 1 .. n - 2 PROVE SubSeq(text, 3, n)[i] = SubSeq(reply.body, 1, n - 2)[i]
    <3>0. SubSeq(text, 3, n)[i] = text[i + 2]
      BY <1>4, <1>5, <1>7
    <3>1. SubSeq(reply.body, 1, n - 2)[i] = reply.body[i]
      BY <1>1, <1>2, <1>4, <1>7, SMTT(30)
    <3>2. i + 2 = 2 + i /\ i + 2 \in 1 .. n /\ i \in 1 .. Len(reply.body)
      BY <1>1, <1>2, <1>4, <1>7
    <3> QED
      BY <1>2, <1>5, <3>0, <3>1, <3>2
  <2> QED
    BY <2>1, <2>2, <1>4, <1>7, SeqEqual
<1> QED
  BY <1>7, <1>9, <1>10 DEF message, text

-----------------------------------------------------------------------------
(* The steps                                                                   *)

(* As long as nothing is shown and the answer is not looked at, the client's   *)
(* steps are no matter to it.                                                  *)
LEMMA ClientBefore ==
    ASSUME AnswerInv,
           Parse \/ ArgumentsRefused \/ StartTexc \/ SubCommand \/ CallApi \/ ClientTimeout
    PROVE  AnswerInv'
<1>1. /\ UNCHANGED <<shown, call, server, answer, response>>
      /\ client \in {"arguments", "waiting"}
      /\ client' \notin {"peeked", "answered"}
      /\ client' # "arguments" => status' = status
      /\ client' # "arguments" /\ client = "arguments" => status \notin {"start", "parsing"}
  <2>1. CASE Parse
    <3>1. status \in {"start", "parsing"}
      BY <2>1 DEF Parse, ReadArguments, ChooseParser, ReadPositional, ReadProtected, ReadHelp,
                  ReadFlag, ReadUnknown, EndParse, Reading
    <3> QED
      BY <2>1, <3>1 DEF Parse, serverSide, AnswerInv, InOrderDone
  <2>2. CASE ArgumentsRefused
    BY <2>2 DEF ArgumentsRefused, ExitWith, Refusal, arguments, serverSide
  <2>3. CASE StartTexc
    BY <2>3 DEF StartTexc, ExitWith, arguments, serverSide
  <2>4. CASE SubCommand
    BY <2>4 DEF SubCommand, Send, ClientGoes, ExitWith, arguments, serverSide
  <2>5. CASE CallApi
    BY <2>5 DEF CallApi, Send, ClientGoes, ExitWith, arguments, serverSide, AnswerInv, InOrderDone
  <2>6. CASE ClientTimeout
    BY <2>6 DEF ClientTimeout, ClientGoes, arguments, serverSide
  <2> QED
    BY <2>1, <2>2, <2>3, <2>4, <2>5, <2>6
<1>2. shown = {} /\ shown' = {}
  BY <1>1 DEF AnswerInv, InOrderDone
<1>3. /\ call # {} => status' = "call"
      /\ client' # "arguments" => status' \notin {"start", "parsing"}
  <2>1. CASE client' = "arguments"
    <3>1. Parse
      BY <2>1, <1>1 DEF ArgumentsRefused, StartTexc, SubCommand, CallApi, ClientTimeout, Send,
                       ClientGoes, ExitWith
    <3>2. status \in {"start", "parsing"}
      BY <3>1 DEF Parse, ReadArguments, ChooseParser, ReadPositional, ReadProtected, ReadHelp,
                  ReadFlag, ReadUnknown, EndParse, Reading
    <3> QED
      BY <2>1, <3>2 DEF AnswerInv, InOrderDone
  <2>2. CASE client' # "arguments"
    BY <1>1, <2>2 DEF AnswerInv, InOrderDone
  <2> QED
    BY <2>1, <2>2
<1> QED
  BY <1>1, <1>2, <1>3 DEF AnswerInv, ChannelShape, AnswerSent, InOrderDone, Looked, ShownIsAnswered,
                          AtOnce, Waiting

(* A look finds a piece of the answer, or that the connection was closed       *)
(* without one.                                                                *)
LEMMA PeekStep == ASSUME AnswerInv, ClientPeek PROVE AnswerInv'
<1>1. /\ client = "waiting" /\ client' = "peeked" /\ Readable(response)
      /\ response' = [response EXCEPT !.seen = Smaller(Waiting(response), Block)]
      /\ UNCHANGED <<status, call, shown, server, answer>>
  BY DEF ClientPeek, ClientGoes, Peeked, arguments, serverSide
<1>2. shown = {} /\ shown' = {}
  BY <1>1 DEF AnswerInv, InOrderDone
<1>3. Waiting(response) \in Nat
  BY DEF AnswerInv, ChannelShape, Waiting
<1>4. Smaller(Waiting(response), Block) \in Nat
  BY <1>3, CommandAssumption DEF Smaller
<1>5. /\ response'.message = response.message /\ response'.arrived = response.arrived
      /\ response'.read = response.read /\ response'.pieces = response.pieces
      /\ response'.seen = Smaller(Waiting(response), Block) /\ response'.closed = response.closed
  BY <1>1 DEF AnswerInv, ChannelShape
<1>6. ChannelShape'
  BY <1>1, <1>4, <1>5 DEF AnswerInv, ChannelShape
<1>7. server \in {"ended", "crashed"}
  BY <1>1 DEF AnswerInv, AnswerSent, Readable, Waiting, Idle
<1>8. response.message # <<>> => response.pieces > 0
  <2>1. SUFFICES ASSUME response.message # <<>>, response.pieces = 0 PROVE FALSE
    BY DEF AnswerInv, ChannelShape
  <2>2. response.arrived = 0 /\ response.read = 0 /\ Waiting(response) = 0
    BY <2>1 DEF AnswerInv, ChannelShape, Waiting
  <2>3. Len(response.message) = 0
    BY <1>1, <2>2 DEF Readable
  <2> QED
    BY <2>1, <2>3, EmptySeq DEF AnswerInv, ChannelShape
<1> QED
  BY <1>1, <1>2, <1>5, <1>6, <1>7, <1>8
     DEF AnswerInv, AnswerSent, InOrderDone, Looked, ShownIsAnswered, AtOnce, Waiting

(* What was seen whole is read whole: the answer is taken for complete only    *)
(* when nothing that has arrived is left.                                      *)
LEMMA ReadStep == ASSUME AnswerInv, ClientRead PROVE AnswerInv'
<1>1. /\ client = "peeked" /\ client' \in {"answered", "waiting"}
      /\ client' = "answered" => response.seen <= Fits(response)
      /\ response' = [response EXCEPT !.read = @ + Fits(response)]
      /\ UNCHANGED <<status, call, shown, server, answer>>
  BY DEF ClientRead, ClientGoes, AllRead, ReadOn, arguments, serverSide
<1>2. shown = {} /\ shown' = {}
  BY <1>1 DEF AnswerInv, InOrderDone
<1>3. Waiting(response) \in Nat /\ response.read + Waiting(response) = response.arrived
  BY DEF AnswerInv, ChannelShape, Waiting
<1>4. /\ Fits(response) \in Nat /\ Fits(response) <= Waiting(response)
      /\ Smaller(Waiting(response), Block) <= Fits(response) => Fits(response) = Waiting(response)
  BY <1>3, CommandAssumption DEF Fits, Smaller
<1>5. /\ response'.message = response.message /\ response'.arrived = response.arrived
      /\ response'.read = response.read + Fits(response) /\ response'.pieces = response.pieces
      /\ response'.seen = response.seen /\ response'.closed = response.closed
  BY <1>1 DEF AnswerInv, ChannelShape
<1>6. ChannelShape'
  BY <1>1, <1>3, <1>4, <1>5 DEF AnswerInv, ChannelShape
<1>7. server \in {"ended", "crashed"} /\ (response.message # <<>> => response.pieces > 0)
  BY <1>1 DEF AnswerInv, Looked
<1>8. AtOnce(response') /\ client' = "answered" => response'.read = response'.arrived
  <2> SUFFICES ASSUME AtOnce(response'), client' = "answered"
               PROVE  response'.read = response'.arrived
    OBVIOUS
  <2>1. AtOnce(response)
    BY <1>5 DEF AtOnce
  <2>2. response.seen = Smaller(Waiting(response), Block)
    BY <1>1, <2>1 DEF AnswerInv, Looked
  <2> QED
    BY <1>1, <1>3, <1>4, <1>5, <2>2
<1> QED
  BY <1>1, <1>2, <1>5, <1>6, <1>7, <1>8
     DEF AnswerInv, AnswerSent, InOrderDone, Looked, ShownIsAnswered, AtOnce, Waiting

(* What is shown is the part of the body that was read: all of it when the     *)
(* answer came at once.                                                        *)
LEMMA ShowStep == ASSUME AnswerInv, Show PROVE AnswerInv'
<1> DEFINE text == Received(response)
           body == BodyOf(text)
<1>1. /\ client = "answered" /\ client' # "arguments"
      /\ UNCHANGED <<status, command, call, server, answer, response>>
      /\ client' \in {"ended", "crashed"}
      /\ \/ shown' = shown
         \/ /\ Contains(text, BlankLine) /\ client' = "ended"
            /\ shown' = {IF command = "list" /\ RowsIn(body) = 1 THEN Empty ELSE body}
  BY DEF Show, ExitWith, arguments, serverSide
<1>2. shown = {}
  BY <1>1 DEF AnswerInv, InOrderDone
<1>3. ChannelShape' /\ AnswerSent'
  BY <1>1 DEF AnswerInv, ChannelShape, AnswerSent
<1>4. InOrderDone'
  BY <1>1, <1>2 DEF AnswerInv, InOrderDone
<1>5. Looked'
  BY <1>1, <1>2 DEF AnswerInv, Looked, AtOnce
<1>6. CASE shown' = {}
  BY <1>3, <1>4, <1>5, <1>6 DEF AnswerInv, ShownIsAnswered
<1>7. CASE shown' # {}
  <2>1. /\ Contains(text, BlankLine)
        /\ shown' = {IF command = "list" /\ RowsIn(body) = 1 THEN Empty ELSE body}
    BY <1>1, <1>2, <1>7
  <2>2. response.message # <<>>
    <3>1. response.read \in Nat /\ response.read <= Len(response.message)
      BY DEF AnswerInv, ChannelShape
    <3>2. SUFFICES ASSUME response.message = <<>> PROVE FALSE
      OBVIOUS
    <3>3. response.read = 0
      BY <3>1, <3>2
    <3>4. text = <<>>
      BY <3>2, <3>3 DEF Received
    <3> QED
      BY <2>1, <3>4 DEF Contains
  <2>3. PICK reply \in Replies : answer = {reply} /\ response.message = MessageOf(reply)
    BY <2>2 DEF AnswerInv, AnswerSent
  <2>4. reply.body \in Seq(Lexemes) /\ Len(MessageOf(reply)) = 2 + Len(reply.body)
        /\ Len(reply.body) \in Nat
    BY DEF Replies, MessageOf
  <2>5. /\ response.read \in 0 .. Len(MessageOf(reply)) /\ response.arrived <= Len(MessageOf(reply))
        /\ response.read \in Nat /\ response.arrived \in Nat
    BY <2>3 DEF AnswerInv, ChannelShape
  <2>6. response.read >= 2 /\ body = SubSeq(reply.body, 1, response.read - 2)
    BY <2>1, <2>3, <2>5, BodyOfPart DEF Received
  <2> HIDE DEF body
  <2>7. IsPrefix(body, reply.body)
    <3>1. Len(body) = response.read - 2 /\ response.read - 2 <= Len(reply.body)
      BY <2>4, <2>5, <2>6
    <3>2. SubSeq(body, 1, Len(body)) = body
      <4>1. body \in Seq(Lexemes)
        BY <2>4, <2>5, <2>6
      <4> QED
        BY <4>1, SubSeqFull
    <3> QED
      BY <2>6, <3>1, <3>2 DEF IsPrefix
  <2>8. AtOnce(response) => body = reply.body
    <3> SUFFICES ASSUME AtOnce(response) PROVE body = reply.body
      OBVIOUS
    <3>1. response.read - 2 = Len(reply.body)
      BY <1>1, <2>3, <2>4, <2>5 DEF AnswerInv, Looked, AtOnce
    <3> QED
      BY <2>4, <2>6, <3>1, SubSeqFull
  <2>9. ShownIsAnswered'
    <3> SUFFICES ASSUME NEW b \in shown'
                 PROVE  /\ b # Empty => IsPrefix(b, reply.body)
                        /\ AtOnce(response) =>
                             b = IF command = "list" /\ RowsIn(reply.body) = 1 THEN Empty
                                 ELSE reply.body
      BY <1>1, <2>3 DEF ShownIsAnswered, Empty
    <3>1. b = IF command = "list" /\ RowsIn(body) = 1 THEN Empty ELSE body
      BY <2>1
    <3> QED
      BY <2>7, <2>8, <3>1
  <2> QED
    BY <1>3, <1>4, <1>5, <2>9 DEF AnswerInv
<1> QED
  BY <1>6, <1>7

-----------------------------------------------------------------------------
(* Before the server answers the client sees nothing.                          *)
LEMMA ServerStep == ASSUME AnswerInv, Server PROVE AnswerInv'
<1>1. UNCHANGED <<status, command, call, client, shown>>
  BY DEF Server, ServerAccept, ServerTimeout, ServerPeek, ServerRead, RefuseFormat, Handle,
         ServerGoes, clientSide, arguments
<1>2. server \in {"accepting", "waiting", "peeked", "parsing"}
  BY DEF Server, ServerAccept, ServerTimeout, ServerPeek, ServerRead, RefuseFormat, Handle,
         ServerGoes
<1>3. response = Idle /\ answer = {} /\ client \notin {"peeked", "answered"} /\ shown = {}
  BY <1>2 DEF AnswerInv, AnswerSent, Looked
<1>4. InOrderDone'
  BY <1>1 DEF AnswerInv, InOrderDone
<1>5. CASE ServerAccept \/ ServerPeek \/ ServerRead
  <2>1. UNCHANGED <<answer, response>> /\ server' \in {"waiting", "peeked", "parsing"}
    BY <1>5 DEF ServerAccept, ServerPeek, ServerRead, ServerGoes
  <2> QED
    BY <1>1, <1>2, <1>3, <1>4, <2>1
       DEF AnswerInv, ChannelShape, AnswerSent, Looked, ShownIsAnswered, AtOnce, Idle
<1>6. ASSUME NEW reply \in Replies, Answers(reply), server' = "ended" PROVE AnswerInv'
  <2>1. answer' = {reply} /\ response' = Sent(MessageOf(reply), TRUE)
    BY <1>6 DEF Answers, MessageOf
  <2>2. response' = [message |-> MessageOf(reply), arrived |-> 0, seen |-> 0, read |-> 0,
                     pieces |-> 0, closed |-> TRUE]
    BY <2>1 DEF Sent, Idle
  <2>3. MessageOf(reply) \in Seq(Lexemes \cup {BlankLine}) /\ Len(MessageOf(reply)) \in Nat
    BY DEF MessageOf, Replies
  <2>4. ChannelShape'
    BY <2>2, <2>3 DEF ChannelShape
  <2>5. AnswerSent'
    <3>1. response'.message = MessageOf(reply) /\ answer' = {reply} /\ reply \in answer'
      <4>1. response'.message = MessageOf(reply)
        BY <2>2
      <4> QED
        BY <2>1, <4>1
    <3> QED
      BY <1>6, <3>1 DEF AnswerSent
  <2> QED
    BY <1>1, <1>3, <1>4, <2>2, <2>4, <2>5 DEF AnswerInv, Looked, ShownIsAnswered, AtOnce
<1>7. CASE ServerTimeout \/ RefuseFormat
  BY <1>6, <1>7, ErrorsAreReplies DEF ServerTimeout, RefuseFormat, ServerGoes
<1>8. CASE Handle
  <2>1. PICK outcome \in Handled(Parsed(Received(request))) :
          /\ server' = IF outcome.answer = {} THEN "crashed" ELSE "ended"
          /\ IF outcome.answer = {}
             THEN response' = [response EXCEPT !.closed = TRUE] /\ UNCHANGED answer
             ELSE \E reply \in outcome.answer : Answers(reply)
    BY <1>8 DEF Handle, ServerGoes
  <2>2. CASE outcome.answer = {}
    <3>1. /\ server' = "crashed" /\ answer' = {}
          /\ response' = [message |-> <<>>, arrived |-> 0, seen |-> 0, read |-> 0, pieces |-> 0,
                          closed |-> TRUE]
      BY <1>3, <2>1, <2>2 DEF Idle
    <3> QED
      BY <1>1, <1>3, <1>4, <3>1
         DEF AnswerInv, ChannelShape, AnswerSent, Looked, ShownIsAnswered, AtOnce
  <2>3. CASE outcome.answer # {}
    <3>1. PICK reply \in outcome.answer : Answers(reply)
      BY <2>1, <2>3
    <3>2. reply \in Replies
      BY <2>3, <3>1, HandlersReply
    <3> QED
      BY <1>6, <2>1, <2>3, <3>1, <3>2
  <2> QED
    BY <2>2, <2>3
<1> QED
  BY <1>5, <1>7, <1>8 DEF Server

(* A piece more is the second one at least when the client has looked.         *)
LEMMA DeliveryStep ==
    ASSUME AnswerInv, response' \in Delivered(response),
           UNCHANGED <<clientSide, server, asked, answer>>
    PROVE  AnswerInv'
<1>1. /\ UNCHANGED <<status, command, call, client, shown, server, answer>>
  BY DEF clientSide, arguments
<1>2. PICK n \in Nat : /\ response.arrived <= n /\ n <= Len(response.message)
                       /\ n # response.arrived
                       /\ response' = [response EXCEPT !.arrived = n, !.pieces = @ + 1]
  <2>1. response.arrived \in Nat /\ response.arrived <= Len(response.message)
        /\ Len(response.message) \in Nat
    BY DEF AnswerInv, ChannelShape
  <2>2. PICK n \in IF response.pieces + 1 < MaxPieces
                   THEN response.arrived + 1 .. Len(response.message)
                   ELSE {Len(response.message)} \ {response.arrived} :
             response' = [response EXCEPT !.arrived = n, !.pieces = @ + 1]
    BY DEF Delivered
  <2>3. n \in Nat /\ response.arrived <= n /\ n <= Len(response.message) /\ n # response.arrived
    BY <2>1, <2>2
  <2> QED
    BY <2>2, <2>3
<1>3. /\ response'.message = response.message /\ response'.arrived = n
      /\ response'.read = response.read /\ response'.pieces = response.pieces + 1
      /\ response'.seen = response.seen /\ response'.closed = response.closed
  BY <1>2 DEF AnswerInv, ChannelShape
<1>4. ChannelShape'
  <2>1. response.read \in Nat /\ response.arrived \in Nat /\ response.read <= response.arrived
        /\ response.pieces \in Nat
    BY DEF AnswerInv, ChannelShape
  <2>2. response' \in [message : Seq(Lexemes \cup {BlankLine}), arrived : Nat, seen : Nat,
                       read : Nat, pieces : Nat, closed : BOOLEAN]
    <3>1. response.pieces + 1 \in Nat /\ n \in Nat
      BY <2>1
    <3>2. response \in [message : Seq(Lexemes \cup {BlankLine}), arrived : Nat, seen : Nat,
                        read : Nat, pieces : Nat, closed : BOOLEAN]
      BY DEF AnswerInv, ChannelShape
    <3>3. response' = [response EXCEPT !.arrived = n, !.pieces = @ + 1]
      BY <1>2
    <3> QED
      BY <3>1, <3>2, <3>3
  <2> QED
    BY <1>2, <1>3, <2>1, <2>2 DEF ChannelShape
<1>5. response.message # <<>>
  <2>1. SUFFICES ASSUME response.message = <<>> PROVE FALSE
    OBVIOUS
  <2> QED
    BY <1>2, <2>1 DEF AnswerInv, ChannelShape
<1>6. response # Idle
  BY <1>5 DEF Idle
<1>7. AnswerSent'
  BY <1>1, <1>3, <1>6 DEF AnswerInv, AnswerSent
<1>8. ASSUME client \in {"peeked", "answered"} \/ shown # {}
      PROVE  response'.pieces > 1 /\ ~AtOnce(response)' /\ ~AtOnce(response')
  BY <1>3, <1>5, <1>8 DEF AnswerInv, Looked, ChannelShape, AtOnce
<1>9. Looked'
  <2>1. CASE client \in {"peeked", "answered"} \/ shown # {}
    <3>1. server \in {"ended", "crashed"}
      BY <2>1 DEF AnswerInv, Looked
    <3>2. response'.pieces > 0
      BY <1>8, <2>1, <1>4 DEF ChannelShape
    <3> QED
      BY <1>1, <1>8, <2>1, <3>1, <3>2 DEF Looked
  <2>2. CASE ~(client \in {"peeked", "answered"} \/ shown # {})
    BY <1>1, <2>2 DEF Looked
  <2> QED
    BY <2>1, <2>2
<1>10. ShownIsAnswered'
  BY <1>1, <1>8 DEF AnswerInv, ShownIsAnswered
<1> QED
  BY <1>1, <1>4, <1>7, <1>9, <1>10 DEF AnswerInv, InOrderDone

(* The invariant is kept by every step.                                        *)
LEMMA AnswerStep == AnswerInv /\ [Next]_vars => AnswerInv'
<1> SUFFICES ASSUME AnswerInv, [Next]_vars PROVE AnswerInv'
  OBVIOUS
<1>1. CASE Client
  BY <1>1, ClientBefore, PeekStep, ReadStep, ShowStep DEF Client
<1>2. CASE Server
  BY <1>2, ServerStep
<1>3. CASE /\ response' \in Delivered(response)
           /\ UNCHANGED <<clientSide, server, asked, answer, request>>
  BY <1>3, DeliveryStep
<1>4. CASE UNCHANGED <<clientSide, server, asked, answer, response>>
  BY <1>4 DEF clientSide, arguments, AnswerInv, ChannelShape, AnswerSent, InOrderDone, Looked,
              ShownIsAnswered, AtOnce, Waiting
<1>5. CASE UNCHANGED vars
  BY <1>4, <1>5 DEF vars, clientSide
<1> QED
  BY <1>1, <1>2, <1>3, <1>4, <1>5 DEF Next, Network

\* In the beginning there is no answer.
LEMMA AnswerStarts == Init => AnswerInv
<1> SUFFICES ASSUME Init PROVE AnswerInv
  OBVIOUS
<1>1. /\ client = "arguments" /\ shown = {} /\ response = Idle /\ server = "accepting"
      /\ answer = {}
      /\ call # {} => status = "call"
  BY DEF Init
<1> QED
  BY <1>1 DEF AnswerInv, ChannelShape, AnswerSent, InOrderDone, Looked, ShownIsAnswered, AtOnce,
              Idle

(* What a command prints is the body of the server's answer from its           *)
(* beginning, and to its end when the answer has come in one piece, however    *)
(* long it is and however short the buffer.                                    *)
THEOREM AnswerIsShown == Spec => []ShownIsAnswered
<1>1. AnswerInv => ShownIsAnswered
  BY DEF AnswerInv
<1> QED
  BY <1>1, AnswerStarts, AnswerStep, PTL DEF Spec

LEMMA TextsAreStrings ==
    ASSUME NEW texts \in Seq(Seq(Characters)) PROVE texts \in Seq(Seq(STRING))
<1>1. \A i \in 1 .. Len(texts) : texts[i] \in Seq(STRING)
  <2> SUFFICES ASSUME NEW i \in 1 .. Len(texts) PROVE texts[i] \in Seq(STRING)
    OBVIOUS
  <2>1. texts[i] \in Seq(Characters)
    OBVIOUS
  <2> QED
    BY <2>1 DEF Characters
<1> QED
  BY <1>1

(* Only the parser changes what has become of the arguments.                   *)
LEMMA OnlyParsed == ASSUME [Next]_vars PROVE ReadArguments \/ UNCHANGED arguments
<1>1. CASE Client
  BY <1>1 DEF Client, Parse, ArgumentsRefused, StartTexc, SubCommand, CallApi, Send, ClientTimeout,
              ClientPeek, ClientRead, Show
<1>2. CASE Server
  BY <1>2 DEF Server, ServerAccept, ServerTimeout, ServerPeek, ServerRead, RefuseFormat, Handle,
              ServerGoes, clientSide
<1>3. CASE Network \/ UNCHANGED vars
  BY <1>3 DEF Network, clientSide, vars
<1> QED
  BY <1>1, <1>2, <1>3 DEF Next

LEMMA ArgumentsKept == ASSUME ArgumentsInv, UNCHANGED arguments PROVE ArgumentsInv'
<1>1. UNCHANGED <<argv, command, at, options, positionals, status>>
  BY DEF arguments
<1>2. (OneFlagEach' <=> OneFlagEach) /\ Place' = Place
  BY <1>1 DEF OneFlagEach, Place
<1>3. OneFlagEach /\ ReadAsWritten => ReadAsWritten'
  BY <1>1 DEF ReadAsWritten
<1> QED
  BY <1>1, <1>2, <1>3 DEF ArgumentsInv

\* In the beginning no argument is read.
LEMMA ArgumentsStart == Init => ArgumentsInv
<1> SUFFICES ASSUME Init PROVE ArgumentsInv
  OBVIOUS
<1>1. CASE ArgumentsInit(Argvs)
  <2>1. argv \in Seq(Seq(Characters)) /\ at = 1 /\ positionals = <<>> /\ status = "start"
    BY <1>1, CommandAssumption DEF ArgumentsInit
  <2>2. argv \in Seq(Seq(STRING))
    BY <2>1, TextsAreStrings
  <2> QED
    BY <2>1, <2>2 DEF ArgumentsInv
<1>2. CASE ~ArgumentsInit(Argvs)
  <2>1. argv = <<>> /\ at = 1 /\ status = "call"
    BY <1>2 DEF Init
  <2>2. <<>> \in Seq(Seq(STRING))
    OBVIOUS
  <2> QED
    BY <2>1, <2>2 DEF ArgumentsInv
<1> QED
  BY <1>1, <1>2

(* A command is run with its arguments as they stand in the line, and refused  *)
(* exactly when they are no command, whatever arguments a user gives.          *)
THEOREM ArgumentsAreRead == Spec => []ReadsArguments
<1>1. ArgumentsInv /\ [Next]_vars => ArgumentsInv'
  BY OnlyParsed, ArgumentsStep, ArgumentsKept
<1>2. ArgumentsInv => ReadsArguments
  BY DEF ArgumentsInv, ReadsArguments
<1> QED
  BY <1>1, <1>2, ArgumentsStart, PTL DEF Spec

-----------------------------------------------------------------------------
(* Cutting up what was put together                                            *)

Begins(text, d) == {i \in DOMAIN text : text[i] # d /\ (i > 1 => text[i - 1] = d)}

Ends(text, d, i) == {j \in i .. Len(text) : j < Len(text) => text[j + 1] = d}

(* The tokens go from where one begins to the next end.                        *)
LEMMA TokensAre ==
    ASSUME NEW X, NEW text \in Seq(X), NEW d, NEW s, Lists(s, Begins(text, d))
    PROVE  /\ Tokens(text, d) =
                 [n \in 1 .. Len(s) |-> SubSeq(text, s[n], Least(Ends(text, d, s[n])))]
           /\ Len(s) \in Nat /\ DOMAIN s = 1 .. Len(s)
           /\ \A n \in 1 .. Len(s) : s[n] \in Begins(text, d)
<1>1. Begins(text, d) \in SUBSET Nat
  BY LenProperties DEF Begins
<1>2. Ordered(Begins(text, d)) = s
  BY <1>1, OrderedIs
<1>3. /\ Len(s) \in Nat /\ DOMAIN s = 1 .. Len(s)
      /\ \A n \in 1 .. Len(s) : s[n] \in Begins(text, d)
  BY LenProperties, ElementOfSeq DEF Lists
<1>4. Tokens(text, d) =
        [n \in DOMAIN Ordered(Begins(text, d)) |->
            SubSeq(text, Ordered(Begins(text, d))[n],
                   Least(Ends(text, d, Ordered(Begins(text, d))[n])))]
  BY DEF Tokens, Begins, Ends
<1> QED
  BY <1>2, <1>3, <1>4

(* An end is found, and it is the first.                                       *)
LEMMA FirstEnd ==
    ASSUME NEW X, NEW text \in Seq(X), NEW d, NEW i \in 1 .. Len(text)
    PROVE  /\ Least(Ends(text, d, i)) \in Ends(text, d, i)
           /\ Least(Ends(text, d, i)) \in i .. Len(text)
           /\ \A j \in Ends(text, d, i) : Least(Ends(text, d, i)) <= j
<1>1. Len(text) \in Nat /\ Ends(text, d, i) \in SUBSET Nat
  BY LenProperties DEF Ends
<1>2. Len(text) \in Ends(text, d, i)
  BY <1>1 DEF Ends
<1>3. /\ Least(Ends(text, d, i)) \in Ends(text, d, i)
      /\ \A j \in Ends(text, d, i) : Least(Ends(text, d, i)) <= j
  BY <1>1, <1>2, LeastOfNat
<1>4. Ends(text, d, i) \subseteq i .. Len(text)
  BY DEF Ends
<1> QED
  BY <1>3, <1>4

(* One thing after the other                                                   *)
LEMMA Joined ==
    ASSUME NEW X, NEW b \in Seq(X), NEW d \in X, NEW a \in Seq(X)
    PROVE  /\ b \o <<d>> \o a \in Seq(X) /\ Len(b) \in Nat /\ Len(a) \in Nat
           /\ Len(b \o <<d>> \o a) = Len(b) + 1 + Len(a)
           /\ \A i \in 1 .. Len(b) : (b \o <<d>> \o a)[i] = b[i]
           /\ (b \o <<d>> \o a)[Len(b) + 1] = d
           /\ \A i \in 1 .. Len(a) : (b \o <<d>> \o a)[Len(b) + 1 + i] = a[i]
<1> DEFINE c == b \o <<d>>
<1>1. Len(b) \in Nat /\ Len(a) \in Nat
  BY LenProperties
<1>2. <<d>> \in Seq(X) /\ Len(<<d>>) = 1 /\ <<d>>[1] = d
  OBVIOUS
<1>3. /\ c \in Seq(X) /\ Len(c) = Len(b) + 1 /\ c[Len(b) + 1] = d
      /\ \A i \in 1 .. Len(b) : c[i] = b[i]
  BY <1>1, <1>2
<1> HIDE DEF c
<1>4. /\ c \o a \in Seq(X) /\ Len(c \o a) = Len(c) + Len(a)
      /\ \A i \in 1 .. Len(c) : (c \o a)[i] = c[i]
      /\ \A i \in 1 .. Len(a) : (c \o a)[Len(c) + i] = a[i]
  BY <1>1, <1>3
<1> QED
  BY <1>1, <1>3, <1>4 DEF c

(* What is appended behind a delimiter is one token more.                      *)
LEMMA MoreTokens ==
    ASSUME NEW X, NEW b \in Seq(X), NEW d \in X, NEW a \in Seq(X), a # <<>>,
           \A i \in DOMAIN a : a[i] # d
    PROVE  Tokens(b \o <<d>> \o a, d) = Append(Tokens(b, d), a)
<1> DEFINE t == b \o <<d>> \o a
           N == Len(b)
           B == Begins(b, d)
           s == Ordered(B)
           u == Append(s, N + 2)
<1>1. /\ t \in Seq(X) /\ N \in Nat /\ Len(a) \in Nat \ {0} /\ Len(t) = N + 1 + Len(a)
      /\ \A i \in 1 .. N : t[i] = b[i]
      /\ t[N + 1] = d
      /\ \A i \in 1 .. Len(a) : t[N + 1 + i] = a[i]
  BY Joined, EmptySeq
<1>2. /\ DOMAIN b = 1 .. N /\ DOMAIN a = 1 .. Len(a) /\ DOMAIN t = 1 .. Len(t)
      /\ \A i \in 1 .. Len(a) : a[i] # d
  BY <1>1, LenProperties
<1> HIDE DEF t, N
<1>3. \A i \in N + 2 .. Len(t) : t[i] # d
  <2> SUFFICES ASSUME NEW i \in N + 2 .. Len(t) PROVE t[i] # d
    OBVIOUS
  <2>1. i - N - 1 \in 1 .. Len(a) /\ N + 1 + (i - N - 1) = i
    BY <1>1
  <2> QED
    BY <1>1, <1>2, <2>1, ZenonT(30)
<1>4. B \in SUBSET (1 .. N)
  BY <1>2 DEF Begins
<1>5. Begins(t, d) = B \cup {N + 2}
  <2>1. ASSUME NEW i \in 1 .. Len(t) PROVE i \in Begins(t, d) <=> i \in B \cup {N + 2}
    <3>1. CASE i <= N
      <4>1. i \in 1 .. N /\ t[i] = b[i] /\ (i > 1 => t[i - 1] = b[i - 1]) /\ i # N + 2
        BY <1>1, <3>1
      <4> QED
        BY <1>2, <4>1 DEF Begins
    <3>2. CASE i = N + 1
      <4>1. i \notin Begins(t, d)
        BY <1>1, <3>2 DEF Begins
      <4>2. i \notin B /\ i # N + 2
        BY <1>1, <1>4, <3>2
      <4> QED
        BY <4>1, <4>2
    <3>3. CASE i = N + 2
      BY <1>1, <1>2, <1>3, <3>3 DEF Begins
    <3>4. CASE i > N + 2
      <4>1. i - 1 \in N + 2 .. Len(t)
        BY <1>1, <3>4
      <4>2. i \notin Begins(t, d)
        BY <1>3, <4>1, <3>4, <1>1 DEF Begins
      <4> QED
        BY <1>1, <1>4, <3>4, <4>2
    <3> QED
      BY <1>1, <3>1, <3>2, <3>3, <3>4
  <2>2. Begins(t, d) \subseteq 1 .. Len(t)
    BY <1>2 DEF Begins
  <2>3. B \cup {N + 2} \subseteq 1 .. Len(t)
    BY <1>1, <1>4
  <2> QED
    BY <2>1, <2>2, <2>3
<1> HIDE DEF B
<1>6. Lists(s, B)
  BY <1>1, <1>4, OrderedLists
<1> HIDE DEF s
<1>7. Lists(u, Begins(t, d))
  <2>1. B \in SUBSET Nat /\ N + 2 \in Nat /\ \A j \in B : j < N + 2
    BY <1>1, <1>4
  <2> QED
    BY <1>5, <1>6, <2>1, ListsOneMore
<1>8. /\ Tokens(b, d) = [n \in 1 .. Len(s) |-> SubSeq(b, s[n], Least(Ends(b, d, s[n])))]
      /\ Len(s) \in Nat /\ \A n \in 1 .. Len(s) : s[n] \in B
  BY <1>6, TokensAre DEF B
<1>10. /\ Len(u) = Len(s) + 1 /\ u[Len(s) + 1] = N + 2
       /\ \A n \in 1 .. Len(s) : u[n] = s[n]
  <2>1. s \in Seq(Nat) /\ N + 2 \in Nat
    <3>1. B \subseteq Nat
      BY <1>4
    <3>2. s \in Seq(B)
      BY <1>6 DEF Lists
    <3>3. s \in Seq(Nat)
      BY <3>1, <3>2, SeqMonotonic
    <3> QED
      BY <1>1, <3>3
  <2> QED
    BY <2>1, AppendProperties
<1> HIDE DEF u
<1>9. Tokens(t, d) = [n \in 1 .. Len(u) |-> SubSeq(t, u[n], Least(Ends(t, d, u[n])))]
  BY <1>1, <1>7, TokensAre
<1>11. ASSUME NEW i \in B
       PROVE  /\ SubSeq(t, i, Least(Ends(t, d, i))) = SubSeq(b, i, Least(Ends(b, d, i)))
              /\ SubSeq(b, i, Least(Ends(b, d, i))) \in Seq(X)
  <2> DEFINE e == Least(Ends(b, d, i))
             f == Least(Ends(t, d, i))
  <2>1. i \in 1 .. N /\ i \in 1 .. Len(t)
    BY <1>1, <1>4
  <2>2. e \in Ends(b, d, i) /\ e \in i .. N /\ \A j \in Ends(b, d, i) : e <= j
    <3>1. i \in 1 .. Len(b)
      BY <2>1 DEF N
    <3> QED
      BY <3>1, FirstEnd DEF N
  <2>3. f \in Ends(t, d, i) /\ f \in i .. Len(t) /\ \A j \in Ends(t, d, i) : f <= j
    BY <1>1, <2>1, FirstEnd
  <2> HIDE DEF e, f
  <2>4. e \in Ends(t, d, i)
    <3>1. e \in i .. Len(t) /\ e + 1 \in 1 .. N + 1
      BY <1>1, <2>1, <2>2
    <3>2. t[e + 1] = d
      <4>1. CASE e = N
        BY <1>1, <4>1
      <4>2. CASE e < N
        <5>1. b[e + 1] = d
          BY <2>2, <4>2 DEF Ends, N
        <5>2. e + 1 \in 1 .. N
          BY <1>1, <2>1, <2>2, <4>2
        <5> QED
          BY <1>1, <5>1, <5>2
      <4> QED
        BY <2>1, <2>2, <4>1, <4>2, <1>1
    <3> QED
      BY <3>1, <3>2 DEF Ends
  <2>5. f <= e
    BY <2>3, <2>4
  <2>6. f \in Ends(b, d, i)
    <3>1. f \in i .. N /\ (f < N => f + 1 \in 1 .. N /\ f < Len(t))
      BY <1>1, <2>1, <2>2, <2>3, <2>5
    <3>2. f < N => b[f + 1] = d
      BY <1>1, <2>3, <3>1 DEF Ends
    <3> QED
      BY <3>1, <3>2 DEF Ends, N
  <2>7. e = f
    BY <1>1, <2>1, <2>2, <2>3, <2>5, <2>6
  <2>8. SubSeq(t, i, e) = SubSeq(b, i, e) /\ SubSeq(b, i, e) \in Seq(X)
    <3>1. /\ SubSeq(t, i, e) = [k \in 1 .. (1 + e - i) |-> t[k + i - 1]]
          /\ SubSeq(b, i, e) = [k \in 1 .. (1 + e - i) |-> b[k + i - 1]]
      BY <1>1, <2>1, <2>2 DEF N
    <3>2. \A k \in 1 .. (1 + e - i) : k + i - 1 \in 1 .. N
      BY <1>1, <2>1, <2>2
    <3>3. SubSeq(b, i, e) \in Seq(X)
      BY <2>1, <2>2 DEF N
    <3> QED
      BY <1>1, <3>1, <3>2, <3>3
  <2> QED
    BY <2>7, <2>8 DEF e, f
<1>12. SubSeq(t, N + 2, Least(Ends(t, d, N + 2))) = a
  <2> DEFINE f == Least(Ends(t, d, N + 2))
  <2>1. N + 2 \in 1 .. Len(t)
    BY <1>1
  <2>2. f \in Ends(t, d, N + 2) /\ f \in N + 2 .. Len(t)
    BY <1>1, <2>1, FirstEnd
  <2> HIDE DEF f
  <2>3. f = Len(t)
    <3>1. SUFFICES ASSUME f < Len(t) PROVE FALSE
      BY <1>1, <2>2
    <3>2. t[f + 1] = d /\ f + 1 \in N + 2 .. Len(t)
      BY <1>1, <2>2, <3>1 DEF Ends
    <3> QED
      BY <1>3, <3>2
  <2>4. SubSeq(t, N + 2, Len(t)) = [k \in 1 .. Len(a) |-> a[k]]
    <3>1. SubSeq(t, N + 2, Len(t)) = [k \in 1 .. Len(a) |-> t[k + (N + 2) - 1]]
      <4>1. 1 + Len(t) - (N + 2) = Len(a)
        BY <1>1
      <4> QED
        BY <1>1, <4>1
    <3>2. \A k \in 1 .. Len(a) : t[k + (N + 2) - 1] = a[k]
      <4>1. \A k \in 1 .. Len(a) : k + (N + 2) - 1 = N + 1 + k
        BY <1>1
      <4> QED
        BY <1>1, <4>1
    <3> QED
      BY <3>1, <3>2
  <2>5. a = [k \in 1 .. Len(a) |-> a[k]]
    BY LenProperties
  <2> QED
    BY <2>3, <2>4, <2>5 DEF f
<1>13. Tokens(b, d) \in Seq(Seq(X)) /\ Len(Tokens(b, d)) = Len(s)
  BY <1>8, <1>11
<1>14. ASSUME NEW n \in 1 .. Len(s) + 1 PROVE Tokens(t, d)[n] = Append(Tokens(b, d), a)[n]
  <2>1. CASE n = Len(s) + 1
    <3>1. Append(Tokens(b, d), a)[Len(s) + 1] = a
      BY <1>13
    <3>2. Tokens(t, d)[Len(s) + 1] = a
      BY <1>8, <1>9, <1>10, <1>12
    <3> QED
      BY <2>1, <3>1, <3>2
  <2>2. CASE n \in 1 .. Len(s)
    <3>1. Append(Tokens(b, d), a)[n] = Tokens(b, d)[n]
      BY <1>13, <2>2
    <3>2. s[n] \in B /\ u[n] = s[n]
      BY <1>8, <1>10, <2>2
    <3>3. Tokens(b, d)[n] = SubSeq(b, s[n], Least(Ends(b, d, s[n])))
      BY <1>8, <2>2
    <3>4. Tokens(t, d)[n] = SubSeq(t, s[n], Least(Ends(t, d, s[n])))
      BY <1>9, <1>10, <3>2
    <3> QED
      BY <1>11, <3>1, <3>2, <3>3, <3>4
  <2> QED
    BY <1>8, <2>1, <2>2
<1>15. Append(Tokens(b, d), a) \in Seq(Seq(X)) /\ Len(Append(Tokens(b, d), a)) = Len(s) + 1
  BY <1>13
<1>16. Tokens(t, d) = [n \in 1 .. Len(s) + 1 |-> Tokens(t, d)[n]]
  BY <1>9, <1>10
<1>17. Append(Tokens(b, d), a) = [n \in 1 .. Len(s) + 1 |-> Append(Tokens(b, d), a)[n]]
  BY <1>15, LenProperties
<1> QED
  BY <1>14, <1>16, <1>17 DEF t

(* What is before and what is behind are put together in one way.              *)
LEMMA Associative ==
    ASSUME NEW X, NEW a \in Seq(X), NEW b \in Seq(X), NEW c \in Seq(X)
    PROVE  (a \o b) \o c = a \o (b \o c)
BY ConcatAssociative

(* A second and a third one                                                    *)
LEMMA Second ==
    ASSUME NEW X, NEW a \in X, NEW b \in X PROVE Append(<<a>>, b) = <<a, b>>
<1> DEFINE s == <<a>>
           u == <<a, b>>
           t == Append(s, b)
<1>0. s \in Seq(X) /\ Len(s) = 1 /\ s[1] = a
  OBVIOUS
<1>1. u \in Seq(X) /\ Len(u) = 2 /\ u[1] = a /\ u[2] = b
  OBVIOUS
<1> HIDE DEF s, u
<1>2. /\ t \in Seq(X) /\ Len(t) = Len(s) + 1 /\ t[Len(s) + 1] = b
      /\ \A i \in 1 .. Len(s) : t[i] = s[i]
  BY <1>0, AppendProperties, ZenonT(30)
<1>3. t[1] = a /\ t[2] = b /\ Len(t) = 2
  BY <1>0, <1>2
<1> HIDE DEF t
<1>4. \A i \in 1 .. Len(t) : t[i] = u[i]
  BY <1>1, <1>3
<1>5. t = u
  BY <1>1, <1>2, <1>3, <1>4, SeqEqual
<1> QED
  BY <1>5 DEF s, t, u

LEMMA Third ==
    ASSUME NEW X, NEW a \in X, NEW b \in X, NEW c \in X
    PROVE  Append(<<a, b>>, c) = <<a, b, c>>
<1> DEFINE s == <<a, b>>
           u == <<a, b, c>>
           t == Append(s, c)
<1>0. s \in Seq(X) /\ Len(s) = 2 /\ s[1] = a /\ s[2] = b
  OBVIOUS
<1>1. u \in Seq(X) /\ Len(u) = 3 /\ u[1] = a /\ u[2] = b /\ u[3] = c
  OBVIOUS
<1> HIDE DEF s, u
<1>2. /\ t \in Seq(X) /\ Len(t) = Len(s) + 1 /\ t[Len(s) + 1] = c
      /\ \A i \in 1 .. Len(s) : t[i] = s[i]
  <2>1. s \in Seq(X)
    BY <1>0
  <2> QED
    BY <2>1, AppendProperties
<1>3. t[1] = a /\ t[2] = b /\ t[3] = c /\ Len(t) = 3
  BY <1>0, <1>2
<1> HIDE DEF t
<1>4. \A i \in 1 .. Len(t) : t[i] = u[i]
  BY <1>1, <1>3
<1>5. t = u
  BY <1>1, <1>2, <1>3, <1>4, SeqEqual
<1> QED
  BY <1>5 DEF s, t, u

(* Nothing before it                                                           *)
LEMMA NoTokens == ASSUME NEW d PROVE Tokens(<<>>, d) = <<>>
<1> DEFINE none == <<>>
<1>1. none \in Seq({}) /\ Len(none) = 0 /\ DOMAIN none = {}
  OBVIOUS
<1>2. Begins(none, d) = {}
  BY <1>1 DEF Begins
<1>3. Lists(none, {})
  BY DEF Lists
<1> HIDE DEF none
<1>4. Tokens(none, d) =
        [n \in 1 .. Len(none) |-> SubSeq(none, none[n], Least(Ends(none, d, none[n])))]
  BY <1>1, <1>2, <1>3, TokensAre
<1>5. 1 .. Len(none) = {}
  BY <1>1
<1>6. Tokens(none, d) = <<>>
  BY <1>4, <1>5
<1> QED
  BY <1>6 DEF none

(* All places of a list are the list.                                          *)
LEMMA InOrderAll ==
    ASSUME NEW X, NEW list \in Seq(X) PROVE InOrder(DOMAIN list, list) = list
<1> DEFINE s == [n \in 1 .. Len(list) |-> n]
           S == 1 .. Len(list)
<1>1. Len(list) \in Nat /\ DOMAIN list = S
  BY LenProperties
<1>2. s \in Seq(S) /\ Len(s) = Len(list) /\ DOMAIN s = 1 .. Len(list)
  BY <1>1
<1>3. Lists(s, S)
  BY <1>1, <1>2 DEF Lists
<1>4. S \in SUBSET (1 .. Len(list)) /\ \A n \in 1 .. Len(s) : list[n] = list[s[n]]
  BY <1>2
<1> HIDE DEF S, s
<1>5. InOrder(S, list) = list
  BY <1>2, <1>3, <1>4, InOrderIs
<1> QED
  BY <1>1, <1>5

\* The places of a text where one of these is
Where(text, S) == {i \in DOMAIN text : text[i] \in S}

(* Only what stands at the places counts.                                      *)
LEMMA InOrderJoined ==
    ASSUME NEW X, NEW b \in Seq(X), NEW d \in X, NEW a \in Seq(X), NEW S, d \in S,
           \A i \in DOMAIN a : a[i] \notin S
    PROVE  InOrder(Where(b \o <<d>> \o a, S), b \o <<d>> \o a) = Append(InOrder(Where(b, S), b), d)
<1> DEFINE t == b \o <<d>> \o a
           N == Len(b)
           B == Where(b, S)
<1>1. /\ t \in Seq(X) /\ N \in Nat /\ Len(a) \in Nat /\ Len(t) = N + 1 + Len(a)
      /\ \A i \in 1 .. N : t[i] = b[i]
      /\ t[N + 1] = d
      /\ \A i \in 1 .. Len(a) : t[N + 1 + i] = a[i]
  BY Joined
<1>2. /\ DOMAIN b = 1 .. N /\ DOMAIN a = 1 .. Len(a) /\ DOMAIN t = 1 .. Len(t)
  BY <1>1, LenProperties
<1> HIDE DEF t, N
<1>3. B \in SUBSET (1 .. N) /\ B \in SUBSET (1 .. Len(t)) /\ N + 1 \in 1 .. Len(t)
  BY <1>1, <1>2 DEF Where
<1>4. Where(t, S) = B \cup {N + 1}
  <2>1. ASSUME NEW i \in 1 .. Len(t) PROVE i \in Where(t, S) <=> i \in B \cup {N + 1}
    <3>1. CASE i <= N
      <4>1. i \in 1 .. N /\ t[i] = b[i] /\ i # N + 1
        BY <1>1, <3>1
      <4> QED
        BY <1>2, <4>1 DEF Where
    <3>2. CASE i = N + 1
      BY <1>1, <1>2, <3>2 DEF Where
    <3>3. CASE i > N + 1
      <4>1. i - N - 1 \in 1 .. Len(a) /\ N + 1 + (i - N - 1) = i
        BY <1>1, <3>3
      <4>2. t[i] \notin S
        BY <1>1, <1>2, <4>1, ZenonT(30)
      <4>3. i \notin B /\ i # N + 1
        BY <1>1, <1>3, <3>3
      <4> QED
        BY <4>2, <4>3 DEF Where
    <3> QED
      BY <1>1, <3>1, <3>2, <3>3
  <2>2. Where(t, S) \subseteq 1 .. Len(t)
    BY <1>2 DEF Where
  <2> HIDE DEF B
  <2> QED
    BY <1>3, <2>1, <2>2
<1> HIDE DEF B
<1>5. \A j \in B : j < N + 1
  BY <1>1, <1>3
<1>6. InOrder(Where(t, S), t) = Append(InOrder(B, t), d)
  BY <1>1, <1>3, <1>4, <1>5, InOrderOneMore
<1>7. InOrder(B, t) = InOrder(B, b)
  <2> DEFINE s == Ordered(B)
             u == InOrder(B, b)
  <2>1. Lists(s, B) /\ Len(s) = Cardinality(B)
    BY <1>1, <1>3, OrderedLists
  <2>2. Len(s) \in Nat /\ DOMAIN s = 1 .. Len(s) /\ \A n \in 1 .. Len(s) : s[n] \in B
    BY <2>1, LenProperties, ElementOfSeq DEF Lists
  <2>3. u \in Seq(X) /\ Len(u) = Len(s)
    BY <1>3, <2>1, InOrderType DEF N
  <2>4. \A n \in 1 .. Len(s) : u[n] = b[s[n]]
    BY <2>2 DEF InOrder
  <2>5. \A n \in 1 .. Len(s) : u[n] = t[s[n]]
    <3>1. \A i \in B : t[i] = b[i]
      BY <1>1, <1>3
    <3> HIDE DEF s, u
    <3> QED
      BY <2>2, <2>4, <3>1
  <2> HIDE DEF s, u
  <2>6. InOrder(B, t) = u
    <3>1. t \in Seq(X) /\ B \in SUBSET (1 .. Len(t))
      BY <1>1, <1>3
    <3>2. /\ Lists(s, B) /\ u \in Seq(X) /\ Len(u) = Len(s)
          /\ \A n \in 1 .. Len(s) : u[n] = t[s[n]]
      BY <2>1, <2>3, <2>5
    <3> QED
      BY <3>1, <3>2, InOrderIs
  <2> QED
    BY <2>6 DEF u
<1> QED
  BY <1>6, <1>7 DEF t, B

-----------------------------------------------------------------------------
(* Encoding                                                                    *)

\* The characters a scan of the queries stops at
Stops == DOMAIN EscapeOf \ {"+"}

\* What a request is made of
Lexical == STRING \cup {Space, BlankLine, "?", "&", "=", "/", "+", "GET", "HTTP/1.1"}

Printable(value) == InOrder({i \in DOMAIN value : value[i] \notin Unprintable}, value)

(* What means something is no escape, and a space is none of it.               *)
LEMMA MarksAre ==
    /\ {"&", "=", "?", "/"} \subseteq Stops /\ Space \notin DOMAIN EscapeOf 
    /\ BlankLine \notin {"&", "=", "?", "/", "+", "GET", "HTTP/1.1", Space}
    /\ Space \notin {"GET", "HTTP/1.1"}
    /\ {"&", "=", "?", "/", "+"} \subseteq DOMAIN EscapeOf
    /\ \A c \in DOMAIN EscapeOf : /\ EscapeOf[c] \in STRING /\ EscapeOf[c] \notin DOMAIN EscapeOf
                                  /\ EscapeOf[c] # Space /\ EscapeOf[c] # BlankLine
    /\ Unprintable \subseteq DOMAIN EscapeOf
    /\ \A c, d \in DOMAIN EscapeOf : EscapeOf[c] = EscapeOf[d] => c = d
<1>1. /\ BlankLine \notin {"&", "=", "?", "/", "+", "GET", "HTTP/1.1", Space}
      /\ Space \notin {"GET", "HTTP/1.1"}
  BY Zenon DEF BlankLine, Space
<1>2. /\ {"&", "=", "?", "/", "+"} \subseteq DOMAIN EscapeOf /\ Space \notin DOMAIN EscapeOf
      /\ Unprintable \subseteq DOMAIN EscapeOf
      /\ \A c, d \in DOMAIN EscapeOf : EscapeOf[c] = EscapeOf[d] => c = d
  BY UrlAssumption
<1>3. \A c \in DOMAIN EscapeOf :
          EscapeOf[c] \in STRING \ (DOMAIN EscapeOf \cup {Space, BlankLine})
  BY UrlAssumption
<1>4. {"&", "=", "?", "/"} \subseteq Stops
  BY <1>2 DEF Stops
<1> QED
  BY <1>1, <1>2, <1>3, <1>4

(* Nothing in an encoded text means something to the server, and it is as long *)
(* as before.                                                                  *)
LEMMA EncodedIs ==
    ASSUME NEW value \in Seq(Characters)
    PROVE  /\ Encoded(value) \in Seq(Lexical) /\ Len(Encoded(value)) = Len(value)
           /\ DOMAIN Encoded(value) = DOMAIN value
           /\ \A i \in DOMAIN Encoded(value) :
                 /\ Encoded(value)[i] \notin Stops
                 /\ Encoded(value)[i] # Space /\ Encoded(value)[i] # BlankLine
           /\ value \in Seq(Words) => Encoded(value) = value
<1> DEFINE code(c) == CASE c = Space -> "+"
                        [] c \in DOMAIN EscapeOf -> EscapeOf[c]
                        [] OTHER -> c
<1>1. Len(value) \in Nat /\ DOMAIN value = 1 .. Len(value)
      /\ \A i \in 1 .. Len(value) : value[i] \in Characters
  BY LenProperties, ElementOfSeq
<1>2. Encoded(value) = [i \in 1 .. Len(value) |-> code(value[i])]
  BY <1>1 DEF Encoded
<1>3. ASSUME NEW c \in Characters
      PROVE  /\ code(c) \in Lexical /\ code(c) \notin Stops /\ code(c) # Space
             /\ code(c) # BlankLine
             /\ c \in Words => code(c) = c
  <2>1. c \in STRING /\ c # BlankLine
    BY DEF Characters
  <2>2. c \in Words => c \notin DOMAIN EscapeOf /\ c # Space
    BY DEF Words
  <2>3. CASE c = Space
    <3>1. code(c) = "+"
      BY <2>3, MarksAre
    <3>2. "+" \notin Stops /\ "+" # Space /\ "+" # BlankLine
      BY MarksAre DEF Stops
    <3>3. "+" \in Lexical
      BY DEF Lexical
    <3>4. c \notin Words
      BY <2>2, <2>3
    <3> HIDE DEF code
    <3> QED
      BY <3>1, <3>2, <3>3, <3>4
  <2>4. CASE c # Space /\ c \in DOMAIN EscapeOf
    BY <2>2, <2>4, MarksAre DEF Stops, Lexical
  <2>5. CASE c # Space /\ c \notin DOMAIN EscapeOf
    BY <2>1, <2>5, MarksAre DEF Stops, Lexical
  <2> QED
    BY <2>3, <2>4, <2>5
<1> HIDE DEF code
<1>4. \A i \in 1 .. Len(value) : code(value[i]) \in Lexical
  BY <1>1, <1>3
<1>5. /\ Encoded(value) \in Seq(Lexical) /\ Len(Encoded(value)) = Len(value)
      /\ DOMAIN Encoded(value) = 1 .. Len(value)
  BY <1>1, <1>2, <1>4
<1>6. value \in Seq(Words) => Encoded(value) = value
  <2> SUFFICES ASSUME value \in Seq(Words) PROVE Encoded(value) = value
    OBVIOUS
  <2>1. \A i \in 1 .. Len(value) : value[i] \in Words
    BY ElementOfSeq
  <2>2. \A i \in 1 .. Len(value) : code(value[i]) = value[i]
    BY <1>1, <1>3, <2>1
  <2>3. value = [i \in 1 .. Len(value) |-> value[i]]
    BY LenProperties
  <2> QED
    BY <1>2, <2>2, <2>3
<1> QED
  BY <1>1, <1>2, <1>3, <1>5, <1>6

\* What an escape stands for
StandsFor(e) == {c \in DOMAIN EscapeOf : EscapeOf[c] = e}

(* Decoding gives back what was encoded, but for what is not printable.        *)
LEMMA DecodedEncoded ==
    ASSUME NEW value \in Seq(Characters)
    PROVE  Decoded(Encoded(value)) = Printable(value)
<1> DEFINE text == Encoded(value)
           kept == {i \in DOMAIN text : StandsFor(text[i]) \cap Unprintable = {}}
           places == {i \in DOMAIN value : value[i] \notin Unprintable}
<1>1. /\ text \in Seq(Lexical) /\ Len(text) = Len(value) /\ Len(value) \in Nat
      /\ DOMAIN text = 1 .. Len(value) /\ DOMAIN value = 1 .. Len(value)
      /\ \A i \in 1 .. Len(value) : value[i] \in Characters
  BY EncodedIs, LenProperties, ElementOfSeq
<1>2. ASSUME NEW i \in 1 .. Len(value)
      PROVE  /\ value[i] \in DOMAIN EscapeOf => StandsFor(text[i]) = {value[i]} /\ text[i] # "+"
             /\ value[i] \notin DOMAIN EscapeOf => StandsFor(text[i]) = {}
             /\ value[i] = Space => text[i] = "+"
             /\ value[i] \notin DOMAIN EscapeOf /\ value[i] # Space =>
                  text[i] = value[i] /\ text[i] # "+"
  <2>1. text[i] = CASE value[i] = Space -> "+"
                    [] value[i] \in DOMAIN EscapeOf -> EscapeOf[value[i]]
                    [] OTHER -> value[i]
    BY <1>1 DEF Encoded
  <2>2. \A d \in DOMAIN EscapeOf : EscapeOf[d] # value[i]
    BY <1>1 DEF Characters
  <2> HIDE DEF text
  <2>3. CASE value[i] = Space
    BY <2>1, <2>3, MarksAre DEF StandsFor
  <2>4. CASE value[i] # Space /\ value[i] \in DOMAIN EscapeOf
    BY <2>1, <2>4, MarksAre DEF StandsFor
  <2>5. CASE value[i] # Space /\ value[i] \notin DOMAIN EscapeOf
    BY <2>1, <2>2, <2>5, MarksAre DEF StandsFor
  <2> QED
    BY <2>3, <2>4, <2>5
<1> HIDE DEF text
<1>3. kept = places /\ places \in SUBSET (1 .. Len(value))
  BY <1>1, <1>2, MarksAre
<1> DEFINE read == InOrder(kept, text)
           legible == InOrder(places, value)
           s == Ordered(places)
           plain(e) == CASE e = "+" -> Space
                         [] StandsFor(e) # {} -> CHOOSE c \in StandsFor(e) : TRUE
                         [] OTHER -> e
<1>4. Decoded(text) = [i \in DOMAIN read |-> plain(read[i])]
  BY DEF Decoded, StandsFor
<1>5. Lists(s, places) /\ Len(s) = Cardinality(places)
  BY <1>1, <1>3, OrderedLists
<1>6. Len(s) \in Nat /\ DOMAIN s = 1 .. Len(s) /\ \A n \in 1 .. Len(s) : s[n] \in places
  BY <1>5, LenProperties, ElementOfSeq DEF Lists
<1>7. read = [n \in 1 .. Len(s) |-> text[s[n]]] /\ legible = [n \in 1 .. Len(s) |-> value[s[n]]]
  BY <1>3, <1>6 DEF InOrder
<1> HIDE DEF s, read, legible
<1>8. ASSUME NEW i \in places PROVE value[i] = plain(text[i])
  <2>1. i \in 1 .. Len(value)
    BY <1>1
  <2> HIDE DEF places
  <2>2. CASE value[i] = Space
    BY <1>2, <2>1, <2>2
  <2>3. CASE value[i] # Space /\ value[i] \in DOMAIN EscapeOf
    BY <1>2, <2>1, <2>3
  <2>4. CASE value[i] # Space /\ value[i] \notin DOMAIN EscapeOf
    BY <1>2, <2>1, <2>4
  <2> QED
    BY <2>2, <2>3, <2>4
<1> HIDE DEF places, kept, plain
<1>9. Decoded(text) = [n \in 1 .. Len(s) |-> value[s[n]]]
  BY <1>4, <1>6, <1>7, <1>8
<1>10. Decoded(text) = legible
  BY <1>7, <1>9
<1> QED
  BY <1>10 DEF text, legible, places, Printable

(* What is not encoded is decoded to itself.                                   *)
LEMMA DecodedPlain ==
    ASSUME NEW text \in Seq(Lexical),
           \A i \in DOMAIN text : text[i] # "+" /\ StandsFor(text[i]) = {}
    PROVE  Decoded(text) = text
<1> DEFINE kept == {i \in DOMAIN text : StandsFor(text[i]) \cap Unprintable = {}}
           read == InOrder(kept, text)
<1>1. kept = DOMAIN text
  OBVIOUS
<1>2. read = text
  BY <1>1, InOrderAll
<1>3. Decoded(text) = [i \in DOMAIN read |->
                          CASE read[i] = "+" -> Space
                            [] StandsFor(read[i]) # {} -> CHOOSE c \in StandsFor(read[i]) : TRUE
                            [] OTHER -> read[i]]
  BY DEF Decoded, StandsFor
<1> HIDE DEF kept, read
<1>4. Decoded(text) = [i \in DOMAIN text |-> text[i]]
  BY <1>2, <1>3
<1> QED
  BY <1>4, LenProperties

-----------------------------------------------------------------------------
(* The url                                                                     *)

Params == [name : Seq(Words) \ {<<>>}, value : Seq(Characters)]

Part(p) == Encoded(p.name) \o <<"=">> \o Encoded(p.value)

\* What encoding leaves, and what a parameter and the queries are made of
Coded == Lexical \ (Stops \cup {Space, BlankLine})
InPart == Lexical \ {Space, BlankLine, "?", "&"}
InQuery == Lexical \ {Space, BlankLine, "?"}

Marks(query) == InOrder(Where(query, Stops), query)

Turns(n) == [i \in 1 .. n |-> IF i % 2 = 1 THEN "=" ELSE "&"]

LEMMA Alphabets ==
    /\ Coded \subseteq InPart /\ InPart \subseteq InQuery /\ InQuery \subseteq Lexical
    /\ "=" \in InPart /\ "&" \in InQuery /\ "=" \in Stops /\ "&" \in Stops
    /\ \A c \in Coded : c # "=" /\ c \notin Stops
BY MarksAre DEF Coded, InPart, InQuery, Lexical, Stops

LEMMA EncodedCoded == ASSUME NEW value \in Seq(Characters) PROVE Encoded(value) \in Seq(Coded)
<1>1. /\ Encoded(value) \in Seq(Lexical)
      /\ \A i \in DOMAIN Encoded(value) :
            /\ Encoded(value)[i] \notin Stops
            /\ Encoded(value)[i] # Space /\ Encoded(value)[i] # BlankLine
  BY EncodedIs
<1> DEFINE text == Encoded(value)
<1> HIDE DEF text
<1>2. /\ Len(text) \in Nat /\ DOMAIN text = 1 .. Len(text)
      /\ \A i \in 1 .. Len(text) : text[i] \in Lexical
  BY <1>1, LenProperties, ElementOfSeq DEF text
<1>3. \A i \in 1 .. Len(text) : text[i] \in Coded
  BY <1>1, <1>2 DEF Coded, text
<1>4. text = [i \in 1 .. Len(text) |-> text[i]]
  BY <1>1, LenProperties DEF text
<1> QED
  BY <1>2, <1>3, <1>4 DEF text

(* Nothing of a text is one of these.                                          *)
LEMMA NoneOf ==
    ASSUME NEW X, NEW text \in Seq(X), NEW S, \A c \in X : c \notin S
    PROVE  \A i \in DOMAIN text : text[i] \notin S
BY LenProperties, ElementOfSeq

(* A parameter is a name and a value, and nothing in it belongs to another.    *)
LEMMA PartIs ==
    ASSUME NEW p \in Params
    PROVE  /\ Part(p) \in Seq(InPart) /\ Part(p) # <<>>
           /\ p.value # <<>> => Tokens(Part(p), "=") = <<p.name, Encoded(p.value)>>
<1> DEFINE name == Encoded(p.name)
           value == Encoded(p.value)
<1>1. p.name \in Seq(Words) /\ p.name # <<>> /\ p.value \in Seq(Characters)
  BY DEF Params
<1>2. p.name \in Seq(Characters)
  <2>1. Words \subseteq Characters
    BY DEF Words
  <2> QED
    BY <1>1, <2>1, SeqMonotonic
<1>3. name = p.name /\ Len(value) = Len(p.value)
  BY <1>1, <1>2, EncodedIs
<1>4. name \in Seq(Coded) /\ value \in Seq(Coded)
  BY <1>1, <1>2, EncodedCoded
<1>5. name \in Seq(InPart) /\ value \in Seq(InPart)
  BY <1>4, Alphabets, SeqMonotonic
<1> HIDE DEF name, value
<1>6. Part(p) = name \o <<"=">> \o value
  BY DEF Part, name, value
<1>7. /\ name \o <<"=">> \o value \in Seq(InPart)
      /\ Len(name \o <<"=">> \o value) = Len(name) + 1 + Len(value)
      /\ Len(name) \in Nat /\ Len(value) \in Nat
  BY <1>5, Alphabets, Joined
<1>8. Part(p) # <<>>
  <2>1. Len(Part(p)) # 0
    BY <1>6, <1>7
  <2> QED
    BY <2>1
<1>9. ASSUME p.value # <<>> PROVE Tokens(Part(p), "=") = <<p.name, Encoded(p.value)>>
  <2>1. value # <<>>
    <3>1. Len(p.value) # 0
      BY <1>1, <1>9, EmptySeq
    <3>2. Len(value) # 0
      BY <1>3, <3>1
    <3> QED
      BY <3>2
  <2>2. \A i \in DOMAIN name : name[i] # "="
    <3>1. \A c \in Coded : c \notin {"="}
      BY Alphabets
    <3>2. \A i \in DOMAIN name : name[i] \notin {"="}
      BY <1>4, <3>1, NoneOf
    <3> QED
      BY <3>2
  <2>3. \A i \in DOMAIN value : value[i] # "="
    <3>1. \A c \in Coded : c \notin {"="}
      BY Alphabets
    <3>2. \A i \in DOMAIN value : value[i] \notin {"="}
      BY <1>4, <3>1, NoneOf
    <3> QED
      BY <3>2
  <2>4. Tokens(name, "=") = <<name>>
    BY <1>1, <1>3, <1>5, <2>2, OneToken
  <2>5. "=" \in InPart
    BY Alphabets
  <2>6. Tokens(name \o <<"=">> \o value, "=") = Append(Tokens(name, "="), value)
    BY <1>5, <2>1, <2>3, <2>5, MoreTokens
  <2>7. Append(<<name>>, value) = <<name, value>>
    BY <1>5, Second
  <2> QED
    BY <1>3, <1>6, <2>4, <2>6, <2>7 DEF value
<1> QED
  BY <1>6, <1>7, <1>8, <1>9

\* q is the queries of the first n parameters.
QueryOf(q, n, params) ==
    /\ q \in Seq(InQuery) /\ q # <<>>
    /\ Tokens(q, "&") = [i \in 1 .. n |-> Part(params[i])]
    /\ Marks(q) = Turns(2 * n - 1)

(* A parameter has one mark of its own.                                        *)
LEMMA MarksOfPart ==
    ASSUME NEW p \in Params
    PROVE  /\ Marks(Part(p)) = <<"=">>
           /\ \A q \in Seq(InQuery) :
                Marks(q \o <<"&">> \o Part(p)) = Append(Append(Marks(q), "&"), "=")
<1> DEFINE name == Encoded(p.name)
           value == Encoded(p.value)
<1>1. p.name \in Seq(Characters) /\ p.value \in Seq(Characters)
  <2>1. Words \subseteq Characters /\ p.name \in Seq(Words) /\ p.value \in Seq(Characters)
    BY DEF Words, Params
  <2> QED
    BY <2>1, SeqMonotonic
<1>2. name \in Seq(Coded) /\ value \in Seq(Coded)
  BY <1>1, EncodedCoded
<1>3. /\ name \in Seq(InQuery) /\ value \in Seq(InQuery) /\ "=" \in InQuery /\ "&" \in InQuery
      /\ "=" \in Stops /\ "&" \in Stops
  <2>1. Coded \subseteq InQuery
    BY Alphabets
  <2> QED
    BY <1>2, <2>1, SeqMonotonic, Alphabets
<1>4. /\ \A i \in DOMAIN name : name[i] \notin Stops
      /\ \A i \in DOMAIN value : value[i] \notin Stops
  <2>1. \A c \in Coded : c \notin Stops
    BY Alphabets
  <2> HIDE DEF name, value
  <2> QED
    BY <1>2, <2>1, NoneOf
<1> HIDE DEF name, value
<1>5. Part(p) = name \o <<"=">> \o value
  BY DEF Part, name, value
<1>6. ASSUME NEW b \in Seq(InQuery) PROVE Marks(b \o <<"=">> \o value) = Append(Marks(b), "=")
  BY <1>3, <1>4, InOrderJoined DEF Marks
<1>7. ASSUME NEW b \in Seq(InQuery) PROVE Marks(b \o <<"&">> \o name) = Append(Marks(b), "&")
  BY <1>3, <1>4, InOrderJoined DEF Marks
<1>8. Marks(Part(p)) = <<"=">>
  <2>1. Where(name, Stops) = {}
    BY <1>4 DEF Where
  <2>2. Marks(name) = <<>>
    BY <1>3, <2>1, InOrderNone DEF Marks
  <2>3. Append(<<>>, "=") = <<"=">>
    OBVIOUS
  <2> QED
    BY <1>3, <1>5, <1>6, <2>2, <2>3
<1>9. ASSUME NEW q \in Seq(InQuery)
      PROVE  Marks(q \o <<"&">> \o Part(p)) = Append(Append(Marks(q), "&"), "=")
  <2> DEFINE b == q \o <<"&">>
             c == b \o name
             m == <<"=">>
  <2>0. \A x, y, z \in Seq(InQuery) : (x \o y) \o z = x \o (y \o z)
    BY Associative
  <2>1. b \in Seq(InQuery) /\ m \in Seq(InQuery)
    BY <1>3
  <2> HIDE DEF b, m
  <2>2. c \in Seq(InQuery)
    BY <1>3, <2>1
  <2>3. (b \o name) \o m = b \o (name \o m)
    BY <1>3, <2>1, <2>0
  <2>4. (b \o (name \o m)) \o value = b \o ((name \o m) \o value)
    <3> DEFINE x == name \o m
    <3>1. x \in Seq(InQuery)
      BY <1>3, <2>1
    <3> HIDE DEF x
    <3>2. (b \o x) \o value = b \o (x \o value)
      BY <1>3, <2>1, <2>0, <3>1
    <3> QED
      BY <3>2 DEF x
  <2>5. b \o Part(p) = c \o m \o value
    BY <1>5, <2>3, <2>4 DEF m
  <2> HIDE DEF c
  <2>6. Marks(c \o m \o value) = Append(Marks(c), "=")
    BY <1>6, <2>2 DEF m
  <2>7. Marks(c) = Append(Marks(q), "&")
    BY <1>7 DEF c, b
  <2> QED
    BY <2>5, <2>6, <2>7 DEF b
<1> QED
  BY <1>8, <1>9

LEMMA FirstQuery ==
    ASSUME NEW params \in Seq(Params), Len(params) > 0
    PROVE  QueryOf(Part(params[1]), 1, params)
<1> DEFINE q == Part(params[1])
<1>1. params[1] \in Params
  BY LenProperties, ElementOfSeq
<1>2. q \in Seq(InPart) /\ q # <<>> /\ Marks(q) = <<"=">>
  BY <1>1, PartIs, MarksOfPart
<1>3. q \in Seq(InQuery)
  BY <1>2, Alphabets, SeqMonotonic
<1>4. Tokens(q, "&") = <<q>>
  <2>1. \A c \in InPart : c \notin {"&"}
    BY DEF InPart
  <2> HIDE DEF q
  <2>2. \A i \in DOMAIN q : q[i] \notin {"&"}
    BY <1>2, <2>1, NoneOf
  <2>3. \A i \in DOMAIN q : q[i] # "&"
    BY <2>2
  <2> QED
    BY <1>2, <2>3, OneToken
<1>5. <<q>> = [i \in 1 .. 1 |-> Part(params[i])]
  OBVIOUS
<1>6. <<"=">> = Turns(2 * 1 - 1)
  BY DEF Turns
<1> HIDE DEF q
<1> QED
  BY <1>2, <1>3, <1>4, <1>5, <1>6 DEF QueryOf, q

LEMMA MoreQuery ==
    ASSUME NEW params \in Seq(Params), NEW n \in 1 .. Len(params) - 1, NEW q, QueryOf(q, n, params)
    PROVE  QueryOf(q \o <<"&">> \o Part(params[n + 1]), n + 1, params)
<1> DEFINE a == Part(params[n + 1])
           t == q \o <<"&">> \o a
<1>1. n + 1 \in 1 .. Len(params) /\ params[n + 1] \in Params
  <2>1. n + 1 \in 1 .. Len(params)
    BY LenProperties
  <2> QED
    BY <2>1, ElementOfSeq
<1>2. a \in Seq(InPart) /\ a # <<>>
  BY <1>1, PartIs
<1>3. q \in Seq(InQuery) /\ a \in Seq(InQuery) /\ "&" \in InQuery
  BY <1>2, Alphabets, SeqMonotonic DEF QueryOf
<1>4. \A i \in DOMAIN a : a[i] # "&"
  <2>1. \A c \in InPart : c \notin {"&"}
    BY DEF InPart
  <2> HIDE DEF a
  <2>2. \A i \in DOMAIN a : a[i] \notin {"&"}
    BY <1>2, <2>1, NoneOf
  <2> QED
    BY <2>2
<1>5. Marks(t) = Append(Append(Marks(q), "&"), "=")
  BY <1>1, <1>3, MarksOfPart
<1>6. Tokens(t, "&") = Append(Tokens(q, "&"), a)
  <2> HIDE DEF a
  <2> QED
    BY <1>2, <1>3, <1>4, MoreTokens
<1>7. t \in Seq(InQuery) /\ t # <<>>
  <2> HIDE DEF a
  <2>1. t \in Seq(InQuery) /\ Len(t) = Len(q) + 1 + Len(a) /\ Len(q) \in Nat /\ Len(a) \in Nat
    BY <1>3, Joined
  <2>2. Len(t) # 0
    BY <2>1
  <2> HIDE DEF t
  <2> QED
    BY <2>1, <2>2
<1>8. Append([i \in 1 .. n |-> Part(params[i])], a) = [i \in 1 .. n + 1 |-> Part(params[i])]
  OBVIOUS
<1>9. Append(Append(Turns(2 * n - 1), "&"), "=") = Turns(2 * (n + 1) - 1)
  <2> DEFINE m == 2 * n - 1
  <2>1. m \in Nat /\ m + 1 = 2 * n /\ 2 * (n + 1) - 1 = m + 2 /\ n \in Nat
    OBVIOUS
  <2>2. (m + 1) % 2 = 0 /\ (m + 2) % 2 = 1
    BY <2>1
  <2> HIDE DEF m
  <2>3. Append(Turns(m), "&") = Turns(m + 1)
    BY <2>1, <2>2 DEF Turns
  <2>4. Append(Turns(m + 1), "=") = Turns(m + 2)
    BY <2>1, <2>2, SMTT(30) DEF Turns
  <2> QED
    BY <2>1, <2>3, <2>4 DEF m
<1> HIDE DEF t
<1> QED
  BY <1>5, <1>6, <1>7, <1>8, <1>9 DEF QueryOf, t

-----------------------------------------------------------------------------
(* The request                                                                 *)

(* A url is what its loop makes of the parameters, one after the other.        *)
LEMMA BuiltSteps ==
    ASSUME NEW params \in Seq(Params), NEW path \in Seq(Lexical)
    PROVE  \E url : /\ Built(path, params) = url[Len(params)] /\ url[0] = path
                    /\ \A n \in 1 .. Len(params) :
                          url[n] = url[n - 1] \o (IF n = 1 THEN <<"?">> ELSE <<"&">>)
                                              \o Encoded(params[n].name) \o <<"=">>
                                              \o Encoded(params[n].value)
<1> DEFINE N == Len(params)
           Longer(n, before) ==
               before \o (IF n = 1 THEN <<"?">> ELSE <<"&">>)
                      \o Encoded(params[n].name) \o <<"=">> \o Encoded(params[n].value)
           url[n \in 0 .. Len(params)] == IF n = 0 THEN path ELSE Longer(n, url[n - 1])
           step == [p \in (1 .. N) \X Seq(Lexical) |-> Longer(p[1], p[2])]
<1>1. N \in Nat /\ \A n \in 1 .. N : params[n] \in Params
  BY LenProperties, ElementOfSeq
<1>2. ASSUME NEW n \in 1 .. N, NEW before \in Seq(Lexical) PROVE Longer(n, before) \in Seq(Lexical)
  <2>1. params[n].name \in Seq(Characters) /\ params[n].value \in Seq(Characters)
    <3>1. Words \subseteq Characters /\ params[n].name \in Seq(Words)
          /\ params[n].value \in Seq(Characters)
      BY <1>1 DEF Words, Params
    <3> QED
      BY <3>1, SeqMonotonic
  <2> DEFINE name == Encoded(params[n].name)
             value == Encoded(params[n].value)
             sep == IF n = 1 THEN <<"?">> ELSE <<"&">>
             is == <<"=">>
  <2>2. name \in Seq(Lexical) /\ value \in Seq(Lexical)
    BY <2>1, EncodedIs
  <2>3. sep \in Seq(Lexical) /\ is \in Seq(Lexical)
    <3>1. <<"?">> \in Seq(Lexical) /\ <<"&">> \in Seq(Lexical) /\ <<"=">> \in Seq(Lexical)
      BY DEF Lexical
    <3> QED
      BY <3>1
  <2> HIDE DEF name, value, sep, is
  <2>4. before \o sep \o name \o is \o value \in Seq(Lexical)
    BY <2>2, <2>3
  <2> QED
    BY <2>4 DEF name, value, sep, is
<1> HIDE DEF N, Longer
<1>3. Step(step, N, Seq(Lexical))
  BY <1>2 DEF Step
<1>4. PICK g : Computed(g, path, step, N, Seq(Lexical))
  <2> HIDE DEF step
  <2> QED
    BY <1>1, <1>3, LoopComputes
<1>5. g = [n \in 0 .. N |-> IF n = 0 THEN path ELSE Longer(n, g[n - 1])]
  <2>1. ASSUME NEW n \in 0 .. N PROVE g[n] = IF n = 0 THEN path ELSE Longer(n, g[n - 1])
    <3>1. CASE n = 0
      BY <1>4, <3>1 DEF Computed
    <3>2. CASE n # 0
      <4>1. n \in 1 .. N /\ n - 1 \in 0 .. N
        BY <1>1, <3>2
      <4>2. g[n] = step[<<n, g[n - 1]>>] /\ g[n - 1] \in Seq(Lexical)
        BY <1>4, <4>1 DEF Computed
      <4> QED
        BY <3>2, <4>1, <4>2
    <3> QED
      BY <3>1, <3>2
  <2> HIDE DEF step
  <2> QED
    BY <1>4, <2>1 DEF Computed
<1>6. url = [n \in 0 .. N |-> IF n = 0 THEN path ELSE Longer(n, url[n - 1])]
  <2> HIDE DEF step
  <2> QED
    BY <1>5 DEF N
<1>7. Built(path, params) = url[N]
  BY DEF Built, Longer, N
<1> HIDE DEF url
<1>8. url[0] = path /\ \A n \in 1 .. N : url[n] = Longer(n, url[n - 1])
  BY <1>1, <1>6
<1> QED
  BY <1>7, <1>8 DEF N, Longer

LEMMA LexicalAssociative ==
    \A a, b, c \in Seq(Lexical) : (a \o b) \o c = a \o (b \o c)
BY Associative

(* A url is its path, and the queries behind the question mark.                *)
LEMMA BuiltIs ==
    ASSUME NEW params \in Seq(Params), NEW path \in Seq(Lexical)
    PROVE  /\ Len(params) = 0 => Built(path, params) = path
           /\ Len(params) > 0 => \E q : /\ QueryOf(q, Len(params), params)
                                        /\ Built(path, params) = path \o <<"?">> \o q
<1> DEFINE N == Len(params)
<1>1. N \in Nat /\ \A n \in 1 .. N : params[n] \in Params
  BY LenProperties, ElementOfSeq
<1>2. PICK url : /\ Built(path, params) = url[N] /\ url[0] = path
                 /\ \A n \in 1 .. N :
                       url[n] = url[n - 1] \o (IF n = 1 THEN <<"?">> ELSE <<"&">>)
                                           \o Encoded(params[n].name) \o <<"=">>
                                           \o Encoded(params[n].value)
  BY BuiltSteps
<1>3. ASSUME NEW n \in 1 .. N, NEW b \in Seq(Lexical)
      PROVE  b \o Encoded(params[n].name) \o <<"=">> \o Encoded(params[n].value)
               = b \o Part(params[n])
  <2> DEFINE name == Encoded(params[n].name)
             value == Encoded(params[n].value)
             is == <<"=">>
  <2>1. name \in Seq(Lexical) /\ value \in Seq(Lexical) /\ is \in Seq(Lexical)
    <3>1. Words \subseteq Characters /\ params[n].name \in Seq(Words)
          /\ params[n].value \in Seq(Characters)
      BY <1>1 DEF Words, Params
    <3>2. params[n].name \in Seq(Characters)
      BY <3>1, SeqMonotonic
    <3> QED
      BY <3>1, <3>2, EncodedIs DEF Lexical
  <2> HIDE DEF name, value, is
  <2> DEFINE x == name \o is
  <2>2. (b \o name) \o is = b \o x
    BY <2>1, LexicalAssociative
  <2>4. x \in Seq(Lexical)
    BY <2>1
  <2> HIDE DEF x
  <2>3. (b \o x) \o value = b \o (x \o value)
    BY <2>1, <2>4, LexicalAssociative, SMTT(30)
  <2> QED
    BY <2>2, <2>3 DEF x, name, value, is, Part
<1>4. "?" \in Lexical /\ "&" \in Lexical /\ <<"?">> \in Seq(Lexical) /\ <<"&">> \in Seq(Lexical)
  BY DEF Lexical
<1> DEFINE Good == {n \in 0 .. N : n > 0 =>
               \E q : QueryOf(q, n, params) /\ url[n] = path \o <<"?">> \o q}
<1>5. 0 \in Good
  BY <1>1
<1>6. ASSUME NEW n \in 0 .. N - 1, n \in Good PROVE n + 1 \in Good
  <2>1. n + 1 \in 1 .. N /\ (n + 1) - 1 = n
    BY <1>1
  <2>2. CASE n = 0
    <3>1. url[1] = path \o <<"?">> \o Encoded(params[1].name) \o <<"=">> \o Encoded(params[1].value)
      <4>1. 1 \in 1 .. N /\ url[1 - 1] = path
        BY <1>2, <2>1, <2>2
      <4> QED
        BY <1>2, <4>1
    <3> DEFINE b == path \o <<"?">>
    <3>2. b \in Seq(Lexical) /\ 1 \in 1 .. N
      BY <1>4, <2>1, <2>2
    <3>3. url[1] = b \o Part(params[1])
      <4>1. url[1] = b \o Encoded(params[1].name) \o <<"=">> \o Encoded(params[1].value)
        BY <3>1
      <4> HIDE DEF b
      <4> QED
        BY <1>3, <3>2, <4>1
    <3>4. QueryOf(Part(params[1]), 1, params)
      BY <1>1, <2>1, <2>2, FirstQuery
    <3> QED
      BY <2>1, <2>2, <3>3, <3>4
  <2>3. CASE n > 0
    <3>1. PICK q : QueryOf(q, n, params) /\ url[n] = path \o <<"?">> \o q
      BY <1>6, <2>3
    <3> DEFINE b == path \o <<"?">>
               p == Part(params[n + 1])
               c == q \o <<"&">>
    <3>2. b \in Seq(Lexical) /\ q \in Seq(Lexical) /\ p \in Seq(Lexical)
      <4>1. q \in Seq(InQuery) /\ p \in Seq(InPart)
        BY <1>1, <2>1, <3>1, PartIs DEF QueryOf
      <4> QED
        BY <1>4, <4>1, Alphabets, SeqMonotonic
    <3>3. c \in Seq(Lexical) /\ (b \o q) \o <<"&">> = b \o c
      <4> HIDE DEF b
      <4> QED
        BY <1>4, <3>2, LexicalAssociative
    <3>4. url[n + 1] = url[n] \o <<"&">> \o Encoded(params[n + 1].name) \o <<"=">>
                                         \o Encoded(params[n + 1].value)
      <4> DEFINE m == n + 1
      <4>1. m \in 1 .. N /\ m - 1 = n /\ m # 1
        BY <2>1, <2>3
      <4> HIDE DEF m
      <4>2. url[m] = url[n] \o <<"&">> \o Encoded(params[m].name) \o <<"=">>
                                     \o Encoded(params[m].value)
        BY <1>2, <4>1
      <4> QED
        BY <4>2 DEF m
    <3>5. url[n] = b \o q
      BY <3>1
    <3> HIDE DEF b, c
    <3>6. url[n + 1] = (b \o c) \o p
      <4>1. b \o c \in Seq(Lexical)
        BY <3>2, <3>3
      <4>2. url[n] \o <<"&">> = b \o c
        BY <3>3, <3>5
      <4> QED
        BY <1>3, <2>1, <3>4, <4>1, <4>2
    <3> HIDE DEF p
    <3>7. url[n + 1] = b \o (c \o p)
      BY <3>2, <3>3, <3>6, LexicalAssociative
    <3>8. QueryOf(c \o p, n + 1, params)
      <4>1. n \in 1 .. Len(params) - 1
        BY <1>1, <2>3
      <4> QED
        BY <3>1, <4>1, MoreQuery DEF c, p
    <3> DEFINE r == c \o p
    <3>9. QueryOf(r, n + 1, params) /\ url[n + 1] = path \o <<"?">> \o r
      BY <3>7, <3>8 DEF b
    <3> HIDE DEF r
    <3> QED
      BY <2>1, <3>9
  <2>4. n = 0 \/ n > 0
    BY <1>1
  <2> HIDE DEF Good
  <2> QED
    BY <2>2, <2>3, <2>4
<1>7. N \in Good
  <2> HIDE DEF Good
  <2>1. \A n \in 0 .. N : n \in Good
    BY <1>1, <1>5, <1>6, UpTo
  <2> QED
    BY <1>1, <2>1
<1> QED
  BY <1>1, <1>2, <1>7

(* Tuples are put together, too.                                               *)
LEMMA Tuples ==
    ASSUME NEW X, NEW a \in X, NEW b \in X, NEW c \in X
    PROVE  <<a, b>> = <<a>> \o <<b>> /\ <<a, b, c>> = <<a>> \o <<b, c>>
<1> DEFINE p == <<a>>
           q == <<b>>
           r == <<b, c>>
           s == <<a, b>>
           t == <<a, b, c>>
<1>1. p \in Seq(X) /\ Len(p) = 1 /\ p[1] = a
  OBVIOUS
<1>2. q \in Seq(X) /\ Len(q) = 1 /\ q[1] = b
  OBVIOUS
<1>3. r \in Seq(X) /\ Len(r) = 2 /\ r[1] = b /\ r[2] = c
  OBVIOUS
<1>4. s \in Seq(X) /\ Len(s) = 2 /\ s[1] = a /\ s[2] = b
  OBVIOUS
<1>5. t \in Seq(X) /\ Len(t) = 3 /\ t[1] = a /\ t[2] = b /\ t[3] = c
  OBVIOUS
<1> HIDE DEF p, q, r, s, t
<1>6. p \o q \in Seq(X) /\ Len(p \o q) = 2 /\ (p \o q)[1] = a /\ (p \o q)[2] = b
  <2>1. /\ p \o q \in Seq(X) /\ Len(p \o q) = Len(p) + Len(q)
        /\ \A i \in 1 .. Len(p) : (p \o q)[i] = p[i]
        /\ \A i \in 1 .. Len(q) : (p \o q)[Len(p) + i] = q[i]
    <3>1. p \in Seq(X) /\ q \in Seq(X)
      BY <1>1, <1>2
    <3> QED
      BY <3>1
  <2>2. (p \o q)[1 + 1] = b
    BY <1>1, <1>2, <2>1
  <2> QED
    BY <1>1, <1>2, <2>1, <2>2
<1>7. /\ p \o r \in Seq(X) /\ Len(p \o r) = 3
      /\ (p \o r)[1] = a /\ (p \o r)[2] = b /\ (p \o r)[3] = c
  <2>1. /\ p \o r \in Seq(X) /\ Len(p \o r) = Len(p) + Len(r)
        /\ \A i \in 1 .. Len(p) : (p \o r)[i] = p[i]
        /\ \A i \in 1 .. Len(r) : (p \o r)[Len(p) + i] = r[i]
    <3>1. p \in Seq(X) /\ r \in Seq(X)
      BY <1>1, <1>3
    <3> QED
      BY <3>1
  <2>2. (p \o r)[1 + 1] = b /\ (p \o r)[1 + 2] = c
    BY <1>1, <1>3, <2>1
  <2> QED
    BY <1>1, <1>3, <2>1, <2>2
<1>8. s = p \o q
  <2>1. \A i \in 1 .. Len(s) : s[i] = (p \o q)[i]
    BY <1>4, <1>6
  <2> QED
    BY <1>4, <1>6, <2>1, SeqEqual
<1>9. t = p \o r
  <2>1. \A i \in 1 .. Len(t) : t[i] = (p \o r)[i]
    BY <1>5, <1>7
  <2> QED
    BY <1>5, <1>7, <2>1, SeqEqual
<1> QED
  BY <1>8, <1>9 DEF p, q, r, s, t

Ending == <<"HTTP/1.1", BlankLine>>

(* A request is three words.                                                   *)
LEMMA RequestWords ==
    ASSUME NEW url \in Seq(Lexical), url # <<>>, \A i \in DOMAIN url : url[i] # Space
    PROVE  /\ Tokens(RequestOf(url), Space) = <<<<"GET">>, url, Ending>>
           /\ RequestOf(url) = <<"GET">> \o <<Space>> \o url \o <<Space>> \o Ending
<1> DEFINE get == <<"GET">>
           sp == <<Space>>
           b == get \o sp \o url
           L == Lexical
<1>1. /\ "GET" \in L /\ Space \in L /\ "HTTP/1.1" \in L /\ BlankLine \in L
  BY DEF Lexical
<1> HIDE DEF L
<1>2. get \in Seq(L) /\ sp \in Seq(L) /\ Ending \in Seq(L) /\ url \in Seq(L)
  BY <1>1 DEF Ending, L
<1>3. <<"GET", Space>> = get \o sp /\ <<Space, "HTTP/1.1", BlankLine>> = sp \o Ending
  BY <1>1, Tuples DEF Ending
<1>4. Ending # <<>> /\ get # <<>> /\ Len(get) = 1
  BY DEF Ending
<1>5. \A i \in DOMAIN Ending : Ending[i] # Space
  <2>1. \A i \in DOMAIN Ending : Ending[i] \in {"HTTP/1.1", BlankLine}
    BY DEF Ending
  <2> QED
    BY <2>1, MarksAre
<1>6. \A i \in DOMAIN get : get[i] # Space
  <2>1. \A i \in DOMAIN get : get[i] = "GET"
    OBVIOUS
  <2> QED
    BY <2>1, MarksAre
<1> HIDE DEF get
<1>7. RequestOf(url) = b \o (sp \o Ending)
  BY <1>3 DEF RequestOf
<1>8. b \in Seq(L) /\ Tokens(b, Space) = <<get, url>>
  <2>1. b \in Seq(L)
    BY <1>2
  <2>2. Tokens(b, Space) = Append(Tokens(get, Space), url)
    BY <1>1, <1>2, MoreTokens
  <2>3. Tokens(get, Space) = <<get>>
    BY <1>2, <1>4, <1>6, OneToken
  <2>4. Append(<<get>>, url) = <<get, url>>
    BY <1>2, Second
  <2> QED
    BY <2>1, <2>2, <2>3, <2>4
<1> HIDE DEF b
<1>9. RequestOf(url) = b \o sp \o Ending
  <2> HIDE DEF sp
  <2>1. b \in Seq(L)
    BY <1>8
  <2>2. \A x, y, z \in Seq(L) : (x \o y) \o z = x \o (y \o z)
    BY Associative
  <2>3. (b \o sp) \o Ending = b \o (sp \o Ending)
    BY <1>2, <2>1, <2>2
  <2> QED
    BY <1>7, <2>3
<1>10. Tokens(b \o sp \o Ending, Space) = Append(<<get, url>>, Ending)
  <2>1. b \in Seq(L) /\ Space \in L /\ Ending \in Seq(L)
    BY <1>1, <1>2, <1>8
  <2>2. Tokens(b \o <<Space>> \o Ending, Space) = Append(Tokens(b, Space), Ending)
    BY <1>4, <1>5, <2>1, MoreTokens
  <2> QED
    BY <1>8, <2>2
<1>11. Append(<<get, url>>, Ending) = <<get, url, Ending>>
  BY <1>2, Third
<1> QED
  BY <1>9, <1>10, <1>11 DEF get, b

(* Only the whole request has its blank line.                                  *)
LEMMA WholeRequest ==
    ASSUME NEW url \in Seq(Lexical), url # <<>>,
           \A i \in DOMAIN url : url[i] # Space /\ url[i] # BlankLine
    PROVE  /\ RequestOf(url) \in Seq(Lexical) /\ Contains(RequestOf(url), BlankLine)
           /\ \A n \in 0 .. Len(RequestOf(url)) :
                Contains(SubSeq(RequestOf(url), 1, n), BlankLine)
                  => SubSeq(RequestOf(url), 1, n) = RequestOf(url) /\ n = Len(RequestOf(url))
<1> DEFINE text == RequestOf(url)
           N == Len(text)
           b == <<"GET">> \o <<Space>> \o url
           L == Lexical
<1>1. "GET" \in L /\ Space \in L /\ "HTTP/1.1" \in L /\ BlankLine \in L
  BY DEF Lexical
<1> HIDE DEF L
<1>2. <<"GET">> \in Seq(L) /\ Len(<<"GET">>) = 1 /\ <<"GET">>[1] = "GET" /\ url \in Seq(L)
  BY <1>1 DEF L
<1>3. /\ b \in Seq(L) /\ Len(b) = 2 + Len(url) /\ Len(url) \in Nat
      /\ b[1] = "GET" /\ b[2] = Space /\ \A i \in 1 .. Len(url) : b[2 + i] = url[i]
  <2> DEFINE get == <<"GET">>
  <2> HIDE DEF get
  <2>1. get \in Seq(L) /\ Len(get) = 1 /\ get[1] = "GET"
    BY <1>2 DEF get
  <2>2. /\ get \o <<Space>> \o url \in Seq(L) /\ Len(get) \in Nat /\ Len(url) \in Nat
        /\ Len(get \o <<Space>> \o url) = Len(get) + 1 + Len(url)
        /\ \A i \in 1 .. Len(get) : (get \o <<Space>> \o url)[i] = get[i]
        /\ (get \o <<Space>> \o url)[Len(get) + 1] = Space
        /\ \A i \in 1 .. Len(url) : (get \o <<Space>> \o url)[Len(get) + 1 + i] = url[i]
    BY <1>1, <1>2, <2>1, Joined
  <2>3. b = get \o <<Space>> \o url
    BY DEF get
  <2> HIDE DEF b
  <2>4. /\ b \in Seq(L) /\ Len(b) = 2 + Len(url) /\ Len(url) \in Nat /\ b[1] = "GET" /\ b[2] = Space
    BY <2>1, <2>2, <2>3
  <2>5. \A i \in 1 .. Len(url) : b[2 + i] = url[i]
    BY <2>1, <2>2, <2>3
  <2> QED
    BY <2>4, <2>5
<1>4. \A i \in 1 .. Len(b) : b[i] # BlankLine
  <2> HIDE DEF b
  <2> SUFFICES ASSUME NEW i \in 1 .. Len(b) PROVE b[i] # BlankLine
    OBVIOUS
  <2>1. CASE i = 1 \/ i = 2
    BY <1>3, <2>1, MarksAre
  <2>2. CASE i > 2
    <3>1. i - 2 \in 1 .. Len(url) /\ 2 + (i - 2) = i /\ i - 2 \in DOMAIN url
      BY <1>2, <1>3, <2>2
    <3> QED
      BY <1>3, <3>1
  <2> QED
    BY <1>3, <2>1, <2>2
<1>5. text = b \o <<Space>> \o Ending
  BY RequestWords
<1> HIDE DEF text, b
<1>6. Ending \in Seq(L) /\ Len(Ending) = 2 /\ Ending[1] = "HTTP/1.1" /\ Ending[2] = BlankLine
  BY <1>1 DEF Ending
<1>7. /\ text \in Seq(L) /\ N = Len(b) + 3 /\ Len(b) \in Nat
      /\ \A i \in 1 .. Len(b) : text[i] = b[i]
      /\ text[Len(b) + 1] = Space
      /\ \A i \in 1 .. Len(Ending) : text[Len(b) + 1 + i] = Ending[i]
  <2>1. /\ b \o <<Space>> \o Ending \in Seq(L) /\ Len(b) \in Nat /\ Len(Ending) \in Nat
        /\ Len(b \o <<Space>> \o Ending) = Len(b) + 1 + Len(Ending)
        /\ \A i \in 1 .. Len(b) : (b \o <<Space>> \o Ending)[i] = b[i]
        /\ (b \o <<Space>> \o Ending)[Len(b) + 1] = Space
        /\ \A i \in 1 .. Len(Ending) : (b \o <<Space>> \o Ending)[Len(b) + 1 + i] = Ending[i]
    <3>1. b \in Seq(L) /\ Space \in L /\ Ending \in Seq(L)
      BY <1>1, <1>3, <1>6
    <3> QED
      BY <3>1, Joined
  <2> QED
    BY <1>5, <1>6, <2>1
<1>8. /\ text[Len(b) + 2] = "HTTP/1.1" /\ text[Len(b) + 3] = BlankLine
  <2>1. text[Len(b) + 1 + 1] = Ending[1] /\ text[Len(b) + 1 + 2] = Ending[2]
    BY <1>6, <1>7
  <2>2. Len(b) + 1 + 1 = Len(b) + 2 /\ Len(b) + 1 + 2 = Len(b) + 3
    BY <1>7
  <2> QED
    BY <1>6, <2>1, <2>2
<1>9. \A i \in 1 .. N : text[i] = BlankLine <=> i = N
  <2> SUFFICES ASSUME NEW i \in 1 .. N PROVE text[i] = BlankLine <=> i = N
    OBVIOUS
  <2>1. CASE i <= Len(b)
    BY <1>4, <1>7, <2>1
  <2>2. CASE i = Len(b) + 1 \/ i = Len(b) + 2
    BY <1>7, <1>8, <2>2, MarksAre
  <2>3. CASE i = Len(b) + 3
    BY <1>7, <1>8, <2>3
  <2> QED
    BY <1>7, <2>1, <2>2, <2>3
<1>10. Contains(text, BlankLine)
  BY <1>7, <1>8 DEF Contains
<1>11. ASSUME NEW n \in 0 .. N, Contains(SubSeq(text, 1, n), BlankLine)
       PROVE  SubSeq(text, 1, n) = text /\ n = N
  <2>1. Len(SubSeq(text, 1, n)) = n /\ \A i \in 1 .. n : SubSeq(text, 1, n)[i] = text[i]
    BY <1>7
  <2>2. PICK i \in 1 .. n : SubSeq(text, 1, n)[i] = BlankLine
    BY <1>11, <2>1 DEF Contains
  <2>3. n = N
    BY <1>7, <1>9, <2>1, <2>2
  <2> QED
    BY <1>7, <2>3, SubSeqFull
<1> QED
  BY <1>7, <1>10, <1>11 DEF text, L

-----------------------------------------------------------------------------
(* What the server takes it for                                                *)

Parts(params) == [i \in 1 .. Len(params) |-> Part(params[i])]

\* A parameter as the server has it
Legibly(p) == [name |-> p.name, value |-> Printable(p.value)]

(* A url has a path and queries, and nothing that ends a request.              *)
LEMMA UrlIs ==
    ASSUME NEW params \in Seq(Params), NEW op \in Words,
           NEW path, path = <<"/", op>>, NEW url, url = Built(path, params)
    PROVE  /\ path \in Seq(Lexical) /\ Len(path) = 2
           /\ url \in Seq(Lexical) /\ url # <<>>
           /\ \A i \in DOMAIN url : url[i] # Space /\ url[i] # BlankLine
           /\ Decoded(path) = path
           /\ LET parts == Tokens(url, "?")
                  query == SubSeq(url, Len(parts[1]) + 2, Len(url))
              IN /\ parts # <<>> /\ parts[1] = path
                 /\ Scans(query) /\ Tokens(query, "&") = Parts(params)
<1>1. op \in STRING /\ op # BlankLine /\ op # Space /\ op \notin DOMAIN EscapeOf
  BY DEF Words, Characters
<1>2. op \in InQuery /\ "/" \in InQuery /\ \A d \in DOMAIN EscapeOf : EscapeOf[d] # op
  <2>1. op # "?" /\ op \in Lexical
    BY <1>1, MarksAre DEF Lexical
  <2>2. "/" \in InQuery
    BY MarksAre DEF InQuery, Lexical
  <2>3. \A d \in DOMAIN EscapeOf : EscapeOf[d] # op
    BY DEF Words, Characters
  <2> QED
    BY <1>1, <2>1, <2>2, <2>3 DEF InQuery
<1>3. /\ path \in Seq(InQuery) /\ Len(path) = 2 /\ path # <<>>
      /\ \A i \in DOMAIN path : path[i] = "/" \/ path[i] = op
  BY <1>2
<1>4. path \in Seq(Lexical)
  BY <1>3, Alphabets, SeqMonotonic
<1>5. Decoded(path) = path
  <2>1. \A i \in DOMAIN path : path[i] # "+" /\ StandsFor(path[i]) = {}
    <3>1. StandsFor(op) = {} /\ op # "+"
      BY <1>1, <1>2, MarksAre DEF StandsFor
    <3>2. StandsFor("/") = {}
      BY MarksAre DEF StandsFor
    <3> QED
      BY <1>3, <3>1, <3>2
  <2> QED
    BY <1>4, <2>1, DecodedPlain
<1>6. Tokens(path, "?") = <<path>>
  <2>1. \A i \in DOMAIN path : path[i] # "?"
    BY <1>1, <1>3, MarksAre
  <2> QED
    BY <1>3, <2>1, OneToken
<1>7. \A text \in Seq(InQuery) : \A i \in DOMAIN text :
        text[i] # Space /\ text[i] # BlankLine /\ text[i] # "?"
  <2> SUFFICES ASSUME NEW text \in Seq(InQuery), NEW i \in DOMAIN text
               PROVE  text[i] # Space /\ text[i] # BlankLine /\ text[i] # "?"
    OBVIOUS
  <2>1. text[i] \in InQuery
    BY LenProperties, ElementOfSeq
  <2> QED
    BY <2>1 DEF InQuery
<1>8. CASE Len(params) = 0
  <2>1. url = path
    BY <1>4, <1>8, BuiltIs
  <2> DEFINE query == SubSeq(url, Len(Tokens(url, "?")[1]) + 2, Len(url))
  <2>2. Tokens(url, "?")[1] = path /\ Tokens(url, "?") # <<>>
    BY <1>6, <2>1
  <2>3. query = <<>>
    <3>1. query = SubSeq(path, 4, 2)
      <4>1. Len(path) + 2 = 4
        BY <1>3
      <4> QED
        BY <1>3, <2>1, <2>2, <4>1
    <3>2. SubSeq(path, 4, 2) = <<>>
      BY <1>3
    <3> HIDE DEF query
    <3> QED
      BY <3>1, <3>2
  <2> HIDE DEF query
  <2>4. Scans(query)
    <3> DEFINE none == <<>>
    <3>1. none \in Seq({}) /\ DOMAIN none = {}
      OBVIOUS
    <3>2. {i \in DOMAIN query : query[i] \in DOMAIN EscapeOf \ {"+"}} = {}
      BY <2>3, <3>1
    <3>3. InOrder({}, none) = <<>>
      BY <3>1, InOrderNone
    <3>4. DOMAIN InOrder({}, none) = {}
      BY <3>3
    <3> QED
      BY <2>3, <3>2, <3>4 DEF Scans
  <2>5. Tokens(query, "&") = Parts(params)
    <3>1. Parts(params) = <<>>
      BY <1>8 DEF Parts
    <3> QED
      BY <2>3, <3>1, NoTokens
  <2> QED
    BY <1>3, <1>4, <1>5, <1>7, <2>1, <2>2, <2>4, <2>5 DEF query
<1>9. CASE Len(params) > 0
  <2>1. PICK q : QueryOf(q, Len(params), params) /\ url = path \o <<"?">> \o q
    BY <1>4, <1>9, BuiltIs
  <2>2. /\ q \in Seq(InQuery) /\ q # <<>> /\ Tokens(q, "&") = Parts(params)
        /\ Marks(q) = Turns(2 * Len(params) - 1)
    BY <2>1 DEF QueryOf, Parts
  <2>3. q \in Seq(Lexical) /\ "?" \in Lexical
    BY <2>2, Alphabets, SeqMonotonic DEF Lexical
  <2>4. /\ url \in Seq(Lexical) /\ Len(q) \in Nat /\ Len(url) = 3 + Len(q)
        /\ \A i \in 1 .. 2 : url[i] = path[i]
        /\ url[3] = "?"
        /\ \A i \in 1 .. Len(q) : url[3 + i] = q[i]
    <3>1. /\ path \o <<"?">> \o q \in Seq(Lexical) /\ Len(path) \in Nat /\ Len(q) \in Nat
          /\ Len(path \o <<"?">> \o q) = Len(path) + 1 + Len(q)
          /\ \A i \in 1 .. Len(path) : (path \o <<"?">> \o q)[i] = path[i]
          /\ (path \o <<"?">> \o q)[Len(path) + 1] = "?"
          /\ \A i \in 1 .. Len(q) : (path \o <<"?">> \o q)[Len(path) + 1 + i] = q[i]
      BY <1>4, <2>3, Joined
    <3>2. path \o <<"?">> \o q = url
      BY <2>1
    <3>3. Len(path) = 2 /\ \A n \in Nat : 2 + 1 + n = 3 + n
      BY <1>3
    <3>4. \A i \in 1 .. 2 : url[i] = path[i]
      BY <3>1, <3>2, <3>3
    <3>5. url[3] = "?"
      <4>1. url[Len(path) + 1] = "?"
        BY <3>1, <3>2
      <4>2. Len(path) + 1 = 3
        BY <3>3
      <4> QED
        BY <4>1, <4>2
    <3>6. \A i \in 1 .. Len(q) : url[2 + 1 + i] = q[i]
      BY <3>1, <3>2, <3>3
    <3>7. \A i \in 1 .. Len(q) : 2 + 1 + i = 3 + i
      OBVIOUS
    <3>8. url \in Seq(Lexical) /\ Len(q) \in Nat /\ Len(url) = 3 + Len(q)
      BY <3>1, <3>2, <3>3
    <3> QED
      BY <3>4, <3>5, <3>6, <3>7, <3>8
  <2>5. \A i \in DOMAIN url : url[i] # Space /\ url[i] # BlankLine
    <3> SUFFICES ASSUME NEW i \in 1 .. Len(url) PROVE url[i] # Space /\ url[i] # BlankLine
      BY <2>4, LenProperties
    <3>1. CASE i \in 1 .. 2
      <4>1. i \in DOMAIN path
        BY <1>3, <3>1, LenProperties
      <4>2. path[i] # Space /\ path[i] # BlankLine
        BY <1>3, <1>7, <4>1
      <4>3. url[i] = path[i]
        BY <2>4, <3>1
      <4> QED
        BY <4>2, <4>3
    <3>2. CASE i = 3
      BY <2>4, <3>2, MarksAre
    <3>3. CASE i > 3
      <4>1. i - 3 \in 1 .. Len(q) /\ 3 + (i - 3) = i
        BY <2>4, <3>3
      <4>2. i - 3 \in DOMAIN q
        BY <2>2, <4>1, LenProperties
      <4> QED
        BY <1>7, <2>2, <2>4, <4>1, <4>2, ZenonT(30)
    <3> QED
      BY <2>4, <3>1, <3>2, <3>3
  <2>6. Tokens(url, "?") = <<path, q>>
    <3>1. \A i \in DOMAIN q : q[i] # "?"
      BY <1>7, <2>2
    <3>2. Tokens(path \o <<"?">> \o q, "?") = Append(Tokens(path, "?"), q)
      BY <1>4, <2>2, <2>3, <3>1, MoreTokens, ZenonT(30)
    <3>3. Append(<<path>>, q) = <<path, q>>
      BY <1>4, <2>3, Second
    <3> QED
      BY <1>6, <2>1, <3>2, <3>3
  <2> DEFINE query == SubSeq(url, Len(Tokens(url, "?")[1]) + 2, Len(url))
  <2>7. query = q
    <3>1. query = SubSeq(url, 4, 3 + Len(q))
      <4>1. Tokens(url, "?")[1] = path
        BY <2>6, SMTT(30)
      <4>2. Len(path) + 2 = 4 /\ Len(url) = 3 + Len(q)
        BY <1>3, <2>4
      <4> QED
        BY <4>1, <4>2
    <3>2. SubSeq(url, 4, 3 + Len(q)) = [i \in 1 .. Len(q) |-> url[i + 3]]
      <4>1. 1 + (3 + Len(q)) - 4 = Len(q)
        BY <2>4
      <4>2. SubSeq(url, 4, 3 + Len(q)) =
              [i \in 1 .. 1 + (3 + Len(q)) - 4 |-> url[i + 4 - 1]]
        BY <2>4
      <4>3. \A i \in 1 .. Len(q) : i + 4 - 1 = i + 3
        OBVIOUS
      <4> QED
        BY <4>1, <4>2, <4>3
    <3>3. \A i \in 1 .. Len(q) : url[i + 3] = q[i]
      <4>1. \A i \in 1 .. Len(q) : 3 + i = i + 3
        OBVIOUS
      <4> QED
        BY <2>4, <4>1
    <3>4. q = [i \in 1 .. Len(q) |-> q[i]]
      BY <2>2, LenProperties
    <3> QED
      BY <3>1, <3>2, <3>3, <3>4
  <2> HIDE DEF query
  <2>8. Scans(query)
    <3>1. \A n \in DOMAIN Marks(q) : Marks(q)[n] = IF n % 2 = 1 THEN "=" ELSE "&"
      BY <2>2 DEF Turns
    <3> QED
      BY <2>7, <3>1 DEF Scans, Marks, Where, Stops
  <2>9. url # <<>>
    <3>1. Len(url) # 0
      BY <2>4
    <3> QED
      BY <3>1
  <2>10. Tokens(url, "?")[1] = path /\ Tokens(url, "?") # <<>>
    BY <2>6
  <2> QED
    BY <1>3, <1>4, <1>5, <2>2, <2>4, <2>5, <2>7, <2>8, <2>9, <2>10 DEF query
<1>10. Len(params) = 0 \/ Len(params) > 0
  <2>1. Len(params) \in Nat
    BY LenProperties
  <2> QED
    BY <2>1
<1> QED
  BY <1>8, <1>9, <1>10

(* The server reads the path that was sent, and from the parameters on it      *)
(* depends on them whether the request is refused.                             *)
LEMMA ParsedIs ==
    ASSUME NEW params \in Seq(Params), NEW op \in Words,
           NEW text, text = RequestOf(Built(<<"/", op>>, params))
    PROVE  Parsed(text) = IF Queries(Parts(params)) # {}
                          THEN [path |-> <<"/", op>>,
                                queries |-> CHOOSE queries \in Queries(Parts(params)) : TRUE]
                          ELSE Refused
<1> DEFINE path == <<"/", op>>
           url == Built(path, params)
           parts == Tokens(url, "?")
           query == SubSeq(url, Len(parts[1]) + 2, Len(url))
<1>1. /\ url \in Seq(Lexical) /\ url # <<>>
      /\ \A i \in DOMAIN url : url[i] # Space /\ url[i] # BlankLine
      /\ Decoded(path) = path
      /\ parts # <<>> /\ parts[1] = path
      /\ Scans(query) /\ Tokens(query, "&") = Parts(params)
  BY UrlIs
<1> HIDE DEF path, url
<1>2. text = RequestOf(url)
  BY DEF url, path
<1>3. Tokens(text, Space) = <<<<"GET">>, url, Ending>> /\ Contains(text, BlankLine)
  BY <1>1, <1>2, RequestWords, WholeRequest
<1> DEFINE words == Tokens(text, Space)
<1>4. words[2] = url /\ words[3] = Ending /\ Len(words) = 3
  BY <1>3
<1>5. \E w \in 3 .. Len(words) : Contains(words[w], BlankLine)
  <2>1. Contains(Ending, BlankLine)
    BY DEF Ending, Contains
  <2> QED
    BY <1>4, <2>1
<1> HIDE DEF words
<1>6. Parsed(text) =
        IF ~Contains(text, BlankLine) \/ ~(\E w \in 3 .. Len(words) : Contains(words[w], BlankLine))
             \/ parts = <<>>
        THEN Refused
        ELSE IF Scans(query) /\ Queries(Tokens(query, "&")) # {}
             THEN [path |-> Decoded(parts[1]),
                   queries |-> CHOOSE queries \in Queries(Tokens(query, "&")) : TRUE]
             ELSE Refused
  BY <1>4 DEF Parsed, words
<1> HIDE DEF parts, query
<1> QED
  BY <1>1, <1>3, <1>5, <1>6 DEF path

(* Without empty values every parameter is read, by its name and with its      *)
(* printable characters.                                                       *)
LEMMA QueriesAre ==
    ASSUME NEW params \in Seq(Params), \A i \in DOMAIN params : params[i].value # <<>>
    PROVE  Queries(Parts(params)) = {[i \in 1 .. Len(params) |-> Legibly(params[i])]}
<1> DEFINE N == Len(params)
           tokens == Parts(params)
           parts(n) == Tokens(tokens[n], "=")
           NextOf(n, before) ==
               IF n = 0 THEN {<<>>}
               ELSE IF Len(parts(n)) < 2 THEN {Front(queries) : queries \in before \ {<<>>}}
               ELSE {Append(queries, [name |-> Decoded(parts(n)[1]),
                                      value |-> Decoded(parts(n)[2])]) : queries \in before}
           taken[n \in 0 .. Len(tokens)] ==
               IF n = 0 THEN {<<>>}
               ELSE IF Len(parts(n)) < 2 THEN {Front(queries) : queries \in taken[n - 1] \ {<<>>}}
               ELSE {Append(queries, [name |-> Decoded(parts(n)[1]),
                                      value |-> Decoded(parts(n)[2])]) : queries \in taken[n - 1]}
           First(n) == [i \in 1 .. n |-> Legibly(params[i])]
           g == [n \in 0 .. N |-> {First(n)}]
<1>1. N \in Nat /\ DOMAIN params = 1 .. N /\ \A n \in 1 .. N : params[n] \in Params
  BY LenProperties, ElementOfSeq
<1>2. Len(tokens) = N /\ \A n \in 1 .. N : tokens[n] = Part(params[n])
  BY <1>1 DEF Parts
<1>3. Queries(tokens) = taken[N]
  BY <1>2 DEF Queries
<1>4. ASSUME NEW n \in 1 .. N
      PROVE  /\ ~(Len(parts(n)) < 2)
             /\ [name |-> Decoded(parts(n)[1]), value |-> Decoded(parts(n)[2])] = Legibly(params[n])
  <2> DEFINE p == params[n]
  <2>1. p \in Params /\ p.value # <<>>
    BY <1>1
  <2> HIDE DEF p, tokens
  <2>2. Tokens(Part(p), "=") = <<p.name, Encoded(p.value)>>
    BY <2>1, PartIs
  <2>3. p.name \in Seq(Words) /\ p.value \in Seq(Characters)
    BY <2>1 DEF Params
  <2>4. Decoded(Encoded(p.value)) = Printable(p.value)
    BY <2>3, DecodedEncoded
  <2>5. Decoded(p.name) = p.name
    <3>1. \A i \in DOMAIN p.name : p.name[i] \in Words
      BY <2>3, LenProperties, ElementOfSeq
    <3>2. \A w \in Words : w # "+" /\ StandsFor(w) = {}
      BY MarksAre DEF Words, Characters, StandsFor
    <3>3. p.name \in Seq(Lexical)
      <4>1. Words \subseteq Lexical
        BY DEF Words, Characters, Lexical
      <4> QED
        BY <2>3, <4>1, SeqMonotonic
    <3> QED
      BY <3>1, <3>2, <3>3, DecodedPlain
  <2>6. tokens[n] = Part(p)
    BY <1>2 DEF p
  <2>7. parts(n) = <<p.name, Encoded(p.value)>>
    BY <2>2, <2>6
  <2> QED
    BY <2>4, <2>5, <2>7 DEF Legibly, p
<1> HIDE DEF tokens, parts
<1>5. ASSUME NEW n \in 1 .. N PROVE Append(First(n - 1), Legibly(params[n])) = First(n)
  BY <1>1
<1>6. ASSUME NEW n \in 0 .. N, NEW f, n > 0 => f[n - 1] = {First(n - 1)}
      PROVE  NextOf(n, f[n - 1]) = {First(n)}
  <2>1. CASE n = 0
    <3>1. First(0) = <<>>
      OBVIOUS
    <3> QED
      BY <2>1, <3>1
  <2>2. CASE n > 0
    <3>1. n \in 1 .. N
      BY <1>1, <2>2
    <3> HIDE DEF First
    <3>2. NextOf(n, f[n - 1]) = {Append(First(n - 1), Legibly(params[n]))}
      BY <1>4, <1>6, <2>2, <3>1
    <3> QED
      BY <1>5, <3>1, <3>2
  <2> QED
    BY <1>1, <2>1, <2>2
<1>7. g = [n \in 0 .. N |-> NextOf(n, g[n - 1])]
  <2> HIDE DEF First, NextOf
  <2>1. \A n \in 0 .. N : n > 0 => g[n - 1] = {First(n - 1)}
    BY <1>1
  <2>2. \A n \in 0 .. N : NextOf(n, g[n - 1]) = {First(n)}
    BY <1>6, <2>1
  <2> QED
    BY <2>2
<1>8. taken = [n \in 0 .. N |-> NextOf(n, taken[n - 1])]
  BY <1>2, <1>7
<1> HIDE DEF taken, NextOf, First, g
<1> DEFINE Good == {n \in 0 .. N : taken[n] = {First(n)}}
<1>9. 0 \in Good
  <2>1. 0 \in 0 .. N
    BY <1>1
  <2>2. taken[0] = NextOf(0, taken[0 - 1])
    BY <1>8, <2>1
  <2>3. NextOf(0, taken[0 - 1]) = {First(0)}
    BY <1>6, <2>1
  <2> QED
    BY <2>1, <2>2, <2>3
<1>10. ASSUME NEW n \in 0 .. N - 1, n \in Good PROVE n + 1 \in Good
  <2>1. n + 1 \in 0 .. N /\ (n + 1) - 1 = n
    BY <1>1
  <2>2. taken[n + 1] = NextOf(n + 1, taken[n])
    BY <1>8, <2>1
  <2> QED
    BY <1>6, <1>10, <2>1, <2>2
<1>11. N \in Good
  <2> HIDE DEF Good
  <2>1. \A n \in 0 .. N : n \in Good
    BY <1>1, <1>9, <1>10, UpTo
  <2> QED
    BY <1>1, <2>1
<1> QED
  BY <1>3, <1>11 DEF First, tokens

-----------------------------------------------------------------------------
(* From the arguments to what is done                                          *)

\* One value or none
Optional(values) == values = {} \/ \E v \in values : values = {v} /\ v \in Seq(Characters)

\* What a command is run with, whatever the flags are
ReadShape ==
    /\ argv \in Seq(Seq(Characters)) /\ at \in Nat \ {0} /\ positionals \in Seq(Seq(Characters))
    /\ status \in {"parsing", "args"} =>
         /\ command \in DOMAIN Options /\ DOMAIN options = DOMAIN Options[command]
         /\ command # "texc" => \A k \in DOMAIN options : Optional(options[k].value)
    /\ status = "args" => Len(positionals) >= Arity[command]

\* What can be sent: no two parameters have one name.
Clear(params) ==
    /\ params \in Seq(Params)
    /\ \A i, j \in DOMAIN params : params[i].name = params[j].name => i = j

RequestShape ==
    /\ request \in [message : Seq(Lexical), arrived : Nat, seen : Nat, read : Nat,
                    pieces : Nat, closed : BOOLEAN]
    /\ request.read <= request.arrived /\ request.arrived <= Len(request.message)
    /\ request.pieces = 0 => request.arrived = 0

\* The command or the call it comes from
SentBy ==
    /\ sent # {} /\ call = {} =>
         /\ status = "args" /\ command \in SubCommands
         /\ sent = {[path |-> Path, params |-> Parameters]}
    /\ call # {} =>
         /\ status = "call"
         /\ \E c \in Calls :
              call = {c} /\ (sent # {} => sent = {[path |-> c.path, params |-> c.params]})

\* One request is sent, and nothing was there before.
RequestSent ==
    /\ sent = {} => /\ server = "accepting" /\ client \in {"arguments", "ended", "server"}
                    /\ request.message = <<>>
    /\ sent # {} =>
         /\ client # "arguments" /\ client # "server"
         /\ \E op \in Words, params \in Seq(Params) :
              /\ Clear(params) /\ sent = {[path |-> <<"/", op>>, params |-> params]}
              /\ request.message = RequestOf(Built(<<"/", op>>, params))
    /\ SentBy

(* The server has read all of what came at once before it takes it apart.      *)
RequestLooked ==
    /\ server \in {"peeked", "parsing"} => request.pieces > 0
    /\ AtOnce(request) =>
         /\ server = "peeked" => request.seen = Smaller(Waiting(request), Block)
         /\ server = "parsing" => request.read = request.arrived

RequestInv == RequestShape /\ RequestSent /\ RequestLooked

(* What is asked of the server, and the answers it can have.                   *)
AskedInv ==
    /\ server \notin {"ended", "crashed"} => asked = {} /\ answer = {}
    /\ answer = {BadFormat} => request.pieces > 0
    /\ server = "ended" /\ call = {} =>
         \E reply \in answer : \/ reply.status = "504" \/ reply = BadRequest
                               \/ reply.status = "200" /\ asked # {}
    /\ AskedAsMeant

ExitInv ==
    /\ exit # {} => client \in {"ended", "timed out"}
    /\ ExitTellsTruth

LEMMA DefaultsAre ==
    ASSUME NEW name \in DOMAIN Options, name # "texc", NEW k \in DOMAIN Options[name]
    PROVE  Optional(Options[name][k].default)
<1>1. "true" \in Characters /\ "all" \in Characters
  BY CommandAssumption DEF Words
<1>2. name \in {"add", "remove", "close", "list", "config"}
  BY DEF Options
<1>3. Options[name][k].default \in {NoValue, {<<"true">>}, {<<"all">>}}
  <2>1. CASE name = "add"
    BY <2>1 DEF Options, Option, NoValue
  <2>2. CASE name = "remove"
    BY <2>2 DEF Options, Option, NoValue
  <2>3. CASE name = "close"
    BY <2>3 DEF Options, Option, NoValue
  <2>4. CASE name = "list"
    BY <2>4 DEF Options, Option, NoValue
  <2>5. CASE name = "config"
    BY <2>5 DEF Options, Option, NoValue
  <2> QED
    BY <1>2, <2>1, <2>2, <2>3, <2>4, <2>5
<1>4. <<"true">> \in Seq(Characters) /\ <<"all">> \in Seq(Characters)
  BY <1>1
<1> QED
  BY <1>3, <1>4 DEF Optional, NoValue

(* Arguments are taken over as they are given.                                 *)
LEMMA ReadShapeStep == ASSUME ReadShape, ReadArguments PROVE ReadShape'
<1>1. /\ argv \in Seq(Seq(Characters)) /\ at \in Nat \ {0} /\ positionals \in Seq(Seq(Characters))
      /\ Len(argv) \in Nat /\ \A i \in 1 .. Len(argv) : argv[i] \in Seq(Characters)
  BY LenProperties, ElementOfSeq DEF ReadShape
<1>2. argv' = argv
  BY DEF ReadArguments, ChooseParser, ReadPositional, ReadProtected, ReadHelp, ReadFlag,
         ReadUnknown, EndParse, TakePositional, Refuse
<1>3. ASSUME NEW why, why \notin {"parsing", "args"}, Refuse(why) PROVE ReadShape'
  BY <1>3 DEF Refuse, ReadShape
<1>4. ASSUME NEW i \in 1 .. Len(argv), NEW width \in {1, 2}, status = "parsing",
             TakePositional(argv[i], width)
      PROVE  ReadShape'
  <2>1. positionals' \in Seq(Seq(Characters)) /\ at' \in Nat \ {0}
    BY <1>1, <1>4 DEF TakePositional
  <2>2. UNCHANGED <<argv, command, options, status>>
    BY <1>4 DEF TakePositional
  <2> QED
    BY <1>4, <2>1, <2>2 DEF ReadShape
<1>5. CASE ChooseParser
  <2>1. command' \in DOMAIN Options /\ at' \in Nat \ {0}
    BY <1>5 DEF ChooseParser, SubCommands, Options
  <2>2. options' = [k \in DOMAIN Options[command'] |-> Unset] /\ UNCHANGED positionals
    BY <1>5 DEF ChooseParser
  <2>3. status' = "parsing"
    BY <1>5 DEF ChooseParser
  <2> QED
    BY <1>1, <1>2, <2>1, <2>2, <2>3 DEF ReadShape, Optional, Unset, NoValue
<1>6. CASE ReadPositional
  <2>1. at \in 1 .. Len(argv) /\ status = "parsing"
    BY <1>1, <1>6 DEF ReadPositional, Reading
  <2>2. TakePositional(argv[at], 1) \/ Refuse("positional_excess")
    BY <1>6 DEF ReadPositional, Arg
  <2> QED
    BY <1>3, <1>4, <2>1, <2>2
<1>7. CASE ReadProtected
  <2>1. at \in 1 .. Len(argv) /\ status = "parsing"
    BY <1>1, <1>7 DEF ReadProtected, Reading
  <2>2. \/ at < Len(argv) /\ TakePositional(argv[at + 1], 2)
        \/ Refuse("positional_excess") \/ Refuse("positional_not_found")
    BY <1>7 DEF ReadProtected
  <2>3. at < Len(argv) => at + 1 \in 1 .. Len(argv)
    BY <1>1, <2>1
  <2> QED
    BY <1>3, <1>4, <2>1, <2>2, <2>3
<1>8. CASE ReadHelp
  BY <1>3, <1>8 DEF ReadHelp
<1>9. CASE ReadUnknown
  BY <1>3, <1>9 DEF ReadUnknown
<1>10. CASE ReadFlag
  <2> DEFINE k == Least(Matching(Arg))
             valued == Options[command][k].hasValue
             taken == IF valued THEN {argv[at + 1]} ELSE NoValue
  <2>1. at \in 1 .. Len(argv) /\ status = "parsing"
    BY <1>1, <1>10 DEF ReadFlag, Reading
  <2>2. \/ Refuse("flag_repeated") \/ Refuse("value_not_found")
        \/ /\ ~valued \/ at # Len(argv)
           /\ options' = [options EXCEPT ![k] = [found |-> TRUE, value |-> taken]]
           /\ at' = IF valued THEN at + 2 ELSE at + 1
           /\ UNCHANGED <<argv, command, positionals, status>>
    BY <1>10 DEF ReadFlag
  <2>3. at # Len(argv) => at + 1 \in 1 .. Len(argv)
    BY <1>1, <2>1
  <2>4. ~valued \/ at # Len(argv) => Optional(taken)
    <3>1. at # Len(argv) => argv[at + 1] \in Seq(Characters)
      BY <1>1, <2>3
    <3> QED
      BY <3>1 DEF Optional, NoValue
  <2>5. ASSUME ~valued \/ at # Len(argv),
               options' = [options EXCEPT ![k] = [found |-> TRUE, value |-> taken]],
               at' = IF valued THEN at + 2 ELSE at + 1,
               UNCHANGED <<argv, command, positionals, status>>
        PROVE  ReadShape'
    <3>1. Optional(taken)
      BY <2>4, <2>5
    <3>2. at' \in Nat \ {0}
      BY <1>1, <2>5
    <3> HIDE DEF k, taken, valued
    <3>3. DOMAIN options' = DOMAIN options
      BY <2>5
    <3>4. \A l \in DOMAIN options :
            options'[l].value = options[l].value \/ options'[l].value = taken
      BY <2>5
    <3>5. command # "texc" => \A l \in DOMAIN options : Optional(options'[l].value)
      BY <2>1, <3>1, <3>4 DEF ReadShape
    <3> QED
      BY <1>1, <2>1, <2>5, <3>2, <3>3, <3>5 DEF ReadShape
  <2> QED
    BY <1>3, <2>2, <2>5
<1>11. CASE EndParse
  <2>1. status = "parsing"
    BY <1>11 DEF EndParse
  <2>2. CASE Len(positionals) < Arity[command]
    BY <1>3, <1>11, <2>2 DEF EndParse
  <2>3. CASE ~(Len(positionals) < Arity[command])
    <3>1. /\ UNCHANGED <<argv, command, at, positionals>>
          /\ options' = [k \in DOMAIN options |->
                  IF options[k].found THEN options[k]
                  ELSE [options[k] EXCEPT !.value = Options[command][k].default]]
      BY <1>11, <2>3 DEF EndParse
    <3>2. Len(positionals) >= Arity[command]
      <4>1. command \in DOMAIN Options
        BY <2>1 DEF ReadShape
      <4>2. Arity[command] \in Nat /\ Len(positionals) \in Nat
        BY <1>1, <4>1, LenProperties DEF Arity, Options
      <4> QED
        BY <2>3, <4>2
    <3>3. command # "texc" => \A k \in DOMAIN options : Optional(options'[k].value)
      <4> SUFFICES ASSUME command # "texc", NEW k \in DOMAIN options
                   PROVE  Optional(options'[k].value)
        OBVIOUS
      <4>1. /\ k \in DOMAIN Options[command] /\ command \in DOMAIN Options
            /\ Optional(options[k].value)
        BY <2>1 DEF ReadShape
      <4>2. Optional(Options[command][k].default)
        BY <4>1, DefaultsAre
      <4>3. options'[k] = IF options[k].found THEN options[k]
                          ELSE [options[k] EXCEPT !.value = Options[command][k].default]
        BY <3>1
      <4>4. options'[k].value \in {options[k].value, Options[command][k].default}
        BY <4>3
      <4> QED
        BY <4>1, <4>2, <4>4
    <3> QED
      BY <1>1, <2>1, <3>1, <3>2, <3>3 DEF ReadShape
  <2> QED
    BY <2>2, <2>3
<1> QED
  BY <1>5, <1>6, <1>7, <1>8, <1>9, <1>10, <1>11 DEF ReadArguments

LEMMA ParamIs ==
    ASSUME NEW name \in Words, NEW value \in Seq(Characters)
    PROVE  /\ Param(name, value) \in Params /\ Param(name, value).name = <<name>>
           /\ Param(name, value).value = value
<1>1. <<name>> \in Seq(Words) \ {<<>>}
  OBVIOUS
<1> QED
  BY <1>1 DEF Param, Params

LEMMA ClearOne ==
    /\ Clear(<<>>) /\ ToSet(<<>>) = {}
    /\ \A p \in Params : Clear(<<p>>) /\ ToSet(<<p>>) = {p}
<1>1. Clear(<<>>) /\ ToSet(<<>>) = {}
  BY DEF Clear, ToSet
<1>2. ASSUME NEW p \in Params PROVE Clear(<<p>>) /\ ToSet(<<p>>) = {p}
  <2> DEFINE one == <<p>>
  <2>1. one \in Seq(Params) /\ DOMAIN one = {1} /\ one[1] = p
    OBVIOUS
  <2> HIDE DEF one
  <2>2. Clear(one) /\ ToSet(one) = {p}
    BY <2>1 DEF Clear, ToSet
  <2> QED
    BY <2>2 DEF one
<1> QED
  BY <1>1, <1>2

(* Parameters without a name in common can be sent together.                   *)
LEMMA ClearJoined ==
    ASSUME NEW p, Clear(p), NEW q, Clear(q), \A a \in ToSet(p), b \in ToSet(q) : a.name # b.name
    PROVE  Clear(p \o q) /\ ToSet(p \o q) = ToSet(p) \cup ToSet(q)
<1> DEFINE t == p \o q
<1>1. p \in Seq(Params) /\ q \in Seq(Params) /\ t \in Seq(Params)
  BY DEF Clear
<1>2. /\ Len(p) \in Nat /\ Len(q) \in Nat /\ Len(t) = Len(p) + Len(q)
      /\ DOMAIN p = 1 .. Len(p) /\ DOMAIN q = 1 .. Len(q) /\ DOMAIN t = 1 .. Len(t)
      /\ \A i \in 1 .. Len(p) : t[i] = p[i]
      /\ \A i \in 1 .. Len(q) : t[Len(p) + i] = q[i]
  BY <1>1
<1> HIDE DEF t
<1>3. ASSUME NEW i \in DOMAIN t
      PROVE  \/ i \in 1 .. Len(p) /\ t[i] = p[i] /\ t[i] \in ToSet(p)
             \/ i - Len(p) \in 1 .. Len(q) /\ t[i] = q[i - Len(p)] /\ t[i] \in ToSet(q)
  <2>1. CASE i <= Len(p)
    <3>1. i \in 1 .. Len(p)
      BY <1>2, <2>1
    <3> QED
      BY <1>2, <3>1 DEF ToSet
  <2>2. CASE ~(i <= Len(p))
    <3>1. i - Len(p) \in 1 .. Len(q) /\ Len(p) + (i - Len(p)) = i
      BY <1>2, <2>2
    <3>2. t[i] = q[i - Len(p)]
      BY <1>2, <3>1
    <3> QED
      BY <1>2, <3>1, <3>2 DEF ToSet
  <2> QED
    BY <2>1, <2>2
<1>4. Clear(t)
  <2> SUFFICES ASSUME NEW i \in DOMAIN t, NEW j \in DOMAIN t, t[i].name = t[j].name PROVE i = j
    BY <1>1 DEF Clear, t
  <2>1. CASE i \in 1 .. Len(p) /\ t[i] = p[i] /\ t[i] \in ToSet(p)
    <3>1. j \in 1 .. Len(p) /\ t[j] = p[j]
      BY <1>3, <2>1
    <3> QED
      BY <1>2, <2>1, <3>1 DEF Clear
  <2>2. CASE i - Len(p) \in 1 .. Len(q) /\ t[i] = q[i - Len(p)] /\ t[i] \in ToSet(q)
    <3>1. j - Len(p) \in 1 .. Len(q) /\ t[j] = q[j - Len(p)]
      BY <1>3, <2>2
    <3>2. i - Len(p) = j - Len(p)
      BY <1>2, <2>2, <3>1 DEF Clear
    <3>3. i \in Int /\ j \in Int
      BY <1>2
    <3> QED
      BY <1>2, <3>2, <3>3
  <2> QED
    BY <1>3, <2>1, <2>2
<1>5. ToSet(t) = ToSet(p) \cup ToSet(q)
  <2>1. ToSet(t) \subseteq ToSet(p) \cup ToSet(q)
    BY <1>3 DEF ToSet
  <2>2. \A i \in DOMAIN p : p[i] \in ToSet(t)
    <3> SUFFICES ASSUME NEW i \in DOMAIN p PROVE p[i] \in ToSet(t)
      OBVIOUS
    <3>1. i \in DOMAIN t /\ t[i] = p[i]
      BY <1>2
    <3> QED
      BY <3>1 DEF ToSet
  <2>3. \A i \in DOMAIN q : q[i] \in ToSet(t)
    <3> SUFFICES ASSUME NEW i \in DOMAIN q PROVE q[i] \in ToSet(t)
      OBVIOUS
    <3>1. Len(p) + i \in DOMAIN t /\ t[Len(p) + i] = q[i]
      BY <1>2
    <3> QED
      BY <3>1 DEF ToSet
  <2> QED
    BY <2>1, <2>2, <2>3 DEF ToSet
<1> QED
  BY <1>4, <1>5 DEF t

(* An option is sent when it has a value.                                      *)
LEMMA GivenIs ==
    ASSUME NEW name \in Words, NEW values, Optional(values)
    PROVE  /\ Clear(Given(name, values))
           /\ ToSet(Given(name, values)) = {Param(name, v) : v \in values}
           /\ \A v \in values : v \in Seq(Characters)
<1>1. CASE values = {}
  <2>1. Cardinality(values) = 0
    BY <1>1, FS_EmptySet
  <2>2. Given(name, values) = <<>>
    BY <2>1 DEF Given
  <2> QED
    BY <1>1, <2>2, ClearOne
<1>2. CASE values # {}
  <2>1. PICK v : values = {v} /\ v \in Seq(Characters)
    BY <1>2 DEF Optional
  <2>2. Cardinality(values) = 1 /\ (CHOOSE w \in values : TRUE) = v
    BY <2>1, FS_Singleton
  <2>3. Given(name, values) = [i \in 1 .. 1 |-> Param(name, v)]
    <3> DEFINE one == CHOOSE w \in values : TRUE
               n == Cardinality(values)
    <3>1. Given(name, values) = [i \in 1 .. n |-> Param(name, one)]
      BY Zenon DEF Given
    <3>2. one = v /\ n = 1
      BY <2>2
    <3> HIDE DEF one, n
    <3> QED
      BY <3>1, <3>2
  <2>4. Given(name, values) = <<Param(name, v)>>
    BY <2>3
  <2>5. {Param(name, w) : w \in values} = {Param(name, v)}
    BY <2>1
  <2>6. Param(name, v) \in Params
    BY <2>1, ParamIs
  <2> QED
    BY <2>1, <2>4, <2>5, <2>6, ClearOne
<1> QED
  BY <1>1, <1>2

(* Where the options are that are sent.                                        *)
LEMMA Indices ==
    /\ command = "add" => IndexOf("enable") = 1 /\ IndexOf("group") = 2
    /\ command = "list" => IndexOf("columns") = 1 /\ IndexOf("where") = 2
    /\ command \in {"remove", "config"} => IndexOf("id") = 1 /\ IndexOf("group") = 2
    /\ command = "config" => IndexOf("enable") = 3
<1>1. CASE command = "add"
  <2>1. /\ DOMAIN Options[command] = {1, 2}
        /\ Options[command][1].flags[2] = <<"-", "-", "enable">>
        /\ Options[command][2].flags[2] = <<"-", "-", "group">>
    BY <1>1 DEF Options, Option
  <2>2. <<"-", "-", "enable">> # <<"-", "-", "group">>
    OBVIOUS
  <2>3. IndexOf("enable") = 1 /\ IndexOf("group") = 2
    BY <2>1, <2>2 DEF IndexOf
  <2> QED
    BY <1>1, <2>3
<1>2. CASE command = "list"
  <2>1. /\ DOMAIN Options[command] = {1, 2}
        /\ Options[command][1].flags[2] = <<"-", "-", "columns">>
        /\ Options[command][2].flags[2] = <<"-", "-", "where">>
    BY <1>2 DEF Options, Option
  <2>2. <<"-", "-", "columns">> # <<"-", "-", "where">>
    OBVIOUS
  <2>3. IndexOf("columns") = 1 /\ IndexOf("where") = 2
    BY <2>1, <2>2 DEF IndexOf
  <2> QED
    BY <1>2, <2>3
<1>3. CASE command = "remove"
  <2>1. /\ DOMAIN Options[command] = {1, 2}
        /\ Options[command][1].flags[2] = <<"-", "-", "id">>
        /\ Options[command][2].flags[2] = <<"-", "-", "group">>
    BY <1>3 DEF Options, Option
  <2>2. <<"-", "-", "id">> # <<"-", "-", "group">>
    OBVIOUS
  <2>3. IndexOf("id") = 1 /\ IndexOf("group") = 2
    BY <2>1, <2>2 DEF IndexOf
  <2> QED
    BY <1>3, <2>3
<1>4. CASE command = "config"
  <2>1. /\ DOMAIN Options[command] = {1, 2, 3}
        /\ Options[command][1].flags[2] = <<"-", "-", "id">>
        /\ Options[command][2].flags[2] = <<"-", "-", "group">>
        /\ Options[command][3].flags[2] = <<"-", "-", "enable">>
    BY <1>4 DEF Options, Option
  <2>2. /\ <<"-", "-", "id">> # <<"-", "-", "group">> /\ <<"-", "-", "id">> # <<"-", "-", "enable">>
        /\ <<"-", "-", "group">> # <<"-", "-", "enable">>
    OBVIOUS
  <2>3. IndexOf("id") = 1 /\ IndexOf("group") = 2 /\ IndexOf("enable") = 3
    BY <2>1, <2>2 DEF IndexOf
  <2> QED
    BY <1>4, <2>3
<1> QED
  BY <1>1, <1>2, <1>3, <1>4

\* What a command sends with its token
Sends ==
    CASE command = "add" -> {Param("match", positionals[1]), Param("expand", positionals[2])}
                            \cup {Param("enabled", v) : v \in Get("enable")}
                            \cup {Param("group", v) : v \in Get("group")}
      [] command = "list" -> {Param("columns", v) : v \in Get("columns")}
                             \cup {Param("condition", v) : v \in Get("where")}
      [] command = "config" -> {Identifier} \cup {Param("enabled", v) : v \in Get("enable")}
      [] command = "remove" -> {Identifier}
      [] OTHER -> {}

(* What a command sends has no two parameters of one name.                     *)
LEMMA ParametersAre ==
    ASSUME ReadShape, status = "args", command \in SubCommands
    PROVE  /\ Clear(Parameters)
           /\ ToSet(Parameters) = {Param("token", <<Token>>)} \cup Sends
<1> DEFINE token == Param("token", <<Token>>)
<1>1. /\ Token \in Words
      /\ {"token", "match", "expand", "enabled", "group", "id", "columns",
           "condition"} \subseteq Words
  BY CommandAssumption
<1>2. Words \subseteq Characters
  BY DEF Words
<1>3. token \in Params /\ token.name = <<"token">>
  <2>1. <<Token>> \in Seq(Characters)
    BY <1>1, <1>2
  <2> QED
    BY <1>1, <2>1, ParamIs
<1>4. command \in {"add", "remove", "close", "list", "config"}
  BY DEF SubCommands, Options
<1>5. \A k \in DOMAIN Options[command] : Optional(options[k].value)
  BY <1>4 DEF ReadShape
<1>6. positionals \in Seq(Seq(Characters)) /\ Len(positionals) >= Arity[command]
  BY DEF ReadShape
<1>7. \A n \in Words, v \in Seq(Characters) : /\ Param(n, v) \in Params
                                              /\ Param(n, v).name = <<n>>
  BY ParamIs
<1>8. ASSUME NEW rest, Clear(rest), \A p \in ToSet(rest) : p.name # <<"token">>,
             Parameters = <<token>> \o rest, ToSet(rest) = Sends
      PROVE  Clear(Parameters) /\ ToSet(Parameters) = {token} \cup Sends
  <2>1. Clear(<<token>>) /\ ToSet(<<token>>) = {token}
    BY <1>3, ClearOne
  <2> QED
    BY <1>3, <1>8, <2>1, ClearJoined
<1> HIDE DEF token
<1>9. CASE command = "add"
  <2> DEFINE a == Param("match", positionals[1])
             b == Param("expand", positionals[2])
             c == Given("enabled", Get("enable"))
             d == Given("group", Get("group"))
  <2>1. positionals[1] \in Seq(Characters) /\ positionals[2] \in Seq(Characters)
    <3>1. Arity[command] = 2
      BY <1>9 DEF Arity
    <3>2. Len(positionals) >= 2 /\ Len(positionals) \in Nat
      BY <1>6, <3>1, LenProperties
    <3>3. 1 \in 1 .. Len(positionals) /\ 2 \in 1 .. Len(positionals)
      BY <3>2
    <3> QED
      BY <1>6, <3>3, ElementOfSeq
  <2>2. Get("enable") = options[1].value /\ Get("group") = options[2].value
    BY <1>9, Indices DEF Get
  <2>3. Optional(Get("enable")) /\ Optional(Get("group"))
    <3>1. DOMAIN Options[command] = {1, 2}
      BY <1>9 DEF Options
    <3> QED
      BY <1>5, <2>2, <3>1
  <2>4. a \in Params /\ a.name = <<"match">> /\ b \in Params /\ b.name = <<"expand">>
    BY <1>1, <1>7, <2>1
  <2>5. /\ Clear(c) /\ ToSet(c) = {Param("enabled", v) : v \in Get("enable")}
        /\ \A p \in ToSet(c) : p.name = <<"enabled">>
    BY <1>1, <1>7, <2>3, GivenIs
  <2>6. /\ Clear(d) /\ ToSet(d) = {Param("group", v) : v \in Get("group")}
        /\ \A p \in ToSet(d) : p.name = <<"group">>
    BY <1>1, <1>7, <2>3, GivenIs
  <2>7. Parameters = <<token>> \o (<<a, b>> \o c \o d)
    BY <1>9 DEF Parameters, token
  <2>8. Sends = {a, b} \cup ToSet(c) \cup ToSet(d)
    BY <1>9, <2>5, <2>6 DEF Sends
  <2> HIDE DEF a, b, c, d
  <2>9. Clear(<<a>>) /\ Clear(<<b>>) /\ ToSet(<<a>>) = {a} /\ ToSet(<<b>>) = {b}
    BY <2>4, ClearOne
  <2>10. /\ <<"match">> # <<"expand">> /\ <<"match">> # <<"enabled">>
         /\ <<"expand">> # <<"enabled">>
         /\ <<"match">> # <<"group">> /\ <<"expand">> # <<"group">> /\ <<"enabled">> # <<"group">>
         /\ <<"token">> \notin {<<"match">>, <<"expand">>, <<"enabled">>, <<"group">>}
    OBVIOUS
  <2>11. Clear(<<a, b>>) /\ ToSet(<<a, b>>) = {a, b}
    <3>1. <<a, b>> = <<a>> \o <<b>>
      BY <2>4, Tuples
    <3> QED
      BY <2>4, <2>9, <2>10, <3>1, ClearJoined
  <2>12. Clear(<<a, b>> \o c) /\ ToSet(<<a, b>> \o c) = {a, b} \cup ToSet(c)
    BY <2>4, <2>5, <2>10, <2>11, ClearJoined
  <2>13. /\ Clear(<<a, b>> \o c \o d)
         /\ ToSet(<<a, b>> \o c \o d) = {a, b} \cup ToSet(c) \cup ToSet(d)
    BY <2>4, <2>5, <2>6, <2>10, <2>12, ClearJoined
  <2>14. \A p \in {a, b} \cup ToSet(c) \cup ToSet(d) : p.name # <<"token">>
    BY <2>4, <2>5, <2>6, <2>10
  <2> QED
    BY <1>8, <2>7, <2>8, <2>13, <2>14 DEF token
<1>10. CASE command = "list"
  <2> DEFINE c == Given("columns", Get("columns"))
             d == Given("condition", Get("where"))
  <2>1. Get("columns") = options[1].value /\ Get("where") = options[2].value
    BY <1>10, Indices DEF Get
  <2>2. Optional(Get("columns")) /\ Optional(Get("where"))
    <3>1. DOMAIN Options[command] = {1, 2}
      BY <1>10 DEF Options
    <3> QED
      BY <1>5, <2>1, <3>1
  <2>3. /\ Clear(c) /\ ToSet(c) = {Param("columns", v) : v \in Get("columns")}
        /\ \A p \in ToSet(c) : p.name = <<"columns">>
    BY <1>1, <1>7, <2>2, GivenIs
  <2>4. /\ Clear(d) /\ ToSet(d) = {Param("condition", v) : v \in Get("where")}
        /\ \A p \in ToSet(d) : p.name = <<"condition">>
    BY <1>1, <1>7, <2>2, GivenIs
  <2>5. Parameters = <<token>> \o (c \o d)
    BY <1>10 DEF Parameters, token
  <2>6. Sends = ToSet(c) \cup ToSet(d)
    BY <1>10, <2>3, <2>4 DEF Sends
  <2> HIDE DEF c, d
  <2>7. /\ <<"columns">> # <<"condition">> /\ <<"token">> # <<"columns">>
        /\ <<"token">> # <<"condition">>
    OBVIOUS
  <2>8. Clear(c \o d) /\ ToSet(c \o d) = ToSet(c) \cup ToSet(d)
    BY <2>3, <2>4, <2>7, ClearJoined
  <2> QED
    BY <1>8, <2>3, <2>4, <2>5, <2>6, <2>7, <2>8 DEF token
<1>11. ASSUME command \in {"remove", "config"}
       PROVE  /\ Identifier \in Params /\ Clear(<<Identifier>>)
              /\ ToSet(<<Identifier>>) = {Identifier}
              /\ Identifier.name \in {<<"id">>, <<"group">>, <<"match">>}
  <2>1. positionals[1] \in Seq(Characters)
    <3>1. Arity[command] = 1
      BY <1>11 DEF Arity
    <3>2. Len(positionals) >= 1 /\ Len(positionals) \in Nat
      BY <1>6, <3>1, LenProperties
    <3>3. 1 \in 1 .. Len(positionals)
      BY <3>2
    <3> QED
      BY <1>6, <3>3, ElementOfSeq
  <2>2. \E n \in {"id", "group", "match"} : Identifier = Param(n, positionals[1])
    BY DEF Identifier
  <2>3. Identifier \in Params /\ Identifier.name \in {<<"id">>, <<"group">>, <<"match">>}
    BY <1>1, <1>7, <2>1, <2>2
  <2> QED
    BY <2>3, ClearOne
<1>12. CASE command = "remove"
  <2>1. Parameters = <<token>> \o <<Identifier>> /\ Sends = {Identifier}
    BY <1>12 DEF Parameters, Sends, token
  <2>2. <<"token">> \notin {<<"id">>, <<"group">>, <<"match">>}
    OBVIOUS
  <2> QED
    BY <1>8, <1>11, <1>12, <2>1, <2>2 DEF token
<1>13. CASE command = "config"
  <2> DEFINE c == Given("enabled", Get("enable"))
  <2>1. Get("enable") = options[3].value
    BY <1>13, Indices DEF Get
  <2>2. Optional(Get("enable"))
    <3>1. DOMAIN Options[command] = {1, 2, 3}
      BY <1>13 DEF Options
    <3> QED
      BY <1>5, <2>1, <3>1
  <2>3. /\ Clear(c) /\ ToSet(c) = {Param("enabled", v) : v \in Get("enable")}
        /\ \A p \in ToSet(c) : p.name = <<"enabled">>
    BY <1>1, <1>7, <2>2, GivenIs
  <2>4. Parameters = <<token>> \o (<<Identifier>> \o c) /\ Sends = {Identifier} \cup ToSet(c)
    BY <1>13, <2>3 DEF Parameters, Sends, token
  <2> HIDE DEF c
  <2>5. <<"enabled">> \notin {<<"id">>, <<"group">>, <<"match">>}
        /\ <<"token">> \notin {<<"id">>, <<"group">>, <<"match">>, <<"enabled">>}
    OBVIOUS
  <2>6. /\ Clear(<<Identifier>> \o c)
        /\ ToSet(<<Identifier>> \o c) = {Identifier} \cup ToSet(c)
    BY <1>11, <1>13, <2>3, <2>5, ClearJoined
  <2> QED
    BY <1>8, <1>11, <1>13, <2>3, <2>4, <2>5, <2>6 DEF token
<1>14. CASE command = "close"
  <2>1. Parameters = <<token>> \o <<>> /\ Sends = {}
    BY <1>14 DEF Parameters, Sends, token
  <2> QED
    BY <1>8, <2>1, ClearOne DEF token
<1> QED
  BY <1>4, <1>9, <1>10, <1>12, <1>13, <1>14 DEF token

-----------------------------------------------------------------------------
(* What is sent                                                                *)

LEMMA PathIs ==
    ASSUME command \in SubCommands
    PROVE  /\ Path = <<"/", IF command = "config" THEN "list" ELSE command>>
           /\ (IF command = "config" THEN "list" ELSE command) \in Words
           /\ (IF command = "config" THEN "list" ELSE command)
                \in {"add", "remove", "close", "list"}
<1>1. command \in {"add", "remove", "close", "list", "config"}
  BY DEF SubCommands, Options
<1>2. {"add", "remove", "close", "list"} \subseteq Words
  BY CommandAssumption
<1> QED
  BY <1>1, <1>2 DEF Path

(* A request is not empty, and it is taken for whole only as it was sent.      *)
LEMMA RequestIs ==
    ASSUME NEW op \in Words, NEW params \in Seq(Params), NEW text,
           text = RequestOf(Built(<<"/", op>>, params))
    PROVE  /\ text \in Seq(Lexical) /\ Len(text) > 0
           /\ \A n \in 0 .. Len(text) : Parsed(SubSeq(text, 1, n)) # Refused => n = Len(text)
           /\ SubSeq(text, 1, Len(text)) = text
<1> DEFINE url == Built(<<"/", op>>, params)
<1>1. /\ url \in Seq(Lexical) /\ url # <<>>
      /\ \A i \in DOMAIN url : url[i] # Space /\ url[i] # BlankLine
  BY UrlIs
<1> HIDE DEF url
<1>2. /\ text \in Seq(Lexical) /\ Contains(text, BlankLine)
      /\ \A n \in 0 .. Len(text) : Contains(SubSeq(text, 1, n), BlankLine) => n = Len(text)
  BY <1>1, WholeRequest DEF url
<1>3. Len(text) > 0
  <2>1. PICK i \in 1 .. Len(text) : text[i] = BlankLine
    BY <1>2 DEF Contains
  <2>2. Len(text) \in Nat
    BY <1>2, LenProperties
  <2> QED
    BY <2>1, <2>2
<1>4. \A t : ~Contains(t, BlankLine) => Parsed(t) = Refused
  BY DEF Parsed
<1>5. SubSeq(text, 1, Len(text)) = text
  BY <1>2, SubSeqFull
<1> QED
  BY <1>2, <1>3, <1>4, <1>5

\* A channel with a message of which nothing has arrived
Fresh(text) == [message |-> text, arrived |-> 0, seen |-> 0, read |-> 0, pieces |-> 0,
                closed |-> FALSE]

LEMMA FreshRequest ==
    ASSUME NEW text \in Seq(Lexical), request' = Fresh(text)
    PROVE  RequestShape' /\ request'.message = text
<1>1. /\ request' \in [message : Seq(Lexical), arrived : Nat, seen : Nat, read : Nat,
                       pieces : Nat, closed : BOOLEAN]
      /\ request'.message = text /\ request'.read = 0 /\ request'.arrived = 0
  BY DEF Fresh
<1>2. Len(text) \in Nat
  BY LenProperties
<1> QED
  BY <1>1, <1>2 DEF RequestShape

(* The client sends one request, and nothing was there before.                 *)
LEMMA SendStep ==
    ASSUME RequestInv, client = "arguments", client' = "waiting", NEW op \in Words,
           NEW params, Clear(params), UNCHANGED <<server, call, status, command>>,
           NEW text, text = RequestOf(Built(<<"/", op>>, params)), request' = Fresh(text),
           sent' = {[path |-> <<"/", op>>, params |-> params]}, SentBy'
    PROVE  RequestInv'
<1>1. params \in Seq(Params)
  BY DEF Clear
<1>2. text \in Seq(Lexical)
  BY <1>1, RequestIs
<1>5. server = "accepting"
  BY DEF RequestInv, RequestSent
<1>8. RequestShape' /\ request'.message = text
  BY <1>2, FreshRequest
<1>9. RequestLooked'
  BY <1>5 DEF RequestLooked
<1>10. RequestSent'
  BY <1>1, <1>8 DEF RequestSent
<1> QED
  BY <1>8, <1>9, <1>10 DEF RequestInv

(* What happens afterwards does not change what was sent.                      *)
LEMMA RequestKept ==
    ASSUME RequestInv, sent # {}, UNCHANGED <<arguments, call, sent, server>>,
           request' = request \/ request' = [request EXCEPT !.closed = TRUE],
           client' \notin {"arguments", "server"}
    PROVE  RequestInv'
<1>1. UNCHANGED <<argv, command, at, options, positionals, status>>
  BY DEF arguments
<1>2. /\ request'.message = request.message /\ request'.arrived = request.arrived
      /\ request'.read = request.read /\ request'.pieces = request.pieces
      /\ request'.seen = request.seen /\ RequestShape'
  BY DEF RequestInv, RequestShape
<1>3. Path' = Path /\ Parameters' = Parameters
  BY <1>1 DEF Path, Parameters, Identifier, Get, Found, IndexOf
<1>4. RequestSent'
  BY <1>1, <1>2, <1>3 DEF RequestInv, RequestSent, SentBy
<1>5. RequestLooked'
  BY <1>2 DEF RequestInv, RequestLooked, AtOnce, Waiting
<1> QED
  BY <1>2, <1>4, <1>5 DEF RequestInv

LEMMA RequestClient ==
    ASSUME AnswerInv, ReadShape, RequestInv, Client
    PROVE  RequestInv'
<1>1. CASE Parse
  <2>1. status \in {"start", "parsing"}
    BY <1>1 DEF Parse, ReadArguments, ChooseParser, ReadPositional, ReadProtected, ReadHelp,
                ReadFlag, ReadUnknown, EndParse, Reading
  <2>2. client = "arguments" /\ sent = {} /\ call = {}
    BY <2>1 DEF AnswerInv, InOrderDone, RequestInv, RequestSent, SentBy
  <2>3. UNCHANGED <<call, client, sent, server, request>>
    BY <1>1 DEF Parse, serverSide
  <2> QED
    BY <2>2, <2>3 DEF RequestInv, RequestShape, RequestSent, SentBy, RequestLooked, AtOnce, Waiting
<1>2. ASSUME client = "arguments", client' \in {"ended", "server"},
             UNCHANGED <<call, sent, server, request, status>>
      PROVE  RequestInv'
  <2>1. sent = {} /\ (call # {} => status = "call")
    BY <1>2 DEF RequestInv, RequestSent, SentBy
  <2> QED
    BY <1>2, <2>1 DEF RequestInv, RequestShape, RequestSent, SentBy, RequestLooked, AtOnce, Waiting
<1>3. CASE ArgumentsRefused \/ StartTexc
  BY <1>2, <1>3 DEF ArgumentsRefused, StartTexc, ExitWith, arguments, serverSide
<1>4. CASE SubCommand
  <2>1. status = "args" /\ command # "texc" /\ UNCHANGED arguments /\ client = "arguments"
        /\ UNCHANGED <<call, server>>
    BY <1>4 DEF SubCommand, Send, ClientGoes, serverSide
  <2>2. command \in SubCommands
    BY <2>1 DEF ReadShape, SubCommands
  <2>3. call = {}
    BY <2>1 DEF RequestInv, RequestSent, SentBy
  <2>4. \/ /\ client' = "waiting"
           /\ request' = Fresh(RequestOf(Built(Path, Parameters)))
           /\ sent' = {[path |-> Path, params |-> Parameters]}
        \/ client' = "ended" /\ UNCHANGED <<sent, request>>
    BY <1>4 DEF SubCommand, Send, ClientGoes, ExitWith, Sent, Idle, Fresh
  <2>5. UNCHANGED <<argv, command, at, options, positionals, status>>
    BY <2>1 DEF arguments
  <2>6. CASE client' = "ended" /\ UNCHANGED <<sent, request>>
    BY <1>2, <2>1, <2>5, <2>6
  <2>7. CASE /\ client' = "waiting"
             /\ request' = Fresh(RequestOf(Built(Path, Parameters)))
             /\ sent' = {[path |-> Path, params |-> Parameters]}
    <3>1. Clear(Parameters)
      BY <2>1, <2>2, ParametersAre
    <3>2. PICK op \in Words : Path = <<"/", op>>
      BY <2>2, PathIs
    <3>3. Path' = Path /\ Parameters' = Parameters
      BY <2>5 DEF Path, Parameters, Identifier, Get, Found, IndexOf
    <3>4. SentBy'
      BY <2>1, <2>2, <2>3, <2>5, <2>7, <3>3 DEF SentBy
    <3> QED
      BY <2>1, <2>5, <2>7, <3>1, <3>2, <3>4, SendStep
  <2> QED
    BY <2>4, <2>6, <2>7
<1>5. CASE CallApi
  <2>1. PICK c \in call : Send(c.path, c.params)
    BY <1>5 DEF CallApi
  <2>2. c \in Calls /\ call = {c}
    BY <2>1 DEF RequestInv, RequestSent, SentBy
  <2>3. client = "arguments" /\ UNCHANGED <<call, server, status, command>>
    BY <2>1 DEF Send, ClientGoes, arguments, serverSide
  <2>4. \/ /\ client' = "waiting"
           /\ request' = Fresh(RequestOf(Built(c.path, c.params)))
           /\ sent' = {[path |-> c.path, params |-> c.params]}
        \/ client' = "ended" /\ UNCHANGED <<sent, request>>
    BY <2>1 DEF Send, ClientGoes, ExitWith, Sent, Idle, Fresh
  <2>5. Clear(c.params)
    BY <2>2, CommandAssumption DEF Clear, Params
  <2>6. PICK op \in Words : c.path = <<"/", op>>
    BY <2>2, CommandAssumption
  <2>7. CASE client' = "ended" /\ UNCHANGED <<sent, request>>
    BY <1>2, <2>3, <2>7
  <2>8. CASE /\ client' = "waiting"
             /\ request' = Fresh(RequestOf(Built(c.path, c.params)))
             /\ sent' = {[path |-> c.path, params |-> c.params]}
    <3>1. SentBy'
      BY <2>2, <2>3, <2>8 DEF RequestInv, RequestSent, SentBy
    <3> QED
      BY <2>3, <2>5, <2>6, <2>8, <3>1, SendStep
  <2> QED
    BY <2>4, <2>7, <2>8
<1>6. CASE ClientTimeout \/ ClientPeek \/ ClientRead \/ Show
  <2>1. client \in {"waiting", "peeked", "answered"}
        /\ client' \in {"timed out", "peeked", "answered", "waiting", "ended", "crashed"}
    BY <1>6 DEF ClientTimeout, ClientPeek, ClientRead, Show, ClientGoes, ExitWith
  <2>2. UNCHANGED <<arguments, call, sent, server>>
    BY <1>6 DEF ClientTimeout, ClientPeek, ClientRead, Show, serverSide
  <2>3. request' = request \/ request' = [request EXCEPT !.closed = TRUE]
    BY <1>6 DEF ClientTimeout, ClientPeek, ClientRead, Show
  <2>4. sent # {}
    BY <2>1 DEF RequestInv, RequestSent
  <2> QED
    BY <2>1, <2>2, <2>3, <2>4, RequestKept
<1> QED
  BY <1>1, <1>3, <1>4, <1>5, <1>6 DEF Client

(* A look finds a piece of the request.                                        *)
LEMMA RequestPeek == ASSUME RequestInv, ServerPeek PROVE RequestInv'
<1>1. /\ server = "waiting" /\ server' = "peeked" /\ Readable(request)
      /\ request' = [request EXCEPT !.seen = Smaller(Waiting(request), Block)]
      /\ UNCHANGED clientSide
  BY DEF ServerPeek, ServerGoes, Peeked
<1>2. UNCHANGED <<arguments, call, client, sent, argv, command, options, positionals, status>>
  BY <1>1 DEF clientSide, arguments
<1>3. Waiting(request) \in Nat
  BY DEF RequestInv, RequestShape, Waiting
<1>4. Smaller(Waiting(request), Block) \in Nat
  BY <1>3, CommandAssumption DEF Smaller
<1>5. /\ request'.message = request.message /\ request'.arrived = request.arrived
      /\ request'.read = request.read /\ request'.pieces = request.pieces
      /\ request'.seen = Smaller(Waiting(request), Block) /\ request'.closed = request.closed
  BY <1>1 DEF RequestInv, RequestShape
<1>6. RequestShape'
  BY <1>1, <1>4, <1>5 DEF RequestInv, RequestShape
<1>7. sent # {} /\ Len(request.message) > 0
  <2>1. sent # {}
    BY <1>1 DEF RequestInv, RequestSent
  <2> QED
    BY <2>1, RequestIs DEF RequestInv, RequestSent
<1>8. request.pieces > 0
  <2>1. SUFFICES ASSUME request.pieces = 0 PROVE FALSE
    BY DEF RequestInv, RequestShape
  <2>2. request.arrived = 0 /\ request.read = 0 /\ Waiting(request) = 0
    BY <2>1 DEF RequestInv, RequestShape, Waiting
  <2>3. Len(request.message) = 0
    BY <1>1, <2>2 DEF Readable
  <2> QED
    BY <1>7, <2>3
<1>9. RequestLooked'
  BY <1>1, <1>5, <1>8 DEF RequestLooked, AtOnce, Waiting
<1>10. Path' = Path /\ Parameters' = Parameters
  BY <1>2 DEF Path, Parameters, Identifier, Get, Found, IndexOf
<1>11. RequestSent'
  BY <1>2, <1>5, <1>7, <1>10 DEF RequestInv, RequestSent, SentBy
<1> QED
  BY <1>6, <1>9, <1>11 DEF RequestInv

(* What was seen whole is read whole.                                          *)
LEMMA RequestRead == ASSUME RequestInv, ServerRead PROVE RequestInv'
<1>1. /\ server = "peeked" /\ server' \in {"parsing", "waiting"}
      /\ server' = "parsing" => request.seen <= Fits(request)
      /\ request' = [request EXCEPT !.read = @ + Fits(request)]
      /\ UNCHANGED clientSide
  BY DEF ServerRead, ServerGoes, AllRead, ReadOn
<1>2. UNCHANGED <<arguments, call, client, sent, argv, command, options, positionals, status>>
  BY <1>1 DEF clientSide, arguments
<1>3. Waiting(request) \in Nat /\ request.read + Waiting(request) = request.arrived
  BY DEF RequestInv, RequestShape, Waiting
<1>4. /\ Fits(request) \in Nat /\ Fits(request) <= Waiting(request)
      /\ Smaller(Waiting(request), Block) <= Fits(request) => Fits(request) = Waiting(request)
  BY <1>3, CommandAssumption DEF Fits, Smaller
<1>5. /\ request'.message = request.message /\ request'.arrived = request.arrived
      /\ request'.read = request.read + Fits(request) /\ request'.pieces = request.pieces
      /\ request'.seen = request.seen /\ request'.closed = request.closed
  BY <1>1 DEF RequestInv, RequestShape
<1>6. RequestShape'
  BY <1>1, <1>3, <1>4, <1>5 DEF RequestInv, RequestShape
<1>7. sent # {} /\ request.pieces > 0
  BY <1>1 DEF RequestInv, RequestSent, RequestLooked
<1>8. AtOnce(request') /\ server' = "parsing" => request'.read = request'.arrived
  <2> SUFFICES ASSUME AtOnce(request'), server' = "parsing"
               PROVE  request'.read = request'.arrived
    OBVIOUS
  <2>1. AtOnce(request)
    BY <1>5 DEF AtOnce
  <2>2. request.seen = Smaller(Waiting(request), Block)
    BY <1>1, <2>1 DEF RequestInv, RequestLooked
  <2> QED
    BY <1>1, <1>3, <1>4, <1>5, <2>2
<1>9. RequestLooked'
  BY <1>1, <1>5, <1>7, <1>8 DEF RequestLooked, AtOnce
<1>10. Path' = Path /\ Parameters' = Parameters
  BY <1>2 DEF Path, Parameters, Identifier, Get, Found, IndexOf
<1>11. RequestSent'
  BY <1>2, <1>5, <1>7, <1>10 DEF RequestInv, RequestSent, SentBy
<1> QED
  BY <1>6, <1>9, <1>11 DEF RequestInv

(* A piece more is the second one at least when the server has looked.         *)
LEMMA RequestDelivered ==
    ASSUME RequestInv, request' \in Delivered(request), UNCHANGED <<clientSide, server>>
    PROVE  RequestInv' /\ request'.pieces = request.pieces + 1
<1>1. UNCHANGED <<arguments, call, client, sent, argv, command, options, positionals, status>>
  BY DEF clientSide, arguments
<1>2. /\ request.arrived \in Nat /\ request.arrived <= Len(request.message)
      /\ Len(request.message) \in Nat /\ request.read \in Nat /\ request.read <= request.arrived
      /\ request.pieces \in Nat
  BY LenProperties DEF RequestInv, RequestShape
<1>3. PICK n \in Nat : /\ request.arrived <= n /\ n <= Len(request.message)
                       /\ request' = [request EXCEPT !.arrived = n, !.pieces = @ + 1]
  <2>1. PICK n \in IF request.pieces + 1 < MaxPieces
                   THEN request.arrived + 1 .. Len(request.message)
                   ELSE {Len(request.message)} \ {request.arrived} :
             request' = [request EXCEPT !.arrived = n, !.pieces = @ + 1]
    BY DEF Delivered
  <2>2. n \in Nat /\ request.arrived <= n /\ n <= Len(request.message)
    BY <1>2, <2>1
  <2> QED
    BY <2>1, <2>2
<1>4. /\ request'.message = request.message /\ request'.arrived = n
      /\ request'.read = request.read /\ request'.pieces = request.pieces + 1
      /\ request'.seen = request.seen /\ request'.closed = request.closed
  BY <1>3 DEF RequestInv, RequestShape
<1>5. RequestShape'
  <2>1. request.pieces + 1 \in Nat /\ request.pieces + 1 # 0
    BY <1>2
  <2>2. request' \in [message : Seq(Lexical), arrived : Nat, seen : Nat, read : Nat, pieces : Nat,
                      closed : BOOLEAN]
    BY <1>3, <2>1 DEF RequestInv, RequestShape
  <2> QED
    BY <1>2, <1>3, <1>4, <2>1, <2>2 DEF RequestShape
<1>6. RequestLooked'
  <2>1. server \in {"peeked", "parsing"} => request'.pieces > 1
    BY <1>2, <1>4 DEF RequestInv, RequestLooked
  <2> QED
    BY <2>1, <1>4, <1>2 DEF RequestLooked, AtOnce
<1>7. Path' = Path /\ Parameters' = Parameters
  BY <1>1 DEF Path, Parameters, Identifier, Get, Found, IndexOf
<1>8. RequestSent'
  BY <1>1, <1>4, <1>7 DEF RequestInv, RequestSent, SentBy
<1> QED
  BY <1>4, <1>5, <1>6, <1>8 DEF RequestInv

(* The invariant of the request is kept by every step.                         *)
LEMMA RequestStep ==
    ASSUME AnswerInv, ReadShape, RequestInv, [Next]_vars
    PROVE  RequestInv'
<1>1. ASSUME UNCHANGED <<arguments, call, client, sent, request>>,
             server' \notin {"peeked", "parsing"}, server' = "accepting" \/ sent # {},
             sent = {} => server' = "accepting"
      PROVE  RequestInv'
  <2>1. UNCHANGED <<argv, command, at, options, positionals, status>>
    BY <1>1 DEF arguments
  <2>2. Path' = Path /\ Parameters' = Parameters
    BY <2>1 DEF Path, Parameters, Identifier, Get, Found, IndexOf
  <2>3. RequestSent'
    BY <1>1, <2>1, <2>2 DEF RequestInv, RequestSent, SentBy
  <2> QED
    BY <1>1, <2>3 DEF RequestInv, RequestShape, RequestLooked
<1>2. CASE Client
  BY <1>2, RequestClient
<1>3. CASE ServerAccept \/ ServerTimeout \/ RefuseFormat \/ Handle
  <2>1. server' \in {"waiting", "ended", "crashed"} /\ UNCHANGED <<clientSide, request>>
    BY <1>3 DEF ServerAccept, ServerTimeout, RefuseFormat, Handle, ServerGoes
  <2>2. sent # {}
    BY <1>3 DEF ServerAccept, ServerTimeout, RefuseFormat, Handle, ServerGoes, RequestInv,
                RequestSent
  <2> QED
    BY <1>1, <2>1, <2>2 DEF clientSide
<1>4. CASE ServerPeek \/ ServerRead
  BY <1>4, RequestPeek, RequestRead
<1>5. ASSUME UNCHANGED <<clientSide, server, request>> PROVE RequestInv'
  <2>1. UNCHANGED <<arguments, call, client, sent, server, request>>
    BY <1>5 DEF clientSide
  <2>2. UNCHANGED <<argv, command, at, options, positionals, status>>
    BY <2>1 DEF arguments
  <2>3. Path' = Path /\ Parameters' = Parameters
    BY <2>2 DEF Path, Parameters, Identifier, Get, Found, IndexOf
  <2>4. RequestSent'
    BY <2>1, <2>2, <2>3 DEF RequestInv, RequestSent, SentBy
  <2> QED
    BY <2>1, <2>4 DEF RequestInv, RequestShape, RequestLooked, AtOnce, Waiting
<1>6. CASE Network
  BY <1>5, <1>6, RequestDelivered DEF Network
<1>7. CASE UNCHANGED vars
  BY <1>5, <1>7 DEF vars, clientSide
<1> QED
  BY <1>2, <1>3, <1>4, <1>6, <1>7 DEF Next, Server

-----------------------------------------------------------------------------
(* What the server does                                                        *)

\* What follows from the answer alone
Fair(reply) == reply.status \in {"200", "400"} /\ (reply.status = "400" => reply = BadRequest)

LEMMA FairReplies ==
    /\ Fair(BadRequest) /\ Fair(Success) /\ Fair(NotFound) /\ Fair(Reply("200", <<"0.4.1">>))
    /\ \A rows : Fair(Table(rows))
BY DEF Fair, BadRequest, Success, NotFound, Reply, Table

\* Which handler an outcome is of
HandledBy(outcome, parsed) ==
    \/ outcome \in Rejected
    \/ /\ parsed.path = <<"/", "add">>
       /\ outcome \in HandleAdd(Query(parsed, "match"), Query(parsed, "expand"),
                                Query(parsed, "enabled"), Query(parsed, "group"))
    \/ parsed.path = <<"/", "remove">> /\ outcome \in HandleRemove(Identified(parsed))
    \/ /\ parsed.path = <<"/", "list">>
       /\ outcome \in HandleList(Query(parsed, "columns"), Query(parsed, "condition"))
    \/ parsed.path = <<"/", "close">> /\ outcome \in Outcome({<<"close">>}, {Success})
    \/ /\ parsed.path = <<"/", "config">>
       /\ outcome \in HandleConfig(Identified(parsed), Query(parsed, "enabled"))
    \/ /\ parsed.path = <<"/", "version">>
       /\ outcome \in Outcome({<<"version">>}, {Reply("200", <<"0.4.1">>)})
    \/ /\ parsed.path \notin {<<"/", "add">>, <<"/", "remove">>, <<"/", "list">>, <<"/", "close">>}
       /\ outcome \in Outcome({}, {NotFound})

LEMMA HandlerOf == \A parsed : \A outcome \in Handled(parsed) : HandledBy(outcome, parsed)
BY DEF Handled, HandledBy

(* An outcome is a crash or one answer, and what was asked of the store.       *)
LEMMA Outcomes ==
    ASSUME NEW outcome, NEW ask, NEW replies, outcome \in Outcome(ask, replies)
    PROVE  outcome.asked = ask /\ \E reply \in replies : outcome.answer = {reply}
BY DEF Outcome

LEMMA AddOutcome ==
    \A a, b, c, d : \A outcome \in HandleAdd(a, b, c, d) :
      \/ outcome \in Crash /\ (a = {} \/ b = {} \/ c \notin Booleans)
      \/ /\ c # {}
         /\ outcome \in Outcome({<<"add", a, b, c, IF d = {} THEN {<<"all">>} ELSE d>>},
                                {Success, BadRequest})
<1>1. \A c \in Booleans : c # {}
  BY DEF Booleans
<1> QED
  BY <1>1 DEF HandleAdd

LEMMA RemoveOutcome ==
    \A identified : \A outcome \in HandleRemove(identified) :
      \/ outcome \in Rejected
      \/ /\ identified # {}
         /\ outcome \in Outcome({<<"remove", identified>>}, {Success, BadRequest})
BY DEF HandleRemove

LEMMA ConfigOutcome ==
    \A identified, enabled : \A outcome \in HandleConfig(identified, enabled) :
      \/ outcome \in Rejected
      \/ outcome \in Crash /\ enabled = {}
      \/ /\ identified # {} /\ enabled # {}
         /\ outcome \in Outcome({<<"config", identified, enabled>>}, {Success, BadRequest})
BY DEF HandleConfig

LEMMA ListOutcome ==
    \A columns, condition : \A outcome \in HandleList(columns, condition) :
      \/ outcome \in Crash /\ columns # {}
      \/ outcome \in Outcome({<<"list", columns, condition>>},
                             {BadRequest} \cup {Table(rows) : rows \in 0 .. MaxRows})
BY DEF HandleList

(* A request for one of the paths of the command line is answered with success *)
(* only when something has been asked of the store.                            *)
LEMMA HandlersAnswer ==
    ASSUME NEW parsed, NEW outcome \in Handled(parsed), NEW reply \in outcome.answer
    PROVE  /\ Fair(reply) /\ outcome.answer = {reply}
           /\ \A op \in {"add", "remove", "close", "list"} :
                parsed.path = <<"/", op>> => outcome.asked # {} \/ reply = BadRequest
<1> DEFINE Good == /\ Fair(reply) /\ outcome.answer = {reply}
                   /\ outcome.asked # {} \/ reply = BadRequest
<1>1. ASSUME NEW ask, ask # {}, NEW replies, \A r \in replies : Fair(r),
             outcome \in Outcome(ask, replies)
      PROVE  Good
  BY <1>1, Outcomes
<1>2. outcome \in Rejected => Good
  BY Outcomes, FairReplies DEF Rejected
<1>3. outcome \notin Crash
  BY DEF Crash
<1>4. \A r \in {Success, BadRequest} : Fair(r)
  BY FairReplies
<1>5. \A a, b, c, d : outcome \in HandleAdd(a, b, c, d) => Good
  <2> SUFFICES ASSUME NEW a, NEW b, NEW c, NEW d, outcome \in HandleAdd(a, b, c, d) PROVE Good
    OBVIOUS
  <2> DEFINE ask == {<<"add", a, b, c, IF d = {} THEN {<<"all">>} ELSE d>>}
  <2>1. outcome \in Outcome(ask, {Success, BadRequest}) /\ ask # {}
    BY <1>3, AddOutcome
  <2> HIDE DEF ask, Good
  <2> QED
    BY <1>1, <1>4, <2>1
<1>6. \A a : outcome \in HandleRemove(a) => Good
  <2> SUFFICES ASSUME NEW a, outcome \in HandleRemove(a) PROVE Good
    OBVIOUS
  <2>1. outcome \in Rejected \/ outcome \in Outcome({<<"remove", a>>}, {Success, BadRequest})
    BY RemoveOutcome
  <2> QED
    BY <1>1, <1>2, <1>4, <2>1
<1>7. \A a, b : outcome \in HandleConfig(a, b) => Good
  <2> SUFFICES ASSUME NEW a, NEW b, outcome \in HandleConfig(a, b) PROVE Good
    OBVIOUS
  <2>1. outcome \in Rejected \/ outcome \in Outcome({<<"config", a, b>>}, {Success, BadRequest})
    BY <1>3, ConfigOutcome
  <2> QED
    BY <1>1, <1>2, <1>4, <2>1
<1>8. \A a, b : outcome \in HandleList(a, b) => Good
  <2>1. \A r \in {BadRequest} \cup {Table(rows) : rows \in 0 .. MaxRows} : Fair(r)
    BY FairReplies
  <2> DEFINE replies == {BadRequest} \cup {Table(rows) : rows \in 0 .. MaxRows}
  <2> HIDE DEF replies, Good
  <2>2. \A r \in replies : Fair(r)
    BY <2>1 DEF replies
  <2>3. \A a : outcome \in Outcome({a}, replies) => Good
    BY <1>1, <2>2
  <2>4. \A a, b : outcome \in HandleList(a, b) => outcome \in Outcome({<<"list", a, b>>}, replies)
    BY <1>3, ListOutcome DEF replies
  <2> QED
    BY <2>3, <2>4
<1>9. /\ outcome \in Outcome({<<"close">>}, {Success}) => Good
      /\ outcome \in Outcome({<<"version">>}, {Reply("200", <<"0.4.1">>)}) => Good
  BY <1>1, FairReplies
<1>10. outcome \in Outcome({}, {NotFound}) => Fair(reply) /\ outcome.answer = {reply}
  BY Outcomes, FairReplies
<1>11. HandledBy(outcome, parsed)
  BY HandlerOf
<1>12. CASE outcome \in Outcome({}, {NotFound})
            /\ parsed.path \notin {<<"/", "add">>, <<"/", "remove">>, <<"/", "list">>,
                                   <<"/", "close">>}
  <2>1. \A op \in {"add", "remove", "close", "list"} : parsed.path # <<"/", op>>
    BY <1>12
  <2> QED
    BY <1>10, <1>12, <2>1
<1>13. CASE Good
  BY <1>13
<1> HIDE DEF Good
<1> QED
  BY <1>2, <1>5, <1>6, <1>7, <1>8, <1>9, <1>11, <1>12, <1>13 DEF HandledBy

-----------------------------------------------------------------------------
\* No value or one
OneAtMost(values) == values = {} \/ \E v : values = {v}

\* The values a list of parameters has for a name
ValuesIn(set, n) == {p.value : p \in {q \in set : q.name = <<n>>}}
ValuesOf(params, n) == ValuesIn(ToSet(params), n)

\* A parameter for every value
Each(name, values) == {Param(name, v) : v \in values}

(* The server finds what was sent under its name, without what is not printable. *)
LEMMA QueryIs ==
    ASSUME NEW params, Clear(params), NEW parsed,
           parsed.queries = [i \in 1 .. Len(params) |-> Legibly(params[i])], NEW n
    PROVE  /\ Query(parsed, n) = Legible(ValuesOf(params, n))
           /\ OneAtMost(Query(parsed, n))
<1>1. params \in Seq(Params) /\ Len(params) \in Nat /\ DOMAIN params = 1 .. Len(params)
  BY LenProperties DEF Clear
<1> DEFINE N == 1 .. Len(params)
           named == {i \in N : params[i].name = <<n>>}
<1>2. DOMAIN parsed.queries = N
      /\ \A i \in N : /\ parsed.queries[i].name = params[i].name
                      /\ parsed.queries[i].value = Printable(params[i].value)
  BY DEF Legibly
<1>3. \A i, j \in named : i = j
  BY <1>1 DEF Clear
<1>4. {i \in DOMAIN parsed.queries : parsed.queries[i].name = <<n>>} = named
  BY <1>2
<1>5. \A i \in named : {j \in named : \A k \in named : j <= k} = {i}
  BY <1>1, <1>3
<1>6. Query(parsed, n) =
        {parsed.queries[i].value : i \in {j \in named : \A k \in named : j <= k}}
  BY <1>4 DEF Query
<1>7. Legible(ValuesOf(params, n)) = {Printable(v) : v \in ValuesOf(params, n)}
  BY Zenon DEF Legible, Printable
<1>8. \A i \in N : params[i] \in ToSet(params)
  BY <1>1 DEF ToSet
<1>9. \A q \in ToSet(params) : \E i \in N : q = params[i]
  BY <1>1 DEF ToSet
<1> HIDE DEF N
<1>10. CASE named = {}
  <2>1. Query(parsed, n) = {}
    BY <1>6, <1>10
  <2>2. ValuesOf(params, n) = {}
    BY <1>9, <1>10 DEF ValuesOf, ValuesIn
  <2> QED
    BY <1>7, <2>1, <2>2 DEF OneAtMost
<1>11. CASE named # {}
  <2>1. PICK i \in named : TRUE
    BY <1>11
  <2>2. i \in N /\ params[i].name = <<n>>
    BY <2>1
  <2>3. Query(parsed, n) = {Printable(params[i].value)}
    <3>1. {j \in named : \A k \in named : j <= k} = {i}
      BY <1>5
    <3> HIDE DEF named
    <3>2. Query(parsed, n) = {parsed.queries[i].value}
      BY <1>6, <3>1
    <3> QED
      BY <1>2, <2>2, <3>2
  <2>4. {q \in ToSet(params) : q.name = <<n>>} = {params[i]}
    BY <1>3, <1>8, <1>9, <2>2
  <2>5. ValuesOf(params, n) = {params[i].value}
    BY <2>4 DEF ValuesOf, ValuesIn
  <2> QED
    BY <1>7, <2>3, <2>5 DEF OneAtMost
<1> QED
  BY <1>10, <1>11

\* The identifiers among the values, as Wanted has them
Identifying(value) ==
    {i \in {<<n, v>> : n \in {"match", "id", "group"},
                      v \in UNION {value[m] : m \in DOMAIN value}} : i[2] \in value[i[1]]}

LEMMA WantedIs ==
    ASSUME NEW value
    PROVE  /\ Wanted("add", value) = <<"add", value.match, value.expand,
                                      Otherwise({<<"true">>}, Switch(value)),
                                      Otherwise({<<"all">>}, value.group)>>
           /\ Wanted("remove", value) = <<"remove", Identifying(value)>>
           /\ Wanted("config", value) = <<"config", Identifying(value), Switch(value)>>
           /\ Wanted("list", value) = <<"list", value.columns, value.condition>>
           /\ \A op : op \notin {"add", "remove", "config", "list"} => Wanted(op, value) = <<op>>
<1>1. Wanted("add", value) = <<"add", value.match, value.expand,
                               Otherwise({<<"true">>}, Switch(value)),
                               Otherwise({<<"all">>}, value.group)>>
  BY DEF Wanted
<1>2. Wanted("list", value) = <<"list", value.columns, value.condition>>
  BY DEF Wanted
<1>3. \A op : op \notin {"add", "remove", "config", "list"} => Wanted(op, value) = <<op>>
  BY DEF Wanted
<1> DEFINE identifiers == Identifying(value)
           switch == Switch(value)
<1>4. \A op : Wanted(op, value) =
        CASE op = "add" -> <<"add", value.match, value.expand, Otherwise({<<"true">>}, switch),
                             Otherwise({<<"all">>}, value.group)>>
          [] op = "remove" -> <<"remove", identifiers>>
          [] op = "config" -> <<"config", identifiers, switch>>
          [] op = "list" -> <<"list", value.columns, value.condition>>
          [] OTHER -> <<op>>
  BY DEF Wanted, Identifying
<1> HIDE DEF identifiers, switch
<1>5. /\ Wanted("remove", value) = <<"remove", identifiers>>
      /\ Wanted("config", value) = <<"config", identifiers, switch>>
  BY <1>4
<1> QED
  BY <1>1, <1>2, <1>3, <1>5 DEF identifiers, switch

(* There is one identifier at most when it is used.                            *)
LEMMA IdentifiersAre ==
    ASSUME NEW parsed, \A n \in Names : OneAtMost(Query(parsed, n)),
           NEW value, value = [n \in Names |-> Query(parsed, n)]
    PROVE  /\ Identified(parsed) # {} => Identified(parsed) = Identifiers(parsed)
           /\ Identifying(value) = Identifiers(parsed)
<1> DEFINE Of(n) == {<<n, v>> : v \in Query(parsed, n)}
<1>0. {"match", "id", "group"} \subseteq Names
  BY DEF Names
<1>1. Identifiers(parsed) = Of("match") \cup Of("id") \cup Of("group")
  BY DEF Identifiers
<1>2. \A n \in {"match", "id", "group"} : OneAtMost(Of(n))
  <2> SUFFICES ASSUME NEW n \in {"match", "id", "group"} PROVE Of(n) = {} \/ \E w : Of(n) = {w}
    BY DEF OneAtMost
  <2>1. CASE Query(parsed, n) = {}
    BY <2>1
  <2>2. CASE \E v : Query(parsed, n) = {v}
    <3>1. PICK v : Query(parsed, n) = {v}
      BY <2>2
    <3>2. Of(n) = {<<n, v>>}
      BY <3>1
    <3> QED
      BY <3>2
  <2> QED
    BY <1>0, <2>1, <2>2 DEF OneAtMost
<1> HIDE DEF Of
<1>3. \A n \in {"match", "id", "group"} : IsFiniteSet(Of(n))
  <2> SUFFICES ASSUME NEW n \in {"match", "id", "group"} PROVE IsFiniteSet(Of(n))
    OBVIOUS
  <2>1. CASE Of(n) = {}
    BY <2>1, FS_EmptySet
  <2>2. CASE \E w : Of(n) = {w}
    <3>1. PICK w : Of(n) = {w}
      BY <2>2
    <3>2. IsFiniteSet({w})
      BY FS_Singleton
    <3> QED
      BY <3>1, <3>2
  <2> QED
    BY <1>2, <2>1, <2>2 DEF OneAtMost
<1>4. IsFiniteSet(Identifiers(parsed))
  <2>1. IsFiniteSet(Of("match") \cup Of("id"))
    BY <1>3, FS_Union
  <2> QED
    BY <1>1, <1>3, <2>1, FS_Union
<1>5. Identified(parsed) # {} => Identified(parsed) = Identifiers(parsed)
  <2> SUFFICES ASSUME NEW i \in Identified(parsed) PROVE Identified(parsed) = Identifiers(parsed)
    OBVIOUS
  <2>1. i \in Identifiers(parsed) /\ Cardinality(Identifiers(parsed)) = 1
    BY DEF Identified
  <2>2. PICK w : Identifiers(parsed) = {w}
    BY <1>4, <2>1, FS_Singleton
  <2>3. Identified(parsed) \subseteq Identifiers(parsed)
    BY DEF Identified
  <2> QED
    BY <2>2, <2>3
<1>6. Identifying(value) = Identifiers(parsed)
  <2> DEFINE all == UNION {value[m] : m \in DOMAIN value}
             by == {<<n, v>> : n \in {"match", "id", "group"}, v \in all}
  <2>1. DOMAIN value = Names /\ \A n \in Names : value[n] = Query(parsed, n)
    OBVIOUS
  <2>2. \A n \in Names : \A v \in value[n] : v \in all
    BY <2>1
  <2> HIDE DEF all
  <2>3. \A n \in {"match", "id", "group"} : \A v \in Query(parsed, n) :
          <<n, v>> \in by /\ <<n, v>>[2] \in value[<<n, v>>[1]]
    BY <1>0, <2>1, <2>2
  <2>4. \A i \in by : i[2] \in value[i[1]] =>
          i[1] \in {"match", "id", "group"} /\ i[2] \in Query(parsed, i[1]) /\ i = <<i[1], i[2]>>
    BY <1>0, <2>1
  <2>5. \A i \in Identifiers(parsed) :
          \E n \in {"match", "id", "group"} : \E v \in Query(parsed, n) : i = <<n, v>>
    BY DEF Identifiers
  <2>6. \A n \in {"match", "id", "group"} : \A v \in Query(parsed, n) :
          <<n, v>> \in Identifiers(parsed)
    BY DEF Identifiers
  <2> HIDE DEF by
  <2>7. {i \in by : i[2] \in value[i[1]]} = Identifiers(parsed)
    <3>1. ASSUME NEW i \in Identifiers(parsed) PROVE i \in by /\ i[2] \in value[i[1]]
      BY <2>3, <2>5
    <3>2. ASSUME NEW i \in by, i[2] \in value[i[1]] PROVE i \in Identifiers(parsed)
      <4>1. i[1] \in {"match", "id", "group"} /\ i[2] \in Query(parsed, i[1]) /\ i = <<i[1], i[2]>>
        BY <2>4, <3>2
      <4> QED
        BY <2>6, <4>1
    <3> QED
      BY <3>1, <3>2
  <2> QED
    BY <2>7 DEF by, all, Identifying
<1> QED
  BY <1>5, <1>6

(* What a request asks of the store is what its parameters mean.               *)
LEMMA HandlersAsk ==
    ASSUME NEW parsed, \A n \in Names : OneAtMost(Query(parsed, n)), NEW op,
           parsed.path = <<"/", op>>,
           NEW outcome \in Handled(parsed), NEW ask \in outcome.asked
    PROVE  ask = Wanted(op, [n \in Names |-> Query(parsed, n)])
<1> DEFINE value == [n \in Names |-> Query(parsed, n)]
<1>1. \A n \in Names : value[n] = Query(parsed, n)
  OBVIOUS
<1>2. Names = {"match", "expand", "enabled", "enable", "group", "id", "columns", "condition"}
  BY DEF Names
<1>3. \A a, replies : outcome \in Outcome(a, replies) => outcome.asked = a
  BY Outcomes
<1>4. outcome \notin Rejected
  BY <1>3 DEF Rejected
<1>5. outcome \notin Crash
  BY DEF Crash
<1>6. HandledBy(outcome, parsed)
  BY HandlerOf
<1>7. Identified(parsed) # {} => Identified(parsed) = Identifiers(parsed)
  BY IdentifiersAre
<1>8. Identifying(value) = Identifiers(parsed)
  BY IdentifiersAre
<1> HIDE DEF value
<1>9. CASE parsed.path = <<"/", "add">> /\
           outcome \in HandleAdd(Query(parsed, "match"), Query(parsed, "expand"),
                                 Query(parsed, "enabled"), Query(parsed, "group"))
  <2>1. op = "add"
    BY <1>9
  <2>2. /\ Query(parsed, "enabled") # {}
        /\ ask = <<"add", Query(parsed, "match"), Query(parsed, "expand"),
                   Query(parsed, "enabled"),
                   IF Query(parsed, "group") = {} THEN {<<"all">>} ELSE Query(parsed, "group")>>
    <3>1. outcome \in Outcome({<<"add", Query(parsed, "match"), Query(parsed, "expand"),
                                 Query(parsed, "enabled"),
                                 IF Query(parsed, "group") = {} THEN {<<"all">>}
                                 ELSE Query(parsed, "group")>>}, {Success, BadRequest})
          /\ Query(parsed, "enabled") # {}
      BY <1>5, <1>9, AddOutcome
    <3>2. outcome.asked = {<<"add", Query(parsed, "match"), Query(parsed, "expand"),
                             Query(parsed, "enabled"),
                             IF Query(parsed, "group") = {} THEN {<<"all">>}
                             ELSE Query(parsed, "group")>>}
      BY <1>3, <3>1
    <3> QED
      BY <3>1, <3>2
  <2>3. Wanted(op, value) = <<"add", value["match"], value["expand"],
                              Otherwise({<<"true">>}, Switch(value)),
                              Otherwise({<<"all">>}, value["group"])>>
    BY <2>1, WantedIs
  <2>4. Switch(value) = Query(parsed, "enabled")
    BY <1>1, <1>2, <2>2 DEF Switch
  <2>5. Otherwise({<<"true">>}, Switch(value)) = Query(parsed, "enabled")
    BY <2>2, <2>4 DEF Otherwise
  <2>6. Otherwise({<<"all">>}, value["group"])
          = IF Query(parsed, "group") = {} THEN {<<"all">>} ELSE Query(parsed, "group")
    BY <1>1, <1>2 DEF Otherwise
  <2> QED
    BY <1>1, <1>2, <2>2, <2>3, <2>5, <2>6 DEF value
<1>10. CASE parsed.path = <<"/", "remove">> /\ outcome \in HandleRemove(Identified(parsed))
  <2>1. op = "remove"
    BY <1>10
  <2>2. ask = <<"remove", Identified(parsed)>> /\ Identified(parsed) # {}
    BY <1>3, <1>4, <1>10, RemoveOutcome
  <2>3. Wanted(op, value) = <<"remove", Identifiers(parsed)>>
    BY <1>8, <2>1, WantedIs
  <2> QED
    BY <1>7, <2>2, <2>3 DEF value
<1>11. CASE /\ parsed.path = <<"/", "list">>
            /\ outcome \in HandleList(Query(parsed, "columns"), Query(parsed, "condition"))
  <2>1. op = "list"
    BY <1>11
  <2>2. ask = <<"list", Query(parsed, "columns"), Query(parsed, "condition")>>
    <3>1. outcome \in Outcome({<<"list", Query(parsed, "columns"), Query(parsed, "condition")>>},
                             {BadRequest} \cup {Table(rows) : rows \in 0 .. MaxRows})
      BY <1>5, <1>11, ListOutcome
    <3> QED
      BY <1>3, <3>1
  <2>3. Wanted(op, value) = <<"list", value["columns"], value["condition"]>>
    BY <2>1, WantedIs
  <2> QED
    BY <1>1, <1>2, <2>2, <2>3 DEF value
<1>12. CASE parsed.path = <<"/", "close">> /\ outcome \in Outcome({<<"close">>}, {Success})
  <2>1. op = "close" /\ ask = <<"close">>
    BY <1>3, <1>12
  <2> QED
    BY <2>1, WantedIs DEF value
<1>13. CASE /\ parsed.path = <<"/", "config">>
            /\ outcome \in HandleConfig(Identified(parsed), Query(parsed, "enabled"))
  <2>1. op = "config"
    BY <1>13
  <2>2. ask = <<"config", Identified(parsed), Query(parsed, "enabled")>> /\ Identified(parsed) # {}
        /\ Query(parsed, "enabled") # {}
    <3>1. Identified(parsed) # {} /\ Query(parsed, "enabled") # {}
          /\ outcome \in Outcome({<<"config", Identified(parsed), Query(parsed, "enabled")>>},
                                 {Success, BadRequest})
      BY <1>4, <1>5, <1>13, ConfigOutcome
    <3>2. outcome.asked = {<<"config", Identified(parsed), Query(parsed, "enabled")>>}
      BY <1>3, <3>1
    <3> QED
      BY <3>1, <3>2
  <2>3. Wanted(op, value) = <<"config", Identifiers(parsed), Switch(value)>>
    BY <1>8, <2>1, WantedIs
  <2>4. Switch(value) = Query(parsed, "enabled")
    BY <1>1, <1>2, <2>2 DEF Switch
  <2> QED
    BY <1>1, <1>2, <1>7, <2>2, <2>3, <2>4 DEF value
<1>14. CASE /\ parsed.path = <<"/", "version">>
            /\ outcome \in Outcome({<<"version">>}, {Reply("200", <<"0.4.1">>)})
  <2>1. op = "version" /\ ask = <<"version">>
    BY <1>3, <1>14
  <2> QED
    BY <2>1, WantedIs DEF value
<1>15. CASE outcome \in Outcome({}, {NotFound})
  BY <1>3, <1>15
<1> QED
  BY <1>4, <1>6, <1>9, <1>10, <1>11, <1>12, <1>13, <1>14, <1>15 DEF HandledBy

(* A request the handler does not survive is one of those that are named.      *)
LEMMA HandlersSurvive ==
    ASSUME NEW parsed, NEW op, parsed.path = <<"/", op>>,
           NEW outcome \in Handled(parsed), outcome.answer = {}
    PROVE  Fatal(op, [n \in Names |-> Query(parsed, n)])
<1> DEFINE value == [n \in Names |-> Query(parsed, n)]
<1>1. /\ value.match = Query(parsed, "match") /\ value.expand = Query(parsed, "expand")
      /\ value.enabled = Query(parsed, "enabled") /\ value.columns = Query(parsed, "columns")
  BY DEF Names
<1>2. \A ask, replies : outcome \notin Outcome(ask, replies)
  BY DEF Outcome
<1>3. outcome \notin Rejected
  BY <1>2 DEF Rejected
<1>4. HandledBy(outcome, parsed)
  BY HandlerOf
<1> HIDE DEF value
<1>5. CASE parsed.path = <<"/", "add">> /\
           outcome \in HandleAdd(Query(parsed, "match"), Query(parsed, "expand"),
                                 Query(parsed, "enabled"), Query(parsed, "group"))
  <2>1. op = "add"
    BY <1>5
  <2>2. \/ Query(parsed, "match") = {} \/ Query(parsed, "expand") = {}
        \/ Query(parsed, "enabled") \notin Booleans
    BY <1>2, <1>5, AddOutcome
  <2> QED
    BY <1>1, <2>1, <2>2 DEF Fatal, value
<1>6. CASE /\ parsed.path = <<"/", "list">>
           /\ outcome \in HandleList(Query(parsed, "columns"), Query(parsed, "condition"))
  <2>1. op = "list"
    BY <1>6
  <2>2. Query(parsed, "columns") # {}
    BY <1>2, <1>6, ListOutcome
  <2> QED
    BY <1>1, <2>1, <2>2 DEF Fatal, value
<1>7. CASE /\ parsed.path = <<"/", "config">>
           /\ outcome \in HandleConfig(Identified(parsed), Query(parsed, "enabled"))
  <2>1. op = "config"
    BY <1>7
  <2>2. Query(parsed, "enabled") = {}
    BY <1>2, <1>3, <1>7, ConfigOutcome
  <2> QED
    BY <1>1, <2>1, <2>2 DEF Fatal, value
<1>8. \A identified : outcome \notin HandleRemove(identified)
  BY <1>2, <1>3, RemoveOutcome
<1> QED
  BY <1>2, <1>3, <1>4, <1>5, <1>6, <1>7, <1>8 DEF HandledBy

-----------------------------------------------------------------------------
(* What is meant                                                               *)

(* A call means what its parameters say.                                       *)
LEMMA CallMeans ==
    ASSUME NEW c, call = {c}, NEW op, c.path = <<"/", op>>
    PROVE  OpMeant = op /\ ValuesMeant = [n \in Names |-> Legible(ValuesOf(c.params, n))]
<1>1. (CHOOSE d \in call : TRUE) = c /\ call # {} /\ c.path[2] = op
  OBVIOUS
<1>2. ValuesOfCall = [n \in Names |-> Legible(ValuesOf(c.params, n))]
  <2> DEFINE d == CHOOSE d \in call : TRUE
  <2>1. ValuesOfCall = [n \in Names |-> Legible(ValuesOf(d.params, n))]
    BY DEF ValuesOfCall, ValuesOf, ValuesIn
  <2>2. d = c
    BY <1>1
  <2> HIDE DEF d
  <2> QED
    BY <2>1, <2>2
<1>3. OpMeant = op
  BY <1>1 DEF OpMeant
<1> QED
  BY <1>1, <1>2, <1>3 DEF ValuesMeant

\* What the arguments give for a parameter, once they are read
GivenFor(n) ==
    CASE command = "add" /\ n = "match" -> {positionals[1]}
      [] command = "add" /\ n = "expand" -> {positionals[2]}
      [] command = "add" /\ n = "enabled" -> options[1].value
      [] command = "add" /\ n = "group" -> options[2].value
      [] command = "remove" /\ n = "id" -> IF options[1].found THEN {positionals[1]} ELSE {}
      [] command = "remove" /\ n = "group" ->
           IF ~options[1].found /\ options[2].found THEN {positionals[1]} ELSE {}
      [] command = "remove" /\ n = "match" ->
           IF ~options[1].found /\ ~options[2].found THEN {positionals[1]} ELSE {}
      [] command = "list" /\ n = "columns" -> options[1].value
      [] command = "list" /\ n = "condition" -> options[2].value
      [] OTHER -> {}

(* What the arguments mean is what was read from them.                         *)
LEMMA ArgumentsMean ==
    ASSUME ReadAsWritten, status = "args", command \in SubCommands \ {"config"}, call = {}
    PROVE  OpMeant = command /\ ValuesMeant = [n \in Names |-> Legible(GivenFor(n))]
<1> DEFINE name == CommandOf(argv)
           args == Rest(argv)
           pos == InOrder(PositionalsOf(name, args), args)
           option(k) == ValueOf(name, k, args)
           found(k) == GivenIn(name, k, args)
           given(n) ==
               CASE name = "add" /\ n = "match" -> {pos[1]}
                 [] name = "add" /\ n = "expand" -> {pos[2]}
                 [] name = "add" /\ n = "enabled" -> option(1)
                 [] name = "add" /\ n = "group" -> option(2)
                 [] name \in {"remove", "config"} /\ n = By(name, args) -> {pos[1]}
                 [] name = "config" /\ n = "enabled" -> option(3)
                 [] name = "list" /\ n = "columns" -> option(1)
                 [] name = "list" /\ n = "condition" -> option(2)
                 [] OTHER -> {}
<1>1. ValuesOfArguments = [n \in Names |-> Legible(given(n))] /\ OpMeant = name
  BY DEF ValuesOfArguments, OpMeant
<1>2. /\ command = name /\ positionals = pos
      /\ \A k \in DOMAIN Options[name] :
            options[k] = [found |-> found(k), value |-> option(k)]
  BY DEF ReadAsWritten
<1> HIDE DEF name, args, pos, option, found
<1>3. name \in {"add", "remove", "close", "list"}
  BY <1>2 DEF SubCommands, Options
<1>4. name \in {"add", "remove", "list"} => DOMAIN Options[name] = {1, 2}
  BY DEF Options
<1>5. name \in {"add", "remove", "list"} =>
        /\ options[1].value = option(1) /\ options[2].value = option(2)
        /\ options[1].found = found(1) /\ options[2].found = found(2)
  <2> SUFFICES ASSUME name \in {"add", "remove", "list"}, NEW k \in {1, 2}
               PROVE  options[k].value = option(k) /\ options[k].found = found(k)
    OBVIOUS
  <2>1. k \in DOMAIN Options[name]
    BY <1>4
  <2>2. options[k] = [found |-> found(k), value |-> option(k)]
    BY <1>2, <2>1
  <2> QED
    BY <2>2
<1>6. ASSUME NEW n \in Names PROVE given(n) = GivenFor(n)
  <2>1. CASE name = "add"
    BY <1>2, <1>5, <2>1 DEF GivenFor
  <2>2. CASE name = "list"
    BY <1>2, <1>5, <2>2 DEF GivenFor
  <2>3. CASE name = "close"
    BY <1>2, <2>3 DEF GivenFor
  <2>4. CASE name = "remove"
    <3>1. given(n) = IF n = By(name, args) THEN {positionals[1]} ELSE {}
      BY <1>2, <2>4
    <3>2. By(name, args) = IF options[1].found THEN "id"
                           ELSE IF options[2].found THEN "group" ELSE "match"
      <4>1. CASE found(1)
        BY <1>5, <2>4, <4>1 DEF By, found
      <4>2. CASE ~found(1) /\ found(2)
        BY <1>5, <2>4, <4>2 DEF By, found
      <4>3. CASE ~found(1) /\ ~found(2)
        BY <1>5, <2>4, <4>3 DEF By, found
      <4> QED
        BY <4>1, <4>2, <4>3
    <3>3. GivenFor(n) = IF n = (IF options[1].found THEN "id"
                                ELSE IF options[2].found THEN "group" ELSE "match")
                        THEN {positionals[1]} ELSE {}
      BY <1>2, <2>4 DEF GivenFor
    <3> QED
      BY <3>1, <3>2, <3>3
  <2> QED
    BY <1>3, <2>1, <2>2, <2>3, <2>4
<1> HIDE DEF given
<1>7. [n \in Names |-> Legible(given(n))] = [n \in Names |-> Legible(GivenFor(n))]
  BY <1>6
<1> QED
  BY <1>1, <1>2, <1>7 DEF ValuesMeant

LEMMA ValuesAre ==
    ASSUME NEW n
    PROVE  /\ ValuesIn({}, n) = {}
           /\ \A S, T : ValuesIn(S \cup T, n) = ValuesIn(S, n) \cup ValuesIn(T, n)
           /\ \A name, values : ValuesIn(Each(name, values), n) = IF n = name THEN values ELSE {}
<1>1. \A name, v : Param(name, v).name = <<name>> /\ Param(name, v).value = v
  BY DEF Param
<1>2. ASSUME NEW name, NEW values
      PROVE  ValuesIn(Each(name, values), n) = IF n = name THEN values ELSE {}
  <2>1. CASE n = name
    BY <1>1, <2>1, ZenonT(30) DEF ValuesIn, Each
  <2>2. CASE n # name
    BY <1>1, <2>2 DEF ValuesIn, Each
  <2> QED
    BY <2>1, <2>2
<1>3. \A S, T : ValuesIn(S \cup T, n) = ValuesIn(S, n) \cup ValuesIn(T, n)
  BY DEF ValuesIn
<1> QED
  BY <1>2, <1>3 DEF ValuesIn

(* What is sent is what was read.                                              *)
LEMMA ParametersGive ==
    ASSUME ReadShape, status = "args", command \in SubCommands \ {"config"}, NEW n \in Names
    PROVE  ValuesOf(Parameters, n) = GivenFor(n)
<1> DEFINE Values(S) == ValuesIn(S, n)
<1>1. ToSet(Parameters) = Each("token", {<<Token>>}) \cup Sends
  <2>1. Each("token", {<<Token>>}) = {Param("token", <<Token>>)}
    BY DEF Each
  <2> QED
    BY <2>1, ParametersAre
<1>2. \A S, T : Values(S \cup T) = Values(S) \cup Values(T)
  BY ValuesAre
<1>3. \A name, values : Values(Each(name, values)) = IF n = name THEN values ELSE {}
  BY ValuesAre
<1>4. \A name, v : {Param(name, v)} = Each(name, {v})
  BY DEF Each
<1>5. ValuesOf(Parameters, n) = Values(ToSet(Parameters))
  BY DEF ValuesOf
<1>6. n \in {"match", "expand", "enabled", "enable", "group", "id", "columns", "condition"}
  BY DEF Names
<1>7. Values({}) = {}
  BY ValuesAre
<1> HIDE DEF Values
<1>8. ValuesOf(Parameters, n) = Values(Sends)
  <2>1. Values(Each("token", {<<Token>>})) = {}
    BY <1>3, <1>6
  <2>2. Values(ToSet(Parameters)) = Values(Each("token", {<<Token>>})) \cup Values(Sends)
    BY <1>1, <1>2
  <2> QED
    BY <1>5, <2>1, <2>2
<1>9. CASE command = "add"
  <2>1. Get("enable") = options[1].value /\ Get("group") = options[2].value
    BY <1>9, Indices DEF Get
  <2>2. Sends = Each("match", {positionals[1]}) \cup Each("expand", {positionals[2]})
                  \cup Each("enabled", options[1].value) \cup Each("group", options[2].value)
    BY <1>9, <2>1 DEF Sends, Each
  <2>3. Values(Sends) = (IF n = "match" THEN {positionals[1]} ELSE {})
                          \cup (IF n = "expand" THEN {positionals[2]} ELSE {})
                          \cup (IF n = "enabled" THEN options[1].value ELSE {})
                          \cup (IF n = "group" THEN options[2].value ELSE {})
    <3>1. Values(Sends) = Values(Each("match", {positionals[1]}))
                            \cup Values(Each("expand", {positionals[2]}))
                            \cup Values(Each("enabled", options[1].value))
                            \cup Values(Each("group", options[2].value))
      <4> DEFINE a == Each("match", {positionals[1]})
                 b == Each("expand", {positionals[2]})
                 c == Each("enabled", options[1].value)
                 d == Each("group", options[2].value)
      <4>1. Sends = ((a \cup b) \cup c) \cup d
        BY <2>2
      <4> HIDE DEF a, b, c, d
      <4>2. Values(Sends) = Values((a \cup b) \cup c) \cup Values(d)
        BY <1>2, <4>1
      <4>3. /\ Values((a \cup b) \cup c) = Values(a \cup b) \cup Values(c)
            /\ Values(a \cup b) = Values(a) \cup Values(b)
        BY <1>2
      <4> QED
        BY <4>2, <4>3 DEF a, b, c, d
    <3> QED
      BY <1>3, <3>1
  <2> QED
    BY <1>6, <1>8, <1>9, <2>3 DEF GivenFor
<1>10. CASE command = "list"
  <2>1. Get("columns") = options[1].value /\ Get("where") = options[2].value
    BY <1>10, Indices DEF Get
  <2>2. Sends = Each("columns", options[1].value) \cup Each("condition", options[2].value)
    BY <1>10, <2>1 DEF Sends, Each
  <2>3. Values(Sends) = (IF n = "columns" THEN options[1].value ELSE {})
                          \cup (IF n = "condition" THEN options[2].value ELSE {})
    BY <1>2, <1>3, <2>2, SMTT(30)
  <2> QED
    BY <1>6, <1>8, <1>10, <2>3 DEF GivenFor
<1>11. CASE command = "remove"
  <2>1. Found("id") = options[1].found /\ Found("group") = options[2].found
    BY <1>11, Indices DEF Found
  <2> DEFINE by == IF options[1].found THEN "id" ELSE IF options[2].found THEN "group" ELSE "match"
  <2>2. Identifier = Param(by, positionals[1])
    BY <2>1 DEF Identifier
  <2>3. Sends = Each(by, {positionals[1]})
    BY <1>4, <1>11, <2>2 DEF Sends
  <2> HIDE DEF by
  <2>4. Values(Sends) = IF n = by THEN {positionals[1]} ELSE {}
    BY <1>3, <2>3
  <2> QED
    BY <1>6, <1>8, <1>11, <2>4 DEF GivenFor, by
<1>12. CASE command = "close"
  <2>1. Sends = {}
    BY <1>12 DEF Sends
  <2> QED
    BY <1>7, <1>8, <1>12, <2>1 DEF GivenFor
<1>13. command \in {"add", "remove", "close", "list"}
  BY DEF SubCommands, Options
<1> QED
  BY <1>9, <1>10, <1>11, <1>12, <1>13

-----------------------------------------------------------------------------
(* What is done                                                                *)

(* A request is taken apart only when it is whole, and is then what was sent.  *)
LEMMA Understood ==
    ASSUME RequestInv, server = "parsing"
    PROVE  \E op \in Words, params \in Seq(Params) :
             /\ Clear(params) /\ sent = {[path |-> <<"/", op>>, params |-> params]}
             /\ Parsed(Received(request)) # Refused => Parsed(Received(request)).path = <<"/", op>>
             /\ ~EmptySent =>
                  /\ Parsed(Received(request)) # Refused =>
                       Parsed(Received(request)).queries =
                         [i \in 1 .. Len(params) |-> Legibly(params[i])]
                  /\ AtOnce(request) => Parsed(Received(request)) # Refused
<1>1. PICK op \in Words, params \in Seq(Params) :
          /\ Clear(params) /\ sent = {[path |-> <<"/", op>>, params |-> params]}
          /\ request.message = RequestOf(Built(<<"/", op>>, params))
  BY DEF RequestInv, RequestSent
<1> DEFINE text == request.message
           taken == CHOOSE queries \in Queries(Parts(params)) : TRUE
<1>2. /\ text \in Seq(Lexical) /\ Len(text) \in Nat /\ request.read \in 0 .. Len(text)
  BY LenProperties DEF RequestInv, RequestShape
<1>3. Received(request) = SubSeq(text, 1, request.read) /\ SubSeq(text, 1, Len(text)) = text
  BY <1>1, RequestIs DEF Received
<1>4. Parsed(Received(request)) # Refused => request.read = Len(text)
  BY <1>1, <1>2, <1>3, RequestIs
<1>5. Parsed(text) = IF Queries(Parts(params)) # {}
                     THEN [path |-> <<"/", op>>, queries |-> taken] ELSE Refused
  BY <1>1, ParsedIs
<1>6. Parsed(Received(request)) # Refused => Parsed(Received(request)) = Parsed(text)
  BY <1>3, <1>4
<1>7. Parsed(Received(request)) # Refused => Parsed(Received(request)).path = <<"/", op>>
  BY <1>5, <1>6
<1>8. ASSUME ~EmptySent
      PROVE  /\ Parsed(text) = [path |-> <<"/", op>>,
                                queries |-> [i \in 1 .. Len(params) |-> Legibly(params[i])]]
             /\ Parsed(text) # Refused
  <2>1. \A i \in DOMAIN params : params[i].value # <<>>
    <3>1. \A p \in ToSet(params) : p.value # <<>>
      BY <1>1, <1>8 DEF EmptySent
    <3> QED
      BY <3>1 DEF ToSet
  <2> DEFINE read == [i \in 1 .. Len(params) |-> Legibly(params[i])]
  <2>2. Queries(Parts(params)) = {read}
    BY <2>1, QueriesAre
  <2> HIDE DEF read
  <2>3. Queries(Parts(params)) # {} /\ taken = read
    BY <2>2
  <2> HIDE DEF taken
  <2>4. Parsed(text) = [path |-> <<"/", op>>, queries |-> read]
    BY <1>5, <2>3
  <2>5. [path |-> <<"/", op>>, queries |-> read] # Refused
    <3>1. [path |-> <<"/", op>>, queries |-> read].path = <<"/", op>> /\ Refused.path = <<>>
      BY DEF Refused
    <3>2. <<"/", op>> # <<>>
      OBVIOUS
    <3> QED
      BY <3>1, <3>2
  <2> QED
    BY <2>4, <2>5 DEF read
<1>9. AtOnce(request) => Received(request) = text
  <2> SUFFICES ASSUME AtOnce(request) PROVE Received(request) = text
    OBVIOUS
  <2>1. request.read = request.arrived
    BY DEF RequestInv, RequestLooked
  <2>2. request.arrived = Len(text)
    BY DEF AtOnce
  <2> QED
    BY <1>3, <2>1, <2>2
<1>10. ~EmptySent => /\ Parsed(Received(request)) # Refused =>
                          Parsed(Received(request)).queries =
                            [i \in 1 .. Len(params) |-> Legibly(params[i])]
                     /\ AtOnce(request) => Parsed(Received(request)) # Refused
  <2> SUFFICES ASSUME ~EmptySent
               PROVE  /\ Parsed(Received(request)) # Refused =>
                           Parsed(Received(request)).queries =
                             [i \in 1 .. Len(params) |-> Legibly(params[i])]
                      /\ AtOnce(request) => Parsed(Received(request)) # Refused
    OBVIOUS
  <2> HIDE DEF text
  <2>1. Parsed(Received(request)) # Refused =>
          Parsed(Received(request)).queries = [i \in 1 .. Len(params) |-> Legibly(params[i])]
    BY <1>6, <1>8
  <2>2. AtOnce(request) => Parsed(Received(request)) # Refused
    BY <1>8, <1>9
  <2> QED
    BY <2>1, <2>2
<1> QED
  BY <1>1, <1>7, <1>10

\* A request says what it is made of.
Says(path, params) == sent = {[path |-> path, params |-> params]}

LEMMA SameSent ==
    \A a, b, c, d : Says(a, b) /\ Says(c, d) => a = c /\ b = d
<1> SUFFICES ASSUME NEW a, NEW b, NEW c, NEW d, Says(a, b), Says(c, d) PROVE a = c /\ b = d
  OBVIOUS
<1> DEFINE one == [path |-> a, params |-> b]
           other == [path |-> c, params |-> d]
<1>1. one.path = a /\ one.params = b /\ other.path = c /\ other.params = d
  OBVIOUS
<1>2. sent = {one} /\ sent = {other}
  BY DEF Says
<1> HIDE DEF one, other
<1>3. one = other
  BY <1>2
<1> QED
  BY <1>1, <1>3

\* What arguments mean, whoever reads them
LEMMA MeantKept ==
    ASSUME UNCHANGED <<argv, call>>
    PROVE  Meant' = Meant /\ OpMeant' = OpMeant /\ ValuesMeant' = ValuesMeant
BY DEF Meant, OpMeant, ValuesMeant, ValuesOfArguments, ValuesOfCall

(* What the handler finds in the request is what was meant.                    *)
LEMMA ReadIsMeant ==
    ASSUME ArgumentsInv, ReadShape, RequestInv, ~EmptySent, server = "parsing",
           Parsed(Received(request)) # Refused,
           OneFlagEach /\ (command = "config" => call # {}),
           NEW parsed, parsed = Parsed(Received(request))
    PROVE  /\ parsed.path = <<"/", OpMeant>>
           /\ \A n \in Names : OneAtMost(Query(parsed, n))
           /\ ValuesMeant = [n \in Names |-> Query(parsed, n)]
<1>1. PICK op \in Words, params \in Seq(Params) :
          /\ Clear(params) /\ sent = {[path |-> <<"/", op>>, params |-> params]}
          /\ parsed.path = <<"/", op>>
          /\ parsed.queries = [i \in 1 .. Len(params) |-> Legibly(params[i])]
  BY Understood
<1>2. \A n : /\ Query(parsed, n) = Legible(ValuesOf(params, n))
             /\ OneAtMost(Query(parsed, n))
  BY <1>1, QueryIs
<1>4. [n \in Names |-> Query(parsed, n)] = [n \in Names |-> Legible(ValuesOf(params, n))]
  BY <1>2
<1>5. CASE call # {}
  <2>1. PICK c : call = {c} /\ sent = {[path |-> c.path, params |-> c.params]}
    BY <1>1, <1>5 DEF RequestInv, RequestSent, SentBy
  <2>2. c.path = <<"/", op>> /\ c.params = params
    <3> DEFINE path == <<"/", op>>
    <3>1. Says(path, params) /\ Says(c.path, c.params)
      BY <1>1, <2>1 DEF Says
    <3> HIDE DEF path
    <3>2. c.path = path /\ c.params = params
      BY <3>1, SameSent
    <3> QED
      BY <3>2 DEF path
  <2> QED
    BY <1>1, <1>2, <1>4, <2>1, <2>2, CallMeans
<1>6. CASE call = {}
  <2>1. /\ status = "args" /\ command \in SubCommands /\ command # "config"
        /\ sent = {[path |-> Path, params |-> Parameters]}
    BY <1>1, <1>6 DEF RequestInv, RequestSent, SentBy
  <2>2. op = command /\ params = Parameters
    <3> DEFINE path == <<"/", op>>
    <3>0. Says(path, params) /\ Says(Path, Parameters)
      BY <1>1, <2>1 DEF Says
    <3> HIDE DEF path
    <3>1. path = Path /\ params = Parameters
      BY <3>0, SameSent
    <3>2. Path = <<"/", command>>
      BY <2>1, PathIs
    <3> QED
      BY <3>1, <3>2 DEF path
  <2>3. ReadAsWritten
    BY <2>1 DEF ArgumentsInv
  <2>4. OpMeant = command /\ ValuesMeant = [n \in Names |-> Legible(GivenFor(n))]
    BY <1>6, <2>1, <2>3, ArgumentsMean
  <2>5. \A n \in Names : ValuesOf(Parameters, n) = GivenFor(n)
    BY <2>1, ParametersGive
  <2>6. [n \in Names |-> Legible(ValuesOf(params, n))] = [n \in Names |-> Legible(GivenFor(n))]
    BY <2>2, <2>5
  <2> QED
    BY <1>1, <1>2, <1>4, <2>2, <2>4, <2>6
<1> QED
  BY <1>5, <1>6

(* So it asks for what was meant, and fails only where that is named.          *)
LEMMA AskedIsMeant ==
    ASSUME ArgumentsInv, ReadShape, RequestInv, ~EmptySent, server = "parsing",
           Parsed(Received(request)) # Refused,
           OneFlagEach /\ (command = "config" => call # {}),
           NEW outcome \in Handled(Parsed(Received(request)))
    PROVE  /\ \A ask \in outcome.asked : ask = Meant
           /\ outcome.answer = {} => Fatal(OpMeant, ValuesMeant)
<1> DEFINE parsed == Parsed(Received(request))
<1>1. /\ parsed.path = <<"/", OpMeant>>
      /\ \A n \in Names : OneAtMost(Query(parsed, n))
      /\ ValuesMeant = [n \in Names |-> Query(parsed, n)]
  BY ReadIsMeant
<1>2. outcome \in Handled(parsed)
  OBVIOUS
<1> HIDE DEF parsed
<1>3. ASSUME NEW ask \in outcome.asked
      PROVE  ask = Wanted(OpMeant, [n \in Names |-> Query(parsed, n)])
  BY <1>1, <1>2, HandlersAsk
<1>4. outcome.answer = {} => Fatal(OpMeant, [n \in Names |-> Query(parsed, n)])
  BY <1>1, <1>2, HandlersSurvive
<1> QED
  BY <1>1, <1>3, <1>4 DEF Meant

(* The invariant of what is done is kept by the handler.                       *)
LEMMA AskedByHandle ==
    ASSUME ArgumentsInv, ReadShape, RequestInv, AskedInv, Handle
    PROVE  AskedInv'
<1> DEFINE parsed == Parsed(Received(request))
<1>1. /\ server = "parsing" /\ parsed # Refused /\ UNCHANGED <<clientSide, request>>
      /\ server' \in {"ended", "crashed"}
  BY DEF Handle, ServerGoes
<1>2. UNCHANGED <<argv, command, call, sent>>
  BY <1>1 DEF clientSide, arguments
<1>3. PICK outcome \in Handled(parsed) :
          /\ asked' = outcome.asked
          /\ outcome.answer = {} => server' = "crashed" /\ answer' = answer
          /\ outcome.answer # {} =>
               server' = "ended" /\ \E reply \in outcome.answer : answer' = {reply}
  BY DEF Handle, ServerGoes, Answers
<1>4. answer = {} /\ asked = {}
  BY <1>1 DEF AskedInv
<1>5. request'.pieces > 0
  BY <1>1 DEF RequestInv, RequestLooked
<1>6. \A reply \in answer' : reply \in outcome.answer
  BY <1>3, <1>4
<1>7. answer' # {BadFormat}
  <2>1. \A reply \in answer' : reply.status \in {"200", "400"}
    BY <1>3, <1>6, HandlersAnswer DEF Fair
  <2>2. BadFormat.status = "504"
    BY DEF BadFormat, Reply
  <2> QED
    BY <2>1, <2>2
<1>8. server' = "ended" /\ call' = {} =>
        \E reply \in answer' : \/ reply.status = "504" \/ reply = BadRequest
                               \/ reply.status = "200" /\ asked' # {}
  <2> SUFFICES ASSUME server' = "ended", call = {}
               PROVE  \E reply \in answer' : \/ reply.status = "504" \/ reply = BadRequest
                                             \/ reply.status = "200" /\ asked' # {}
    BY <1>2
  <2>1. PICK reply \in outcome.answer : answer' = {reply}
    BY <1>3
  <2>2. PICK op \in Words, params \in Seq(Params) :
          sent = {[path |-> <<"/", op>>, params |-> params]} /\ parsed.path = <<"/", op>>
    BY <1>1, Understood
  <2>3. sent = {[path |-> Path, params |-> Parameters]} /\ command \in SubCommands
    BY <2>2 DEF RequestInv, RequestSent, SentBy
  <2>4. Path = <<"/", op>>
    <3>1. Says(<<"/", op>>, params) /\ Says(Path, Parameters)
      BY <2>2, <2>3 DEF Says
    <3> QED
      BY <3>1, SameSent
  <2>5. op \in {"add", "remove", "close", "list"}
    BY <2>3, <2>4, PathIs
  <2>6. Fair(reply) /\ (outcome.asked # {} \/ reply = BadRequest)
    BY <1>3, <2>1, <2>2, <2>5, HandlersAnswer
  <2> QED
    BY <1>3, <2>1, <2>6 DEF Fair
<1>9. EmptySent' = EmptySent /\ OneFlagEach' = OneFlagEach
  BY <1>2 DEF EmptySent, OneFlagEach
<1>10. Meant' = Meant /\ OpMeant' = OpMeant /\ ValuesMeant' = ValuesMeant
  BY <1>2, MeantKept
<1>11. AskedAsMeant'
  <2>1. ASSUME ~EmptySent, OneFlagEach /\ (command = "config" => call # {})
        PROVE  /\ \A ask \in outcome.asked : ask = Meant
               /\ outcome.answer = {} => Fatal(OpMeant, ValuesMeant)
    BY <1>1, <1>3, <2>1, AskedIsMeant
  <2>2. Fatal(OpMeant, ValuesMeant)' = Fatal(OpMeant, ValuesMeant)
    BY <1>10 DEF Fatal
  <2>3. server' = "crashed" => outcome.answer = {}
    BY <1>3
  <2> QED
    BY <1>2, <1>3, <1>7, <1>9, <1>10, <2>1, <2>2, <2>3 DEF AskedAsMeant
<1> QED
  BY <1>1, <1>7, <1>8, <1>11 DEF AskedInv

(* A request that cannot be read is one with an empty value, or came in pieces. *)
LEMMA AskedByRefusal ==
    ASSUME RequestInv, AskedInv, RefuseFormat
    PROVE  AskedInv'
<1>1. /\ server = "parsing" /\ server' = "ended" /\ Parsed(Received(request)) = Refused
      /\ answer' = {BadFormat} /\ UNCHANGED <<clientSide, request, asked>>
  BY DEF RefuseFormat, ServerGoes, Answers
<1>2. UNCHANGED <<argv, command, call, sent>> /\ asked' = {}
  BY <1>1 DEF clientSide, arguments, AskedInv
<1>3. request'.pieces > 0
  BY <1>1 DEF RequestInv, RequestLooked
<1>4. \E reply \in answer' : reply.status = "504"
  <2>1. BadFormat.status = "504"
    BY DEF BadFormat, Reply
  <2> QED
    BY <1>1, <2>1
<1>5. ~EmptySent => ~AtOnce(request)
  BY <1>1, Understood
<1>6. EmptySent' = EmptySent /\ AtOnce(request)' = AtOnce(request)
  BY <1>1, <1>2 DEF EmptySent, AtOnce
<1>7. AskedAsMeant'
  <2>1. server' # "crashed"
    BY <1>1
  <2>2. ~EmptySent' => ~AtOnce(request)'
    BY <1>5, <1>6
  <2> QED
    BY <1>2, <2>1, <2>2 DEF AskedAsMeant
<1> QED
  BY <1>1, <1>2, <1>3, <1>4, <1>7 DEF AskedInv

\* As long as the server has not come to the request, it has done nothing.
LEMMA AskedNothing ==
    ASSUME server' \notin {"ended", "crashed"}, asked' = {}, answer' = {}
    PROVE  AskedInv'
BY DEF AskedInv, AskedAsMeant

(* Nothing that happens to the client or on the way changes what was meant.    *)
LEMMA AskedKept ==
    ASSUME RequestInv, AskedInv, sent # {},
           UNCHANGED <<arguments, call, sent, server, asked, answer>>,
           \/ request' = request \/ request' = [request EXCEPT !.closed = TRUE]
           \/ RequestInv' /\ request'.pieces = request.pieces + 1
    PROVE  AskedInv'
<1>1. UNCHANGED <<argv, command>>
  BY DEF arguments
<1>2. EmptySent' = EmptySent /\ OneFlagEach' = OneFlagEach /\ Meant' = Meant
      /\ Fatal(OpMeant, ValuesMeant)' = Fatal(OpMeant, ValuesMeant)
  BY <1>1, MeantKept DEF EmptySent, OneFlagEach, Fatal
<1>3. request.pieces \in Nat
  BY DEF RequestInv, RequestShape
<1>4. \/ AtOnce(request') = AtOnce(request) /\ request'.pieces = request.pieces
      \/ request'.pieces = request.pieces + 1
  BY DEF RequestInv, RequestShape, AtOnce
<1>5. answer' = {BadFormat} => request'.pieces > 0
  BY <1>3, <1>4 DEF AskedInv
<1>6. answer' = {BadFormat} /\ AtOnce(request') => AtOnce(request)
  <2> SUFFICES ASSUME answer = {BadFormat}, AtOnce(request'), request'.pieces = request.pieces + 1
               PROVE  FALSE
    BY <1>4
  <2>1. request.pieces > 0
    BY DEF AskedInv
  <2> QED
    BY <1>3, <2>1 DEF AtOnce
<1>7. AtOnce(request)' = AtOnce(request')
  BY DEF AtOnce
<1>8. AskedAsMeant'
  BY <1>1, <1>2, <1>6, <1>7 DEF AskedInv, AskedAsMeant
<1> QED
  BY <1>5, <1>8 DEF AskedInv

(* The invariant of what is done is kept by every step.                        *)
LEMMA AskedStep ==
    ASSUME AnswerInv, ArgumentsInv, ReadShape, RequestInv, AskedInv, [Next]_vars
    PROVE  AskedInv'
<1>1. CASE Client
  <2>1. UNCHANGED <<server, asked, answer>>
    BY <1>1 DEF Client, Parse, ArgumentsRefused, StartTexc, SubCommand, Send, CallApi,
                ClientTimeout, ClientPeek, ClientRead, Show, serverSide
  <2>2. CASE server \notin {"ended", "crashed"}
    BY <2>1, <2>2, AskedNothing DEF AskedInv
  <2>3. CASE server \in {"ended", "crashed"}
    <3>1. sent # {} /\ client # "arguments" /\ status \notin {"start", "parsing"}
      BY <2>3 DEF RequestInv, RequestSent, AnswerInv, InOrderDone
    <3>2. ~Parse
      BY <3>1 DEF Parse, ReadArguments, ChooseParser, ReadPositional, ReadProtected, ReadHelp,
                  ReadFlag, ReadUnknown, EndParse, Reading
    <3>3. ~ArgumentsRefused /\ ~StartTexc /\ ~SubCommand /\ ~CallApi
      BY <3>1 DEF ArgumentsRefused, StartTexc, SubCommand, CallApi, Send, ClientGoes
    <3>4. ClientTimeout \/ ClientPeek \/ ClientRead \/ Show
      BY <1>1, <3>2, <3>3 DEF Client
    <3>5. UNCHANGED <<arguments, call, sent>>
      BY <3>4 DEF ClientTimeout, ClientPeek, ClientRead, Show, serverSide
    <3>6. request' = request \/ request' = [request EXCEPT !.closed = TRUE]
      BY <3>4 DEF ClientTimeout, ClientPeek, ClientRead, Show
    <3> QED
      BY <2>1, <3>1, <3>5, <3>6, AskedKept
  <2> QED
    BY <2>2, <2>3
<1>2. CASE ServerAccept \/ ServerPeek \/ ServerRead
  <2>1. /\ server \in {"accepting", "waiting", "peeked"}
        /\ server' \in {"waiting", "peeked", "parsing"} /\ UNCHANGED <<asked, answer>>
    BY <1>2 DEF ServerAccept, ServerPeek, ServerRead, ServerGoes
  <2> QED
    BY <2>1, AskedNothing DEF AskedInv
<1>3. CASE ServerTimeout
  <2> DEFINE late == Reply("504", <<"Timeout">>)
  <2>1. /\ server = "waiting" /\ server' = "ended" /\ answer' = {late}
        /\ UNCHANGED <<clientSide, request, asked>>
    BY <1>3 DEF ServerTimeout, ServerGoes, Answers
  <2>2. late.status = "504" /\ late # BadFormat
    <3>1. late.status = "504" /\ late.body = <<"Timeout">> /\ BadFormat.body = <<"format">>
      BY DEF BadFormat, Reply
    <3>2. late.body[1] = "Timeout" /\ BadFormat.body[1] = "format"
      BY <3>1
    <3> QED
      BY <3>1, <3>2
  <2> HIDE DEF late
  <2>3. answer' # {BadFormat} /\ asked' = {}
    BY <2>1, <2>2 DEF AskedInv
  <2> QED
    BY <2>1, <2>2, <2>3 DEF AskedInv, AskedAsMeant
<1>4. CASE RefuseFormat
  BY <1>4, AskedByRefusal
<1>5. CASE Handle
  BY <1>5, AskedByHandle
<1>6. ASSUME UNCHANGED <<clientSide, server, asked, answer>>,
             request' = request \/ request' \in Delivered(request)
      PROVE  AskedInv'
  <2>1. UNCHANGED <<arguments, call, sent, server, asked, answer>>
    BY <1>6 DEF clientSide
  <2>2. CASE server \notin {"ended", "crashed"}
    BY <2>1, <2>2, AskedNothing DEF AskedInv
  <2>3. CASE server \in {"ended", "crashed"}
    <3>1. sent # {}
      BY <2>3 DEF RequestInv, RequestSent
    <3>2. request' = request \/ (RequestInv' /\ request'.pieces = request.pieces + 1)
      BY <1>6, <2>1, RequestDelivered DEF clientSide
    <3> QED
      BY <2>1, <3>1, <3>2, AskedKept
  <2> QED
    BY <2>2, <2>3
<1>7. CASE Network
  BY <1>6, <1>7 DEF Network
<1>8. CASE UNCHANGED vars
  BY <1>6, <1>8 DEF vars, clientSide
<1> QED
  BY <1>1, <1>2, <1>3, <1>4, <1>5, <1>7, <1>8 DEF Next, Server

-----------------------------------------------------------------------------
(* What the client ends with                                                   *)

(* What was read of an answer with a blank line in it has its status.          *)
LEMMA StatusRead ==
    ASSUME AnswerInv, Contains(Received(response), BlankLine)
    PROVE  /\ server = "ended"
           /\ \E reply \in Replies : answer = {reply} /\ Received(response)[1] = reply.status
<1> DEFINE text == Received(response)
<1>1. /\ response.read \in Nat /\ response.read <= Len(response.message)
      /\ Len(response.message) \in Nat
      /\ text = SubSeq(response.message, 1, response.read)
  <2>1. /\ response.read \in Nat /\ response.arrived \in Nat
        /\ response.message \in Seq(Lexemes \cup {BlankLine})
        /\ response.read <= response.arrived /\ response.arrived <= Len(response.message)
    BY DEF AnswerInv, ChannelShape
  <2>2. Len(response.message) \in Nat
    BY <2>1, LenProperties
  <2> QED
    BY <2>1, <2>2 DEF Received
<1>2. server = "ended"
  <2> SUFFICES ASSUME response.message = <<>> PROVE FALSE
    BY DEF AnswerInv, AnswerSent
  <2>1. text = <<>>
    BY <1>1
  <2> QED
    BY <2>1 DEF Contains
<1>3. PICK reply \in Replies : answer = {reply} /\ response.message = MessageOf(reply)
  BY <1>2 DEF AnswerInv, AnswerSent
<1>4. response.read >= 2
  <2>1. response.read \in 0 .. Len(MessageOf(reply))
    BY <1>1, <1>3
  <2>2. Contains(SubSeq(MessageOf(reply), 1, response.read), BlankLine)
    BY <1>1, <1>3
  <2> QED
    BY <2>1, <2>2, BodyOfPart
<1>5. text[1] = response.message[1]
  <2>1. 1 \in 1 .. response.read
    BY <1>1, <1>4
  <2>2. response.message \in Seq(Lexemes \cup {BlankLine})
    BY DEF AnswerInv, ChannelShape
  <2> QED
    BY <1>1, <2>1, <2>2
<1>6. MessageOf(reply)[1] = reply.status
  BY DEF MessageOf, Replies
<1> QED
  BY <1>2, <1>3, <1>5, <1>6

(* The client exits with what the answer says.                                 *)
LEMMA ExitByShow ==
    ASSUME AnswerInv, AskedInv, ExitInv, Show
    PROVE  ExitInv'
<1> DEFINE text == Received(response)
<1>1. /\ client = "answered" /\ UNCHANGED <<call, sent, asked, answer>>
      /\ \/ client' = "crashed" /\ exit' = exit
         \/ /\ Contains(text, BlankLine) /\ client' = "ended"
            /\ exit' = IF Errors(text) # {} THEN {1} ELSE {0}
  BY DEF Show, ExitWith, serverSide
<1>2. exit = {}
  BY <1>1 DEF ExitInv
<1>3. CASE client' = "crashed" /\ exit' = exit
  BY <1>2, <1>3 DEF ExitInv, ExitTellsTruth
<1>4. CASE /\ Contains(text, BlankLine) /\ client' = "ended"
           /\ exit' = IF Errors(text) # {} THEN {1} ELSE {0}
  <2>1. server = "ended" /\ \E reply \in Replies : answer = {reply} /\ text[1] = reply.status
    BY <1>4, StatusRead
  <2>2. PICK reply : answer = {reply} /\ text[1] = reply.status
    BY <2>1
  <2>3. Errors(text) # {} <=> reply.status = "400"
    BY <2>2 DEF Errors
  <2>4. BadRequest.status = "400"
    BY DEF BadRequest, Reply
  <2>5. call = {} => \/ reply.status = "504" \/ reply = BadRequest
                     \/ reply.status = "200" /\ asked # {}
    BY <2>1, <2>2 DEF AskedInv
  <2>6. call = {} /\ exit' = {1} => answer = {BadRequest}
    BY <1>4, <2>2, <2>3, <2>5
  <2>7. call = {} /\ exit' = {0} =>
          reply.status = "504" \/ (asked # {} /\ reply.status = "200")
    <3> SUFFICES ASSUME call = {}, exit' = {0}
                 PROVE  reply.status = "504" \/ (asked # {} /\ reply.status = "200")
      OBVIOUS
    <3>1. reply.status # "400"
      BY <1>4, <2>3
    <3> QED
      BY <2>4, <2>5, <3>1
  <2> QED
    BY <1>1, <1>4, <2>2, <2>6, <2>7 DEF ExitInv, ExitTellsTruth
<1> QED
  BY <1>1, <1>3, <1>4

(* The invariant of the exit code is kept by every step.                       *)
LEMMA ExitStep ==
    ASSUME AnswerInv, RequestInv, AskedInv, ExitInv, [Next]_vars
    PROVE  ExitInv'
<1>1. ASSUME UNCHANGED <<call, client, exit, sent, asked, answer>> PROVE ExitInv'
  BY <1>1 DEF ExitInv, ExitTellsTruth
<1>2. CASE Parse
  BY <1>1, <1>2 DEF Parse, serverSide
<1>3. CASE ArgumentsRefused \/ StartTexc \/ SubCommand \/ CallApi
  <2>1. client = "arguments"
    BY <1>3 DEF ArgumentsRefused, StartTexc, SubCommand, CallApi, Send, ClientGoes
  <2>2. exit = {} /\ sent = {}
    BY <2>1 DEF ExitInv, RequestInv, RequestSent
  <2>3. \/ client' = "ended" /\ exit' = {1} /\ sent' = sent
        \/ exit' = exit
    BY <1>3 DEF ArgumentsRefused, StartTexc, SubCommand, CallApi, Send, ExitWith
  <2> QED
    BY <2>2, <2>3 DEF ExitInv, ExitTellsTruth
<1>4. CASE ClientTimeout
  <2>1. client' = "timed out" /\ exit' = {1}
    BY <1>4 DEF ClientTimeout, ClientGoes
  <2>2. client' # "ended"
    BY <2>1, Zenon
  <2>3. exit' # {0}
    <3>1. exit' = {1}
      BY <2>1
    <3> QED
      BY <3>1
  <2> QED
    BY <2>1, <2>2, <2>3, Zenon DEF ExitInv, ExitTellsTruth
<1>5. CASE ClientPeek \/ ClientRead
  <2>1. client \in {"waiting", "peeked"} /\ exit' = exit
    BY <1>5 DEF ClientPeek, ClientRead, ClientGoes
  <2>2. exit' = {}
    BY <2>1 DEF ExitInv
  <2> QED
    BY <2>2 DEF ExitInv, ExitTellsTruth
<1>6. CASE Show
  BY <1>6, ExitByShow
<1>7. CASE Server
  <2>1. UNCHANGED <<call, client, exit, sent>> /\ server \notin {"ended", "crashed"}
    BY <1>7 DEF Server, ServerAccept, ServerTimeout, ServerPeek, ServerRead, RefuseFormat, Handle,
                ServerGoes, clientSide
  <2>2. answer = {}
    BY <2>1 DEF AskedInv
  <2>3. sent # {} /\ call = {} => exit # {0} /\ ~(client = "ended" /\ exit = {1})
    BY <2>2 DEF ExitInv, ExitTellsTruth
  <2> QED
    BY <2>1, <2>3 DEF ExitInv, ExitTellsTruth
<1>8. CASE Network
  BY <1>1, <1>8 DEF Network, clientSide
<1>9. CASE UNCHANGED vars
  BY <1>1, <1>9 DEF vars
<1> QED
  BY <1>2, <1>3, <1>4, <1>5, <1>6, <1>7, <1>8, <1>9 DEF Next, Client

-----------------------------------------------------------------------------
(* The invariant of a command                                                  *)

CommandInv == AnswerInv /\ ArgumentsInv /\ ReadShape /\ RequestInv /\ AskedInv /\ ExitInv

LEMMA CommandStarts == Init => CommandInv
<1> SUFFICES ASSUME Init PROVE CommandInv
  OBVIOUS
<1>1. /\ client = "arguments" /\ exit = {} /\ sent = {} /\ request = Idle /\ at = 1
      /\ server = "accepting" /\ asked = {} /\ answer = {} /\ positionals = <<>>
      /\ \/ argv \in Argvs /\ status = "start" /\ call = {}
         \/ argv = <<>> /\ status = "call" /\ \E c \in Calls : call = {c}
  BY DEF Init, ArgumentsInit
<1>2. ReadShape
  <2>1. argv \in Seq(Seq(Characters))
    <3>1. <<>> \in Seq(Seq(Characters))
      OBVIOUS
    <3> QED
      BY <1>1, <3>1, CommandAssumption
  <2>2. <<>> \in Seq(Seq(Characters)) /\ 1 \in Nat \ {0}
    OBVIOUS
  <2>3. status \notin {"parsing", "args"}
    BY <1>1
  <2> QED
    BY <1>1, <2>1, <2>2, <2>3 DEF ReadShape
<1>3. RequestInv
  BY <1>1 DEF RequestInv, RequestShape, RequestSent, SentBy, RequestLooked, Idle, AtOnce
<1>4. AskedInv
  BY <1>1 DEF AskedInv, AskedAsMeant
<1>5. ExitInv
  BY <1>1 DEF ExitInv, ExitTellsTruth
<1> QED
  BY <1>2, <1>3, <1>4, <1>5, AnswerStarts, ArgumentsStart DEF CommandInv

LEMMA CommandStep == CommandInv /\ [Next]_vars => CommandInv'
<1> SUFFICES ASSUME CommandInv, [Next]_vars PROVE CommandInv'
  OBVIOUS
<1>1. AnswerInv /\ ArgumentsInv /\ ReadShape /\ RequestInv /\ AskedInv /\ ExitInv
  BY DEF CommandInv
<1>2. AnswerInv'
  BY <1>1, AnswerStep
<1>3. ArgumentsInv'
  BY <1>1, OnlyParsed, ArgumentsStep, ArgumentsKept
<1>4. ReadShape'
  <2>1. UNCHANGED arguments => ReadShape'
    BY <1>1 DEF arguments, ReadShape
  <2> QED
    BY <1>1, <2>1, OnlyParsed, ReadShapeStep
<1>5. RequestInv'
  BY <1>1, RequestStep
<1>6. AskedInv'
  BY <1>1, AskedStep
<1>7. ExitInv'
  BY <1>1, ExitStep
<1> QED
  BY <1>2, <1>3, <1>4, <1>5, <1>6, <1>7 DEF CommandInv

(* The server does what the command or the call means, with every value that   *)
(* is not empty in its place, or does nothing; only the requests that Fatal    *)
(* names stop it; and a request that comes in one piece is never taken for     *)
(* unreadable: whatever the arguments and the special characters in them, and  *)
(* however long the request is.                                                *)
THEOREM AskedIsAsMeant == Spec => []AskedAsMeant
<1>1. CommandInv => AskedAsMeant
  BY DEF CommandInv, AskedInv
<1> QED
  BY <1>1, CommandStarts, CommandStep, PTL DEF Spec

(* A command that exits with 0 has had its request done, or answered as one    *)
(* that could not be read; one that exits with 1 after an answer was refused.  *)
THEOREM ExitIsTrue == Spec => []ExitTellsTruth
<1>1. CommandInv => ExitTellsTruth
  BY DEF CommandInv, ExitInv
<1> QED
  BY <1>1, CommandStarts, CommandStep, PTL DEF Spec
=============================================================================
