--------------------------- MODULE KeyHookProofs ---------------------------
(***************************************************************************)
(* Proofs about KeyBuffer, for any characters and any length of the        *)
(* buffer, and about KeyHook, for any table of expansions, any number of   *)
(* keys held and any order of the user's keys and texc's; the last part is *)
(* about KeyHook with a user who waits for texc.                           *)
(***************************************************************************)
EXTENDS KeyHook, SequenceTheorems, FiniteSetTheorems, WellFoundedInduction, TLAPS

-----------------------------------------------------------------------------
(* The buffer on its own.  It is seen as the two parts its cursor makes of it: *)
(* what an operation does to the parts is what the key does to the line.       *)

Buffer == [chars : Seq(Chars), cursor : Nat]

\* A buffer whose cursor lies on it
Proper(b) == b \in Buffer /\ b.cursor <= Size(b)

Left(b) == SubSeq(b.chars, 1, Size(b) - b.cursor)
Right(b) == SubSeq(b.chars, Size(b) - b.cursor + 1, Size(b))

-----------------------------------------------------------------------------
(* The two parts are texts, as long as the cursor says, and together they are  *)
(* the buffer.                                                                 *)
LEMMA PartsOfBuffer ==
    ASSUME NEW b, Proper(b)
    PROVE  /\ Left(b) \in Seq(Chars) /\ Right(b) \in Seq(Chars)
           /\ Len(Left(b)) = Size(b) - b.cursor /\ Len(Right(b)) = b.cursor
           /\ b.chars = Left(b) \o Right(b)
           /\ b = [chars |-> Left(b) \o Right(b), cursor |-> Len(Right(b))]
<1> DEFINE n == Size(b) - b.cursor
<1>1. b.chars \in Seq(Chars) /\ b.cursor \in Nat /\ b.cursor <= Len(b.chars)
      /\ b = [chars |-> b.chars, cursor |-> b.cursor]
  BY DEF Proper, Buffer, Size
<1>2. Len(b.chars) \in Nat /\ \A i \in 1 .. Len(b.chars) : b.chars[i] \in Chars
  BY <1>1, LenProperties, ElementOfSeq
<1>3. n \in Nat /\ n <= Len(b.chars) /\ Size(b) = Len(b.chars)
  BY <1>1, <1>2 DEF Size
<1>4. /\ SubSeq(b.chars, 1, n) \in Seq(Chars)
      /\ Len(SubSeq(b.chars, 1, n)) = n
      /\ \A i \in 1 .. n : SubSeq(b.chars, 1, n)[i] = b.chars[i]
  <2>1. \A i \in 1 .. n : b.chars[i] \in Chars
    BY <1>2, <1>3
  <2> HIDE DEF n
  <2> QED
    BY <2>1, <1>3, SubSeqProperties
<1>5. /\ SubSeq(b.chars, n + 1, Size(b)) \in Seq(Chars)
      /\ Len(SubSeq(b.chars, n + 1, Size(b))) = Size(b) - n
  <2>1. \A i \in n + 1 .. Size(b) : b.chars[i] \in Chars
    BY <1>2, <1>3
  <2> HIDE DEF n
  <2> QED
    BY <2>1, <1>2, <1>3, SubSeqProperties
<1>6. SubSeq(b.chars, 1, n) \o SubSeq(b.chars, n + 1, Size(b)) = b.chars
  <2> HIDE DEF n
  <2>1. 1 \in 1 .. Len(b.chars) + 1 /\ n \in 1 - 1 .. Len(b.chars)
        /\ Len(b.chars) \in n .. Len(b.chars)
    BY <1>2, <1>3
  <2>2. SubSeq(b.chars, 1, n) \o SubSeq(b.chars, n + 1, Len(b.chars))
          = SubSeq(b.chars, 1, Len(b.chars))
    BY <1>1, <2>1, ConcatAdjacentSubSeq
  <2> QED
    BY <1>1, <1>3, <2>2, SubSeqFull
<1>7. Size(b) - n = b.cursor
  BY <1>1, <1>2, <1>3
<1> QED
  BY <1>1, <1>4, <1>5, <1>6, <1>7 DEF Left, Right

(* The buffer made of two texts has them for its parts.                        *)
LEMMA BufferOfParts ==
    ASSUME NEW l \in Seq(Chars), NEW r \in Seq(Chars),
           NEW b, b = [chars |-> l \o r, cursor |-> Len(r)]
    PROVE  Proper(b) /\ LineOf(b) = [left |-> l, right |-> r]
<1>1. /\ l \o r \in Seq(Chars) /\ Len(l \o r) = Len(l) + Len(r)
      /\ \A i \in 1 .. Len(l) + Len(r) :
            (l \o r)[i] = IF i <= Len(l) THEN l[i] ELSE r[i - Len(l)]
  BY ConcatProperties
<1>2. Len(l) \in Nat /\ Len(r) \in Nat
  BY LenProperties
<1>3. b.chars = l \o r /\ b.cursor = Len(r) /\ Size(b) = Len(l) + Len(r)
      /\ Size(b) - b.cursor = Len(l)
  BY <1>1, <1>2 DEF Size
<1>4. Proper(b)
  BY <1>1, <1>2, <1>3 DEF Proper, Buffer
<1>5. Left(b) \in Seq(Chars) /\ Right(b) \in Seq(Chars)
      /\ Len(Left(b)) = Len(l) /\ Len(Right(b)) = Len(r)
      /\ Left(b) \o Right(b) = l \o r
  BY <1>3, <1>4, PartsOfBuffer
<1>6. \A i \in 1 .. Len(l) + Len(r) :
          (Left(b) \o Right(b))[i] = IF i <= Len(l) THEN Left(b)[i] ELSE Right(b)[i - Len(l)]
  BY <1>5, ConcatProperties
<1>7. Left(b) = l
  <2>1. ASSUME NEW i \in 1 .. Len(l) PROVE Left(b)[i] = l[i]
    <3>1. i \in 1 .. Len(l) + Len(r) /\ i <= Len(l)
      BY <1>2
    <3>2. (Left(b) \o Right(b))[i] = Left(b)[i] /\ (l \o r)[i] = l[i]
      BY <3>1, <1>1, <1>6
    <3> QED
      BY <3>2, <1>5
  <2> QED
    BY <2>1, <1>5, SeqEqual
<1>8. Right(b) = r
  <2>1. ASSUME NEW i \in 1 .. Len(r) PROVE Right(b)[i] = r[i]
    <3> DEFINE j == Len(l) + i
    <3>1. j \in 1 .. Len(l) + Len(r) /\ ~(j <= Len(l)) /\ j - Len(l) = i
      BY <1>2
    <3>2. (Left(b) \o Right(b))[j] = Right(b)[j - Len(l)] /\ (l \o r)[j] = r[j - Len(l)]
      BY <3>1, <1>1, <1>6
    <3> QED
      BY <3>1, <3>2, <1>5
  <2> QED
    BY <2>1, <1>5, SeqEqual
<1> QED
  BY <1>4, <1>7, <1>8 DEF LineOf, Left, Right
-----------------------------------------------------------------------------
(* What keybuffer_push makes of the parts                                      *)
LEMMA PushParts ==
    ASSUME NEW b, Proper(b), NEW c \in Chars
    PROVE  Pushed(b, c) = [chars |-> Append(Left(b), c) \o Right(b), cursor |-> Len(Right(b))]
<1>1. /\ Left(b) \in Seq(Chars) /\ Right(b) \in Seq(Chars)
      /\ Len(Right(b)) = b.cursor
      /\ b = [chars |-> Left(b) \o Right(b), cursor |-> Len(Right(b))]
  BY PartsOfBuffer
<1> DEFINE at == Size(b) - b.cursor + 1
<1>2. at - 1 = Size(b) - b.cursor /\ Size(b) = Len(b.chars)
  BY LenProperties DEF Proper, Buffer, Size
<1>3. InsertAt(b.chars, at, c) = Left(b) \o <<c>> \o Right(b)
  BY <1>2, Zenon DEF InsertAt, Left, Right
<1>4. Append(Left(b), c) = Left(b) \o <<c>>
  BY <1>1, AppendIsConcat
<1>5. Pushed(b, c) = [chars |-> InsertAt(b.chars, at, c), cursor |-> b.cursor]
  <2> DEFINE inserted == InsertAt(b.chars, at, c)
  <2>1. Pushed(b, c) = [b EXCEPT !.chars = inserted]
    BY Zenon DEF Pushed, PushIndex
  <2>2. b \in [chars : Seq(Chars), cursor : Nat]
    BY DEF Proper, Buffer
  <2> HIDE DEF inserted
  <2>3. [b EXCEPT !.chars = inserted] = [chars |-> inserted, cursor |-> b.cursor]
    BY ONLY <2>2
  <2> QED
    BY <2>1, <2>3, Zenon DEF inserted
<1> QED
  BY <1>1, <1>3, <1>4, <1>5, Zenon

(* keybuffer_pop takes the last character of the left part, where PopFollows.  *)
LEMMA PopParts ==
    ASSUME NEW b, Proper(b), b.chars # <<>>, PopFollows(b)
    PROVE  /\ Left(b) # <<>>
           /\ Popped(b) = [chars |-> SubSeq(Left(b), 1, Len(Left(b)) - 1) \o Right(b),
                           cursor |-> Len(Right(b))]
<1> DEFINE n == Size(b) - b.cursor
<1>1. /\ Left(b) \in Seq(Chars) /\ Right(b) \in Seq(Chars)
      /\ Len(Left(b)) = n /\ Len(Right(b)) = b.cursor
  BY PartsOfBuffer
<1>2. b.chars \in Seq(Chars) /\ b.cursor \in Nat /\ b.cursor <= Size(b) /\ Size(b) \in Nat \ {0}
  BY EmptySeq DEF Proper, Buffer, Size
<1>3. n \in Nat /\ n > 0 /\ b.cursor # Size(b) /\ PopIndex(b) = n /\ n <= Size(b)
  BY <1>2 DEF PopFollows, PopIndex
<1>4. PopCursor(b) = b.cursor
  BY <1>2 DEF PopFollows, PopCursor
<1>5. Left(b) # <<>>
  BY <1>1, <1>3, EmptySeq
<1>6. SubSeq(Left(b), 1, n - 1) = SubSeq(b.chars, 1, n - 1)
  <2> HIDE DEF n
  <2>1. CASE n = 1
    BY <2>1, SubSeqEmpty
  <2>2. CASE n > 1
    <3>1. 1 \in 1 .. Len(b.chars) /\ n \in 1 .. Len(b.chars) /\ 1 \in 1 .. n - 1 + 1
          /\ n - 1 \in 1 .. n - 1 + 1 /\ 1 + 1 - 1 = 1 /\ 1 + (n - 1) - 1 = n - 1
      BY <1>2, <1>3, <2>2 DEF Size
    <3>2. SubSeq(SubSeq(b.chars, 1, n), 1, n - 1) = SubSeq(b.chars, 1, n - 1)
      BY <3>1, <1>2, SubSeqOfSubSeq
    <3> QED
      BY <3>2 DEF Left, n
  <2> QED
    BY <2>1, <2>2, <1>3
<1>7. RemoveAt(b.chars, n) = SubSeq(b.chars, 1, n - 1) \o Right(b)
  BY DEF RemoveAt, Right, Size
<1> QED
  BY <1>1, <1>3, <1>4, <1>5, <1>6, <1>7 DEF Popped

(* A character that goes from one part to the other stays in the text.         *)
LEMMA AcrossToRight ==
    ASSUME NEW l \in Seq(Chars), NEW r \in Seq(Chars), l # <<>>
    PROVE  /\ SubSeq(l, 1, Len(l) - 1) \in Seq(Chars) /\ <<l[Len(l)]>> \o r \in Seq(Chars)
           /\ Len(<<l[Len(l)]>> \o r) = Len(r) + 1
           /\ SubSeq(l, 1, Len(l) - 1) \o (<<l[Len(l)]>> \o r) = l \o r
<1>1. Len(l) \in Nat \ {0}
  BY EmptySeq
<1>2. \A i \in 1 .. Len(l) : l[i] \in Chars
  BY ElementOfSeq
<1>3. l[Len(l)] \in Chars /\ <<l[Len(l)]>> \in Seq(Chars) /\ Len(<<l[Len(l)]>>) = 1
  BY <1>1, <1>2
<1>4. SubSeq(l, 1, Len(l) - 1) \in Seq(Chars)
  BY <1>1, <1>2, SubSeqProperties
<1>5. SubSeq(l, 1, Len(l)) = SubSeq(l, 1, Len(l) - 1) \o <<l[Len(l)]>>
  BY <1>1, SubSeqRecursiveSecond
<1>6. SubSeq(l, 1, Len(l)) = l
  BY SubSeqFull
<1>7. (SubSeq(l, 1, Len(l) - 1) \o <<l[Len(l)]>>) \o r
        = SubSeq(l, 1, Len(l) - 1) \o (<<l[Len(l)]>> \o r)
  <2> DEFINE begin == SubSeq(l, 1, Len(l) - 1)
             end == <<l[Len(l)]>>
  <2>1. begin \in Seq(Chars) /\ end \in Seq(Chars)
    BY <1>3, <1>4
  <2> HIDE DEF begin, end
  <2>2. (begin \o end) \o r = begin \o (end \o r)
    BY <2>1, ConcatAssociative
  <2> QED
    BY <2>2, Zenon DEF begin, end
<1>8. <<l[Len(l)]>> \o r \in Seq(Chars) /\ Len(<<l[Len(l)]>> \o r) = 1 + Len(r)
  BY <1>3, ConcatProperties
<1>9. Len(r) \in Nat
  BY LenProperties
<1>10. SubSeq(l, 1, Len(l) - 1) \o (<<l[Len(l)]>> \o r) = l \o r
  BY <1>5, <1>6, <1>7, Zenon
<1>11. 1 + Len(r) = Len(r) + 1
  BY <1>9
<1> QED
  BY <1>4, <1>8, <1>10, <1>11, Zenon

(* The same for a character that goes from the right part to the left one.     *)
LEMMA AcrossToLeft ==
    ASSUME NEW l \in Seq(Chars), NEW r \in Seq(Chars), r # <<>>
    PROVE  /\ Append(l, Head(r)) \in Seq(Chars) /\ Tail(r) \in Seq(Chars)
           /\ Len(Tail(r)) = Len(r) - 1
           /\ Append(l, Head(r)) \o Tail(r) = l \o r
<1>1. Head(r) \in Chars /\ Tail(r) \in Seq(Chars) /\ Len(Tail(r)) = Len(r) - 1
  BY HeadTailProperties
<1>2. Append(l, Head(r)) \in Seq(Chars) /\ Append(l, Head(r)) = l \o <<Head(r)>>
  BY <1>1, AppendProperties, AppendIsConcat
<1>3. (l \o <<Head(r)>>) \o Tail(r) = l \o (<<Head(r)>> \o Tail(r))
  <2>1. <<Head(r)>> \in Seq(Chars)
    BY <1>1
  <2> QED
    BY <2>1, <1>1, ConcatAssociative
<1>4. <<Head(r)>> \o Tail(r) = r
  <2>1. Len(r) \in Nat \ {0}
    BY EmptySeq
  <2>2. SubSeq(r, 1, Len(r)) = <<r[1]>> \o SubSeq(r, 1 + 1, Len(r))
    <3>1. 1 \in 1 .. Len(r) /\ Len(r) \in 1 .. Len(r)
      BY <2>1
    <3> QED
      BY <3>1, SubSeqRecursiveFirst
  <2>3. Tail(r) = SubSeq(r, 2, Len(r)) /\ SubSeq(r, 1, Len(r)) = r
    BY TailIsSubSeq, SubSeqFull
  <2>4. Head(r) = r[1]
    OBVIOUS
  <2> QED
    BY <2>2, <2>3, <2>4
<1> QED
  BY <1>1, <1>2, <1>3, <1>4

-----------------------------------------------------------------------------
(* Whatever is done to a proper buffer, it stays one: a pop where PopFollows    *)
(* fails is the one operation the parts do not describe.                       *)
LEMMA PoppedIsProper ==
    ASSUME NEW b, Proper(b)
    PROVE  Proper(Popped(b))
<1>1. b.chars \in Seq(Chars) /\ b.cursor \in Nat /\ b.cursor <= Len(b.chars)
      /\ Size(b) = Len(b.chars) /\ Len(b.chars) \in Nat
  BY LenProperties DEF Proper, Buffer, Size
<1>2. CASE b.chars = <<>>
  BY <1>2 DEF Popped
<1>3. CASE b.chars # <<>>
  <2> DEFINE at == PopIndex(b)
  <2>1. Len(b.chars) > 0
    BY <1>1, <1>3, EmptySeq
  <2>2. at \in 1 .. Len(b.chars)
    BY <1>1, <2>1 DEF PopIndex
  <2> HIDE DEF at
  <2>3. \A i \in 1 .. Len(b.chars) : b.chars[i] \in Chars
    BY <1>1, ElementOfSeq
  <2>4. SubSeq(b.chars, 1, at - 1) \in Seq(Chars) /\ Len(SubSeq(b.chars, 1, at - 1)) = at - 1
    BY <2>2, <2>3, <1>1, SubSeqProperties
  <2>5. /\ SubSeq(b.chars, at + 1, Len(b.chars)) \in Seq(Chars)
        /\ Len(SubSeq(b.chars, at + 1, Len(b.chars))) = Len(b.chars) - at
    BY <2>2, <2>3, <1>1, SubSeqProperties
  <2>6. /\ RemoveAt(b.chars, at) \in Seq(Chars)
        /\ Len(RemoveAt(b.chars, at)) = at - 1 + Len(b.chars) - at
    <3> DEFINE before == SubSeq(b.chars, 1, at - 1)
               behind == SubSeq(b.chars, at + 1, Len(b.chars))
    <3>1. RemoveAt(b.chars, at) = before \o behind
      BY DEF RemoveAt
    <3>2. /\ before \in Seq(Chars) /\ Len(before) = at - 1
          /\ behind \in Seq(Chars) /\ Len(behind) = Len(b.chars) - at
      BY <2>4, <2>5
    <3> HIDE DEF before, behind
    <3>3. before \o behind \in Seq(Chars) /\ Len(before \o behind) = Len(before) + Len(behind)
      BY <3>2, ConcatProperties
    <3> QED
      BY <1>1, <2>2, <3>1, <3>2, <3>3
  <2>7. PopCursor(b) \in Nat /\ PopCursor(b) <= Len(b.chars) - 1
    <3> DEFINE size == Size(b) - 1
    <3>1. size \in Nat /\ size = Len(b.chars) - 1
      BY <1>1, <2>1
    <3>2. PopCursor(b) = IF b.cursor < size THEN b.cursor ELSE IF size = 0 THEN 0 ELSE size - 1
      BY Zenon DEF PopCursor
    <3> HIDE DEF size
    <3>3. CASE b.cursor < size
      BY <1>1, <3>1, <3>2, <3>3
    <3>4. CASE ~(b.cursor < size) /\ size = 0
      BY <1>1, <3>1, <3>2, <3>4
    <3>5. CASE ~(b.cursor < size) /\ size # 0
      <4>1. size \in Nat /\ size # 0
        BY <3>1, <3>5
      <4>2. size - 1 \in Nat /\ size - 1 <= size
        BY ONLY <4>1
      <4>3. PopCursor(b) = size - 1 /\ Len(b.chars) - 1 = size
        BY <3>1, <3>2, <3>5, Zenon
      <4> QED
        BY <4>2, <4>3
    <3> QED
      BY <3>3, <3>4, <3>5
  <2>8. Popped(b) = [chars |-> RemoveAt(b.chars, at), cursor |-> PopCursor(b)]
    BY <1>3, Zenon DEF Popped, at
  <2> QED
    BY <2>2, <2>6, <2>7, <2>8, <1>1 DEF Proper, Buffer, Size
<1> QED
  BY <1>2, <1>3

(* What keybuffer_cursor_move makes of the parts: one character goes across,   *)
(* and at an end nothing does.                                                 *)
LEMMA MoveParts ==
    ASSUME NEW b, Proper(b), NEW offset \in {1, -1}
    PROVE  LET l == Left(b)
               r == Right(b)
           IN /\ offset = 1 /\ l # <<>> =>
                    Moved(b, offset) = [chars |-> l \o r, cursor |-> Len(r) + 1]
              /\ offset = -1 /\ r # <<>> =>
                    Moved(b, offset) = [chars |-> l \o r, cursor |-> Len(r) - 1]
              /\ offset = 1 /\ l = <<>> => Moved(b, offset) = b
              /\ offset = -1 /\ r = <<>> => Moved(b, offset) = b
<1>1. /\ Left(b) \in Seq(Chars) /\ Right(b) \in Seq(Chars)
      /\ Len(Left(b)) = Size(b) - b.cursor /\ Len(Right(b)) = b.cursor
      /\ b.chars = Left(b) \o Right(b)
  BY PartsOfBuffer
<1>2. b.cursor \in Nat /\ Size(b) \in Nat /\ b.cursor <= Size(b)
  BY LenProperties DEF Proper, Buffer, Size
<1>3. (Left(b) = <<>> <=> b.cursor = Size(b)) /\ (Right(b) = <<>> <=> b.cursor = 0)
  BY <1>1, <1>2, EmptySeq
<1> DEFINE moved == b.cursor + offset
<1>4. moved \in 0 .. Size(b)
        <=> (offset = 1 /\ Left(b) # <<>>) \/ (offset = -1 /\ Right(b) # <<>>)
  BY <1>2, <1>3
<1>5. Moved(b, offset) =
          IF moved \in 0 .. Size(b) THEN [chars |-> b.chars, cursor |-> moved] ELSE b
  <2>1. Moved(b, offset) = IF moved \in 0 .. Size(b) THEN [b EXCEPT !.cursor = moved] ELSE b
    BY Zenon DEF Moved
  <2>2. b \in [chars : Seq(Chars), cursor : Nat]
    BY DEF Proper, Buffer
  <2> HIDE DEF moved
  <2>3. [b EXCEPT !.cursor = moved] = [chars |-> b.chars, cursor |-> moved]
    BY ONLY <2>2
  <2> QED
    BY <2>1, <2>3, Zenon
<1>6. (offset = 1 => moved = Len(Right(b)) + 1) /\ (offset = -1 => moved = Len(Right(b)) - 1)
  BY <1>1, <1>2
<1> HIDE DEF moved
<1>7. offset = 1 \/ offset = -1
  OBVIOUS
<1>8. CASE moved \in 0 .. Size(b)
  BY <1>1, <1>5, <1>6, <1>8, <1>4, 1 # -1
<1>9. CASE moved \notin 0 .. Size(b)
  <2>1. Moved(b, offset) = b
    BY <1>5, <1>9
  <2> QED
    BY <2>1, <1>4, <1>9, Zenon
<1> QED
  BY <1>8, <1>9

-----------------------------------------------------------------------------
(* Each operation keeps the buffer proper.                                      *)
LEMMA PushedIsProper ==
    ASSUME NEW b, Proper(b), NEW c \in Chars
    PROVE  Proper(Pushed(b, c))
<1>1. Left(b) \in Seq(Chars) /\ Right(b) \in Seq(Chars)
  BY PartsOfBuffer
<1>2. Append(Left(b), c) \in Seq(Chars)
  BY <1>1, AppendProperties
<1> QED
  BY <1>1, <1>2, PushParts, BufferOfParts

(* keybuffer_push makes the buffer longer by one.                              *)
LEMMA PushedSize ==
    ASSUME NEW b, Proper(b), NEW c \in Chars
    PROVE  Size(Pushed(b, c)) = Size(b) + 1 /\ Pushed(b, c).chars \in Seq(Chars) /\ Size(b) \in Nat
<1>1. /\ Left(b) \in Seq(Chars) /\ Right(b) \in Seq(Chars)
      /\ b.chars = Left(b) \o Right(b)
  BY PartsOfBuffer
<1>2. Append(Left(b), c) \in Seq(Chars) /\ Len(Append(Left(b), c)) = Len(Left(b)) + 1
  BY <1>1, AppendProperties
<1>3. Pushed(b, c).chars = Append(Left(b), c) \o Right(b)
  BY PushParts
<1>4. Pushed(b, c).chars \in Seq(Chars) /\ Size(Pushed(b, c)) = Len(Left(b)) + 1 + Len(Right(b))
  BY <1>1, <1>2, <1>3, ConcatProperties DEF Size
<1>5. Size(b) = Len(Left(b)) + Len(Right(b)) /\ Len(Left(b)) \in Nat /\ Len(Right(b)) \in Nat
  BY <1>1, ConcatProperties, LenProperties DEF Size
<1> QED
  BY <1>4, <1>5

(* An arrow moves the cursor by one, and never off the buffer.                 *)
LEMMA MovedIsProper ==
    ASSUME NEW b, Proper(b), NEW offset \in {1, -1}
    PROVE  Proper(Moved(b, offset))
<1>1. b = [chars |-> b.chars, cursor |-> b.cursor]
      /\ b.chars \in Seq(Chars) /\ b.cursor \in Nat /\ Size(b) = Len(b.chars)
  BY DEF Proper, Buffer, Size
<1> DEFINE moved == b.cursor + offset
<1>2. CASE moved \in 0 .. Size(b)
  <2>1. Moved(b, offset) = [b EXCEPT !.cursor = moved]
    BY <1>2, Zenon DEF Moved
  <2>2. moved \in Nat /\ moved <= Len(b.chars)
    BY <1>1, <1>2, LenProperties
  <2> HIDE DEF moved
  <2>3. [b EXCEPT !.cursor = moved] = [chars |-> b.chars, cursor |-> moved]
    BY <1>1
  <2> QED
    BY <1>1, <2>1, <2>2, <2>3 DEF Proper, Buffer, Size
<1>3. CASE moved \notin 0 .. Size(b)
  BY <1>3, Zenon DEF Moved
<1> QED
  BY <1>2, <1>3

(* For the buffer of the specification that is the type invariant.             *)
LEMMA ProperIsTyped == Proper(kb) <=> KbTypeOK
<1>1. \A s \in Seq(Chars) : Len(s) \in Nat
  BY LenProperties
<1> QED
  BY <1>1 DEF Proper, Buffer, KbTypeOK, Size

(* The caret of the buffer lies on it, whatever keys come, and the index that  *)
(* keybuffer_push computes with size_t lies in the buffer: that subtraction    *)
(* does not wrap.  (The one of keybuffer_pop does, see PopIndex.)              *)
THEOREM KbTypeCorrect == KbSpec => [](KbTypeOK /\ PushIndex(kb) \in 0 .. Size(kb))
<1>1. KbInit => Proper(kb)
  <2>1. <<>> \in Seq(Chars) /\ Len(<<>>) = 0
    BY EmptySeq
  <2> QED
    BY <2>1 DEF KbInit, Cleared, Proper, Buffer, Size
<1>2. Proper(kb) /\ [KbNext]_kb => Proper(kb)'
  <2> SUFFICES ASSUME Proper(kb), [KbNext]_kb
               PROVE  Proper(kb')
    BY DEF Proper, Buffer, Size
  <2>1. ASSUME NEW c \in Chars, Push(c) PROVE Proper(kb')
    BY <2>1, PushedIsProper DEF Push
  <2>2. CASE Pop
    BY <2>2, PoppedIsProper DEF Pop
  <2>3. ASSUME NEW offset \in {1, -1}, Move(offset) PROVE Proper(kb')
    BY <2>3, MovedIsProper DEF Move
  <2>4. CASE Clear
    <3>1. <<>> \in Seq(Chars) /\ Len(<<>>) = 0
      BY EmptySeq
    <3> QED
      BY <2>4, <3>1 DEF Clear, Cleared, Proper, Buffer, Size
  <2>5. CASE UNCHANGED kb
    BY <2>5
  <2> QED
    BY <2>1, <2>2, <2>3, <2>4, <2>5 DEF KbNext
<1>3. Proper(kb) => KbTypeOK /\ PushIndex(kb) \in 0 .. Size(kb)
  <2> SUFFICES ASSUME Proper(kb)
               PROVE  KbTypeOK /\ PushIndex(kb) \in 0 .. Size(kb)
    OBVIOUS
  <2>1. kb.cursor \in Nat /\ Size(kb) \in Nat /\ kb.cursor <= Size(kb)
    BY LenProperties DEF Proper, Buffer, Size
  <2>2. PushIndex(kb) \in 0 .. Size(kb)
    BY <2>1 DEF PushIndex
  <2> QED
    BY <2>2, ProperIsTyped
<1> QED
  BY <1>1, <1>2, <1>3, PTL DEF KbSpec

-----------------------------------------------------------------------------
(* The line a buffer with the parts l and r stands for                         *)
LEMMA LineOfParts ==
    ASSUME NEW b, Proper(b)
    PROVE  LineOf(b) = [left |-> Left(b), right |-> Right(b)]
BY Zenon DEF LineOf, Left, Right

(* A key that types a character inserts it in the line.                        *)
LEMMA PushedLine ==
    ASSUME NEW b, Proper(b), NEW c \in Chars
    PROVE  LineOf(Pushed(b, c)) = Typed!Inserted(LineOf(b), c)
<1> DEFINE l == Left(b)
           r == Right(b)
<1>1. /\ l \in Seq(Chars) /\ r \in Seq(Chars) /\ LineOf(b).left = l /\ LineOf(b).right = r
  BY PartsOfBuffer, LineOfParts
<1>2. Pushed(b, c) = [chars |-> Append(l, c) \o r, cursor |-> Len(r)]
  BY PushParts
<1> HIDE DEF l, r
<1>3. Append(l, c) \in Seq(Chars)
  BY <1>1, AppendProperties
<1>4. LineOf(Pushed(b, c)) = [left |-> Append(l, c), right |-> r]
  BY <1>1, <1>2, <1>3, BufferOfParts
<1> QED
  BY <1>1, <1>4, Zenon DEF Typed!Inserted

(* A backspace takes the character before the caret, if there is one.          *)
LEMMA PoppedLine ==
    ASSUME NEW b, Proper(b), PopFollows(b)
    PROVE  LineOf(Popped(b)) = Typed!Erased(LineOf(b))
<1> DEFINE l == Left(b)
           r == Right(b)
<1>1. /\ l \in Seq(Chars) /\ r \in Seq(Chars) /\ b.chars = l \o r
      /\ LineOf(b).left = l /\ LineOf(b).right = r
  BY PartsOfBuffer, LineOfParts
<1>2. CASE b.chars = <<>>
  <2> HIDE DEF l, r
  <2>1. Len(l \o r) = Len(l) + Len(r) /\ Len(l) \in Nat /\ Len(r) \in Nat
    BY <1>1, ConcatProperties, LenProperties
  <2>2. Len(l \o r) = 0
    BY <1>1, <1>2
  <2>3. l = <<>>
    BY <1>1, <2>1, <2>2, EmptySeq
  <2> QED
    BY <1>1, <1>2, <2>3 DEF Popped, Typed!Erased
<1>3. CASE b.chars # <<>>
  <2>1. l # <<>> /\ Popped(b) = [chars |-> SubSeq(l, 1, Len(l) - 1) \o r, cursor |-> Len(r)]
    BY <1>3, PopParts
  <2> HIDE DEF l, r
  <2>2. SubSeq(l, 1, Len(l) - 1) \in Seq(Chars)
    BY <1>1, <2>1, AcrossToRight
  <2>3. LineOf(Popped(b)) = [left |-> SubSeq(l, 1, Len(l) - 1), right |-> r]
    BY <1>1, <2>1, <2>2, BufferOfParts
  <2> QED
    BY <1>1, <2>1, <2>3, Zenon DEF Typed!Erased, Typed!Shortened
<1> QED
  BY <1>2, <1>3

(* An arrow carries one character over the caret, and stops at the end.        *)
LEMMA MovedLeftLine ==
    ASSUME NEW b, Proper(b)
    PROVE  LineOf(Moved(b, 1)) = Typed!CaretLeft(LineOf(b))
<1> DEFINE l == Left(b)
           r == Right(b)
<1>1. /\ l \in Seq(Chars) /\ r \in Seq(Chars) /\ LineOf(b).left = l /\ LineOf(b).right = r
  BY PartsOfBuffer, LineOfParts
<1>2. CASE l = <<>>
  <2>1. Moved(b, 1) = b
    BY <1>2, MoveParts
  <2> HIDE DEF l, r
  <2> QED
    BY <1>1, <1>2, <2>1 DEF Typed!CaretLeft
<1>3. CASE l # <<>>
  <2> DEFINE begin == SubSeq(l, 1, Len(l) - 1)
             end == <<l[Len(l)]>> \o r
  <2>1. Moved(b, 1) = [chars |-> l \o r, cursor |-> Len(r) + 1]
    BY <1>3, MoveParts
  <2> HIDE DEF l, r
  <2>2. begin \in Seq(Chars) /\ end \in Seq(Chars) /\ Len(end) = Len(r) + 1
        /\ begin \o end = l \o r
    BY <1>1, <1>3, AcrossToRight
  <2>3. LineOf(Moved(b, 1)) = [left |-> begin, right |-> end]
    <3> HIDE DEF begin, end
    <3> QED
      BY <2>1, <2>2, BufferOfParts
  <2> QED
    BY <1>1, <1>3, <2>3, Zenon DEF Typed!CaretLeft, Typed!Shortened
<1> QED
  BY <1>2, <1>3

(* The other arrow carries one to the left of the caret.                       *)
LEMMA MovedRightLine ==
    ASSUME NEW b, Proper(b)
    PROVE  LineOf(Moved(b, -1)) = Typed!CaretRight(LineOf(b))
<1> DEFINE l == Left(b)
           r == Right(b)
<1>1. /\ l \in Seq(Chars) /\ r \in Seq(Chars) /\ LineOf(b).left = l /\ LineOf(b).right = r
  BY PartsOfBuffer, LineOfParts
<1>2. CASE r = <<>>
  <2>1. Moved(b, -1) = b
    BY <1>2, MoveParts
  <2> HIDE DEF l, r
  <2> QED
    BY <1>1, <1>2, <2>1 DEF Typed!CaretRight
<1>3. CASE r # <<>>
  <2> DEFINE begin == Append(l, Head(r))
             end == Tail(r)
  <2>1. Moved(b, -1) = [chars |-> l \o r, cursor |-> Len(r) - 1]
    BY <1>3, MoveParts
  <2> HIDE DEF l, r
  <2>2. begin \in Seq(Chars) /\ end \in Seq(Chars) /\ Len(end) = Len(r) - 1
        /\ begin \o end = l \o r
    BY <1>1, <1>3, AcrossToLeft
  <2>3. LineOf(Moved(b, -1)) = [left |-> begin, right |-> end]
    <3> HIDE DEF begin, end
    <3> QED
      BY <2>1, <2>2, BufferOfParts
  <2> QED
    BY <1>1, <1>3, <2>3, Zenon DEF Typed!CaretRight
<1> QED
  BY <1>2, <1>3

(* A cleared buffer is a proper one and stands for an empty line.              *)
LEMMA ClearedLine == Proper(Cleared) /\ LineOf(Cleared) = Typed!Blank
<1>1. Cleared = [chars |-> <<>> \o <<>>, cursor |-> Len(<<>>)] /\ <<>> \in Seq(Chars)
  BY EmptySeq, ConcatEmptySeq DEF Cleared
<1> QED
  BY <1>1, BufferOfParts DEF Typed!Blank

(* Key by key the buffer does what the line of the application does, for any   *)
(* characters and a buffer of any length: an insert, both arrows, an Escape,   *)
(* and a backspace wherever PopFollows holds.                                  *)
THEOREM BufferFollowsLine == KbSpec => FollowsLine
<1> DEFINE Follows == /\ \A c \in Chars : Push(c) => Typed!Insert(c)
                      /\ Pop /\ PopFollows(kb) => Typed!Erase
                      /\ Move(1) => Typed!Left
                      /\ Move(-1) => Typed!Right
                      /\ Clear => Typed!Leave
<1>1. Proper(kb) => Follows
  <2> SUFFICES ASSUME Proper(kb)
               PROVE  Follows
    OBVIOUS
  <2>1. LineOf(kb)' = LineOf(kb')
    BY DEF LineOf, Size
  <2>2. ASSUME NEW c \in Chars, Push(c) PROVE Typed!Insert(c)
    BY <2>1, <2>2, PushedLine DEF Push, Typed!Insert
  <2>3. ASSUME Pop, PopFollows(kb) PROVE Typed!Erase
    BY <2>1, <2>3, PoppedLine DEF Pop, Typed!Erase
  <2>4. ASSUME Move(1) PROVE Typed!Left
    BY <2>1, <2>4, MovedLeftLine DEF Move, Typed!Left
  <2>5. ASSUME Move(-1) PROVE Typed!Right
    BY <2>1, <2>5, MovedRightLine DEF Move, Typed!Right
  <2>6. ASSUME Clear PROVE Typed!Leave
    BY <2>1, <2>6, ClearedLine DEF Clear, Typed!Leave
  <2> QED
    BY <2>2, <2>3, <2>4, <2>5, <2>6
<1>2. Proper(kb) <=> KbTypeOK
  BY ProperIsTyped
<1>3. KbTypeOK /\ [KbNext]_kb => [Follows]_kb
  BY <1>1, <1>2
<1> QED
  BY <1>3, KbTypeCorrect, PTL DEF KbSpec, FollowsLine

-----------------------------------------------------------------------------
(* Events                                                                      *)

(* Keys go down and up; everything else is told with the empty key.            *)
LEMMA EventIsOne ==
    /\ \A kind \in {"down", "up"}, key \in Keys : Event(kind, key) \in Events
    /\ \A kind \in {"down", "up", "toggle", "left", "right", "reset"} :
          Event(kind, BackSpace) \in Events
BY DEF Event, Events, Keys

(* The toggle is an event.                                                     *)
LEMMA ToggleIsOne == Toggle \in Events /\ <<Toggle>> \in Seq(Events) /\ Len(<<Toggle>>) = 1
BY EventIsOne DEF Toggle, Keys

(* A toggle is the only event of its kind.                                     *)
LEMMA OneToggle == \A e \in Events : e.kind = "toggle" => e = Toggle
BY DEF Events, Event, Toggle

(* What is typed are events, and no toggle is among them.                      *)
LEMMA StrokesAreEvents ==
    ASSUME NEW chars \in Seq(Chars)
    PROVE  /\ Strokes(chars) \in Seq(Events) /\ Len(Strokes(chars)) = Len(chars)
           /\ \A i \in 1 .. Len(chars) : Strokes(chars)[i] # Toggle
<1> DEFINE n == Len(chars)
<1>1. n \in Nat /\ \A i \in 1 .. n : chars[i] \in Keys
  BY LenProperties, ElementOfSeq DEF Keys
<1>2. Strokes(chars) = [i \in 1 .. n |-> Event("down", chars[i])]
  BY DEF Strokes
<1> HIDE DEF n
<1>3. \A i \in 1 .. n : Event("down", chars[i]) \in Events /\ Event("down", chars[i]) # Toggle
  BY <1>1 DEF Event, Events, Toggle
<1>4. Strokes(chars) \in [1 .. n -> Events]
  BY <1>2, <1>3
<1>5. Strokes(chars) \in Seq(Events) /\ Len(Strokes(chars)) = n
  BY <1>1, <1>4
<1> QED
  BY <1>2, <1>3, <1>5 DEF n

(* So are arrows and backspaces, none at all when an undo has nothing left to  *)
(* delete.                                                                     *)
LEMMA RepeatedAreEvents ==
    ASSUME NEW kind \in {"down", "right"}, NEW n \in Int, n >= -1
    PROVE  /\ Repeated(kind, n) \in Seq(Events)
           /\ \A i \in 1 .. Len(Repeated(kind, n)) : Repeated(kind, n)[i] # Toggle
<1>1. Event(kind, BackSpace) \in Events /\ Event(kind, BackSpace) # Toggle
  BY EventIsOne DEF Keys, Event, Toggle
<1> DEFINE k == IF n = -1 THEN 0 ELSE n
<1>2. k \in Nat /\ 1 .. n = 1 .. k
  OBVIOUS
<1>3. Repeated(kind, n) = [i \in 1 .. k |-> Event(kind, BackSpace)]
  BY <1>2 DEF Repeated
<1> HIDE DEF k
<1>4. Repeated(kind, n) \in [1 .. k -> Events]
  BY <1>1, <1>3
<1>5. Repeated(kind, n) \in Seq(Events) /\ Len(Repeated(kind, n)) = k
  BY <1>2, <1>4
<1> QED
  BY <1>1, <1>3, <1>5

-----------------------------------------------------------------------------
(* How many toggles there are in a sequence of events                          *)

At(events) == {i \in 1 .. Len(events) : events[i] = Toggle}

(* The toggles of a finite sequence can be counted.                            *)
LEMMA CountOfAt ==
    ASSUME NEW events \in Seq(Events)
    PROVE  IsFiniteSet(At(events)) /\ Toggles(events) = Cardinality(At(events))
           /\ Toggles(events) \in Nat
<1>1. Len(events) \in Nat /\ DOMAIN events = 1 .. Len(events)
  BY LenProperties
<1>2. IsFiniteSet(1 .. Len(events))
  BY <1>1, FS_Interval
<1>3. IsFiniteSet(At(events))
  <2>1. At(events) \in SUBSET (1 .. Len(events))
    BY DEF At
  <2> QED
    BY <1>2, <2>1, FS_Subset
<1>4. Toggles(events) = Cardinality(At(events))
  BY <1>1 DEF Toggles, At
<1> QED
  BY <1>3, <1>4, FS_CardinalityType

(* The toggles of two sequences, one after the other, are those of both.       *)
LEMMA TogglesOfConcat ==
    ASSUME NEW s \in Seq(Events), NEW t \in Seq(Events)
    PROVE  s \o t \in Seq(Events) /\ Toggles(s \o t) = Toggles(s) + Toggles(t)
<1> DEFINE n == Len(s)
           moved == {j + n : j \in At(t)}
<1>1. /\ n \in Nat /\ Len(t) \in Nat /\ s \o t \in Seq(Events) /\ Len(s \o t) = n + Len(t)
      /\ \A i \in 1 .. n + Len(t) : (s \o t)[i] = IF i <= n THEN s[i] ELSE t[i - n]
  BY LenProperties, ConcatProperties
<1>2. IsFiniteSet(At(s)) /\ IsFiniteSet(At(t))
      /\ Toggles(s) = Cardinality(At(s)) /\ Toggles(t) = Cardinality(At(t))
      /\ Toggles(s \o t) = Cardinality(At(s \o t))
  BY <1>1, CountOfAt
<1>3. At(s \o t) = At(s) \cup moved
  <2>1. ASSUME NEW i \in At(s \o t) PROVE i \in At(s) \cup moved
    <3>1. i \in 1 .. n + Len(t) /\ (s \o t)[i] = Toggle
      BY <1>1, <2>1 DEF At
    <3>2. CASE i <= n
      BY <1>1, <3>1, <3>2 DEF At
    <3>3. CASE ~(i <= n)
      <4>1. i - n \in 1 .. Len(t) /\ t[i - n] = Toggle /\ i = (i - n) + n
        BY <1>1, <3>1, <3>3
      <4> QED
        BY <4>1 DEF At
    <3> QED
      BY <3>2, <3>3
  <2>2. ASSUME NEW i \in At(s) PROVE i \in At(s \o t)
    BY <1>1, <2>2 DEF At
  <2>3. ASSUME NEW j \in At(t) PROVE j + n \in At(s \o t)
    <3>1. j \in 1 .. Len(t) /\ t[j] = Toggle
      BY <2>3 DEF At
    <3>2. j + n \in 1 .. n + Len(t) /\ ~(j + n <= n) /\ (j + n) - n = j
      BY <1>1, <3>1
    <3> QED
      BY <1>1, <3>1, <3>2 DEF At
  <2> QED
    BY <2>1, <2>2, <2>3
<1>4. At(s) \cap moved = {}
  BY <1>1 DEF At
<1>5. IsFiniteSet(moved) /\ Cardinality(moved) = Cardinality(At(t))
  <2> DEFINE f == [j \in At(t) |-> j + n]
  <2>1. At(t) \subseteq Nat
    BY <1>1 DEF At
  <2>2. f \in Bijection(At(t), moved)
    BY <1>1, <2>1 DEF Bijection, Injection, Surjection, IsInjective
  <2>3. ExistsBijection(At(t), moved)
    BY <2>2 DEF ExistsBijection
  <2> HIDE DEF moved
  <2> QED
    BY <1>2, <2>3, FS_Bijection
<1> HIDE DEF moved
<1>6. Cardinality(At(s) \cup moved)
        = Cardinality(At(s)) + Cardinality(moved) - Cardinality(At(s) \cap moved)
  BY <1>2, <1>5, FS_Union
<1>7. Cardinality(At(s) \cap moved) = 0
  BY <1>4, FS_EmptySet
<1>8. Cardinality(At(s)) \in Nat /\ Cardinality(At(t)) \in Nat
  BY <1>2, FS_CardinalityType
<1> QED
  BY <1>1, <1>2, <1>3, <1>5, <1>6, <1>7, <1>8

(* Nothing has no toggles, and one event has one if it is a toggle.            *)
LEMMA NoneOrOne ==
    /\ \A s \in Seq(Events) : (\A i \in 1 .. Len(s) : s[i] # Toggle) => Toggles(s) = 0
    /\ Toggles(<<>>) = 0
    /\ \A e \in Events : Toggles(<<e>>) = IF e = Toggle THEN 1 ELSE 0
<1>1. ASSUME NEW s \in Seq(Events), \A i \in 1 .. Len(s) : s[i] # Toggle PROVE Toggles(s) = 0
  <2>1. At(s) = {}
    BY <1>1 DEF At
  <2> QED
    BY <2>1, CountOfAt, FS_EmptySet
<1>2. Toggles(<<>>) = 0
  <2>1. <<>> \in Seq(Events) /\ Len(<<>>) = 0
    BY EmptySeq
  <2>2. \A i \in 1 .. Len(<<>>) : <<>>[i] # Toggle
    BY <2>1
  <2> QED
    BY <1>1, <2>1, <2>2, Zenon
<1>3. ASSUME NEW e \in Events PROVE Toggles(<<e>>) = IF e = Toggle THEN 1 ELSE 0
  <2>1. <<e>> \in Seq(Events) /\ Len(<<e>>) = 1 /\ <<e>>[1] = e
    OBVIOUS
  <2>2. CASE e = Toggle
    <3>1. At(<<e>>) = {1}
      BY <2>1, <2>2 DEF At
    <3> QED
      BY <2>1, <2>2, <3>1, CountOfAt, FS_Singleton
  <2>3. CASE e # Toggle
    <3>1. \A i \in 1 .. Len(<<e>>) : <<e>>[i] # Toggle
      BY <2>1, <2>3
    <3> QED
      BY <1>1, <2>1, <2>3, <3>1, Zenon
  <2> QED
    BY <2>2, <2>3
<1> QED
  BY <1>1, <1>2, <1>3

(* Taking the first event takes its toggle.                                    *)
LEMMA TogglesOfTail ==
    ASSUME NEW s \in Seq(Events), s # <<>>
    PROVE  /\ Tail(s) \in Seq(Events) /\ Head(s) \in Events
           /\ s = <<Head(s)>> \o Tail(s)
           /\ Toggles(s) = (IF Head(s) = Toggle THEN 1 ELSE 0) + Toggles(Tail(s))
<1>1. Tail(s) \in Seq(Events) /\ Head(s) \in Events /\ <<Head(s)>> \in Seq(Events)
  BY HeadTailProperties
<1>2. s = <<Head(s)>> \o Tail(s)
  <2>1. Len(s) \in Nat \ {0}
    BY EmptySeq
  <2>2. 1 \in 1 .. Len(s) /\ Len(s) \in 1 .. Len(s)
    BY <2>1
  <2>3. SubSeq(s, 1, Len(s)) = <<s[1]>> \o SubSeq(s, 1 + 1, Len(s))
    BY <2>2, SubSeqRecursiveFirst
  <2>4. Tail(s) = SubSeq(s, 2, Len(s)) /\ SubSeq(s, 1, Len(s)) = s /\ Head(s) = s[1]
    BY TailIsSubSeq, SubSeqFull
  <2> QED
    BY <2>3, <2>4
<1>3. Toggles(<<Head(s)>> \o Tail(s)) = Toggles(<<Head(s)>>) + Toggles(Tail(s))
  BY <1>1, TogglesOfConcat
<1> QED
  BY <1>1, <1>2, <1>3, NoneOrOne

(* Recording one more event adds its toggle.                                   *)
LEMMA TogglesOfAppend ==
    ASSUME NEW s \in Seq(Events), NEW e \in Events
    PROVE  /\ Append(s, e) \in Seq(Events)
           /\ Toggles(Append(s, e)) = Toggles(s) + IF e = Toggle THEN 1 ELSE 0
<1>1. Append(s, e) \in Seq(Events) /\ Append(s, e) = s \o <<e>> /\ <<e>> \in Seq(Events)
  BY AppendProperties, AppendIsConcat
<1>2. Toggles(s \o <<e>>) = Toggles(s) + Toggles(<<e>>)
  BY <1>1, TogglesOfConcat
<1>3. Toggles(<<e>>) = IF e = Toggle THEN 1 ELSE 0
  BY NoneOrOne
<1> QED
  BY <1>1, <1>2, <1>3
-----------------------------------------------------------------------------
(* Types                                                                       *)

\* A match that is found has an owner: Table is followed by the tag it was left in.
Owned == tryExpand => expandTag \in DOMAIN Table

HookShape == TypeOK /\ Owned

(* What is handled, is sent and waits are events.                              *)
LEMMA HandledShape ==
    ASSUME TypeOK, NEW kind, Handle(kind)
    PROVE  /\ stream \in Seq(Events) /\ stream' \in Seq(Events) /\ posts = <<>>
           /\ Head(stream) \in Events /\ Head(stream).key \in Keys /\ Head(stream).kind = kind
           /\ Toggles(stream) = (IF Head(stream) = Toggle THEN 1 ELSE 0) + Toggles(stream')
<1>1. stream \in Seq(Events) /\ stream # <<>> /\ stream' = Tail(stream) /\ posts = <<>>
      /\ Head(stream).kind = kind
  BY DEF TypeOK, Handle
<1>2. \A e \in Events : e.key \in Keys
  BY DEF Events, Keys
<1> QED
  BY <1>1, <1>2, TogglesOfTail

(* A set of naturals that is not empty has a least element.                    *)
LEMMA LeastOfNat ==
    ASSUME NEW S \in SUBSET Nat, S # {}
    PROVE  Least(S) \in S
<1> DEFINE R == {ss \in Nat \X Nat : ss[1] < ss[2]}
<1>0. IsWellFoundedOn(R, Nat)
  BY NatLessThanWellFounded, Zenon DEF OpToRel
<1>1. PICK x \in S : \A y \in S : ~(<<y, x>> \in R)
  <2> HIDE DEF R
  <2> QED BY <1>0, WFMin
<1>2. \A y \in S : x <= y
  <2>1. ASSUME NEW y \in S, y < x PROVE FALSE
    <3> DEFINE ss == <<y, x>>
    <3>1. ss \in Nat \X Nat /\ ss[1] < ss[2]
      BY <2>1
    <3>2. ss \in R
      BY ONLY <3>1, Zenon DEF R
    <3> QED
      BY <3>2, <1>1
  <2> QED
    BY <2>1
<1> QED
  BY <1>2 DEF Least

Entry == [match : Seq(Chars), silent : BOOLEAN, typed : Seq(Chars), counted : Nat, plain : BOOLEAN]

(* The table has entries.                                                      *)
LEMMA TableEntries == DOMAIN Table \subseteq Nat /\ \A i \in DOMAIN Table : Table[i] \in Entry
<1>1. Table \in Seq(Entry)
  BY KeyHookAssumption DEF Entry
<1>2. DOMAIN Table = 1 .. Len(Table) /\ \A i \in 1 .. Len(Table) : Table[i] \in Entry
  BY <1>1, LenProperties, ElementOfSeq
<1> QED
  BY <1>2

(* A text is as long backwards.                                                *)
LEMMA LenOfReverse ==
    ASSUME NEW s \in Seq(Chars)
    PROVE  Len(Reverse(s)) = Len(s)
<1>1. Len(s) \in Nat
  BY LenProperties
<1>2. Reverse(s) = [i \in 1 .. Len(s) |-> s[(Len(s) - i) + 1]]
  BY Zenon DEF Reverse
<1> DEFINE n == Len(s)
           e == [i \in 1 .. n |-> s[(n - i) + 1]]
<1>3. \A i \in 1 .. n : s[(n - i) + 1] \in Chars
  <2>1. ASSUME NEW i \in 1 .. n PROVE (n - i) + 1 \in 1 .. n
    BY <1>1
  <2> QED
    BY <2>1, ElementOfSeq
<1>4. e \in [1 .. n -> Chars]
  BY <1>3
<1>5. Len(e) = n
  BY <1>1, <1>4
<1> QED
  BY <1>2, <1>5

(* An expansion found at the end of the buffer is no longer than the buffer.   *)
LEMMA HitsFit ==
    ASSUME NEW chars \in Seq(Chars), Hits(chars) # {}, loaded \subseteq DOMAIN Table
    PROVE  /\ Least(Hits(chars)) \in DOMAIN Table
           /\ Len(Table[Least(Hits(chars))].match) \in Nat
           /\ Len(Table[Least(Hits(chars))].match) <= Len(chars)
           /\ Table[Least(Hits(chars))].silent \in BOOLEAN
<1>1. /\ DOMAIN Table \subseteq Nat
      /\ \A i \in DOMAIN Table : Table[i].match \in Seq(Chars) /\ Table[i].silent \in BOOLEAN
  BY TableEntries DEF Entry
<1>2. Hits(chars) \subseteq Nat
  BY <1>1 DEF Hits
<1>4. Least(Hits(chars)) \in Hits(chars)
  BY <1>2, LeastOfNat
<1> DEFINE entry == Table[Least(Hits(chars))]
<1>5. entry.match \in Seq(Chars) /\ entry.silent \in BOOLEAN /\ IsSuffix(entry.match, chars)
      /\ Least(Hits(chars)) \in DOMAIN Table
  BY <1>1, <1>4 DEF Hits
<1> HIDE DEF entry
<1>6. /\ Len(Reverse(entry.match)) = Len(entry.match) /\ Len(Reverse(chars)) = Len(chars)
      /\ Len(entry.match) \in Nat
  BY <1>5, LenProperties, LenOfReverse
<1> QED
  BY <1>5, <1>6 DEF IsSuffix, IsPrefix, entry

\* Lines of text
Lines == [left : Seq(Chars), right : Seq(Chars)]

(* Keys make lines of lines.                                                   *)
LEMMA KeysMakeLines ==
    ASSUME NEW l \in Lines
    PROVE  /\ Line!Blank \in Lines /\ Line!Erased(l) \in Lines
           /\ Line!CaretLeft(l) \in Lines /\ Line!CaretRight(l) \in Lines
           /\ \A c \in Chars : Line!Inserted(l, c) \in Lines
<1>1. l.left \in Seq(Chars) /\ l.right \in Seq(Chars) /\ <<>> \in Seq(Chars)
  BY EmptySeq DEF Lines
<1>2. Line!Blank \in Lines
  BY <1>1 DEF Line!Blank, Lines
<1>3. \A c \in Chars : Line!Inserted(l, c) \in Lines
  BY <1>1, AppendProperties DEF Line!Inserted, Lines
<1>4. l.left # <<>> => /\ Line!Shortened(l.left) \in Seq(Chars)
                       /\ <<l.left[Len(l.left)]>> \o l.right \in Seq(Chars)
  BY <1>1, AcrossToRight DEF Line!Shortened
<1>5. l.right # <<>> => Append(l.left, Head(l.right)) \in Seq(Chars) /\ Tail(l.right) \in Seq(Chars)
  BY <1>1, AcrossToLeft
<1>6. Line!Erased(l) \in Lines
  BY <1>1, <1>4 DEF Line!Erased, Lines
<1>7. Line!CaretLeft(l) \in Lines
  BY <1>1, <1>4 DEF Line!CaretLeft, Lines
<1>8. Line!CaretRight(l) \in Lines
  BY <1>1, <1>5 DEF Line!CaretRight, Lines
<1> QED
  BY <1>2, <1>3, <1>6, <1>7, <1>8

\* What undo remembers
SourceOK ==
    /\ source = None \/ \E s \in source : source = {s} /\ s \in Seq(Chars)
    /\ expandLen \in Nat

(* It is kept or forgotten by all but keyhook_handle_keyup.                    *)
LEMMA SourceStays ==
    ASSUME SourceOK, ResetUndo \/ UNCHANGED <<source, expandLen>>
    PROVE  SourceOK'
<1>1. CASE ResetUndo
  BY <1>1 DEF SourceOK, ResetUndo
<1>2. CASE UNCHANGED <<source, expandLen>>
  BY <1>2 DEF SourceOK
<1> QED
  BY <1>1, <1>2

(* The buffer of a state that has its type is proper, and the other way round. *)
LEMMA ProperThen == ASSUME Proper(kb') PROVE KbTypeOK'
<1>1. \A s \in Seq(Chars) : Len(s) \in Nat
  BY LenProperties
<1> QED
  BY <1>1 DEF Proper, Buffer, KbTypeOK, Size
-----------------------------------------------------------------------------
(* A key that types: the match found fits the buffer it is found in.           *)
LEMMA KeyDownShape == ASSUME HookShape, KeyDown PROVE HookShape'
<1> DEFINE c == Head(stream).key
           hits == Candidates(Pushed(kb, c).chars)
           resets == ResetOnEnter /\ hits = {} /\ c = Enter /\ kb.cursor # 0
<1>1. /\ Handle("down") /\ c \in Chars
      /\ kb' = IF resets THEN Cleared ELSE Pushed(kb, c)
      /\ text' = IF resets THEN Line!Blank ELSE Line!Inserted(text, c)
      /\ IF hits = {} THEN UNCHANGED matched
         ELSE /\ tryExpand' = TRUE
              /\ expandTag' = Least(hits)
              /\ settings' = [cursor |-> Size(kb) + 1 - Len(Table[Least(hits)].match),
                              undoable |-> Table[Least(hits)].silent]
      /\ IF resets \/ ~expanding THEN ResetUndo ELSE UNCHANGED <<source, expandLen>>
      /\ lost' = (lost \/ tryUndo)
      /\ UNCHANGED <<expanding, tryUndo, posts, user, fault>>
  BY Zenon DEF KeyDown
<1>2. TypeOK /\ Owned /\ Proper(kb) /\ text \in Lines
  BY ProperIsTyped DEF HookShape, TypeOK, Lines
<1>3. stream' \in Seq(Events)
  BY <1>1, <1>2, HandledShape
<1>4. Proper(Pushed(kb, c)) /\ Proper(Cleared)
  BY <1>1, <1>2, PushedIsProper, ClearedLine
<1>5. KbTypeOK' /\ text' \in Lines
  BY <1>1, <1>2, <1>4, ProperThen, KeysMakeLines
<1>6. Size(Pushed(kb, c)) = Size(kb) + 1 /\ Pushed(kb, c).chars \in Seq(Chars) /\ Size(kb) \in Nat
  BY <1>1, <1>2, PushedSize DEF Proper, Buffer
<1>7. /\ Owned' /\ settings'.cursor \in Nat /\ settings'.undoable \in BOOLEAN
      /\ tryExpand' \in BOOLEAN /\ expandTag' \in {0} \cup DOMAIN Table
  <2>1. CASE hits = {}
    BY <1>1, <1>2, <2>1 DEF matched, TypeOK, Owned
  <2>2. CASE hits # {}
    <3> DEFINE entry == Table[Least(hits)]
    <3>1. hits = Hits(Pushed(kb, c).chars)
      BY <2>2 DEF Candidates
    <3>2. /\ Least(hits) \in DOMAIN Table /\ Len(entry.match) \in Nat
          /\ Len(entry.match) <= Len(Pushed(kb, c).chars) /\ entry.silent \in BOOLEAN
      BY <1>2, <1>6, <2>2, <3>1, HitsFit DEF TypeOK
    <3>3. /\ tryExpand' = TRUE /\ expandTag' = Least(hits)
          /\ settings' = [cursor |-> Size(kb) + 1 - Len(entry.match), undoable |-> entry.silent]
      BY <1>1, <2>2
    <3> HIDE DEF entry, hits
    <3>4. Size(kb) + 1 - Len(entry.match) \in Nat
      BY <1>6, <3>2 DEF Size
    <3> QED
      BY <3>2, <3>3, <3>4 DEF Owned
  <2> QED
    BY <2>1, <2>2
<1>8. SourceOK'
  BY <1>1, <1>2, SourceStays DEF ResetUndo, TypeOK, SourceOK
<1> HIDE DEF c, hits, resets
<1> QED
  BY <1>1, <1>2, <1>3, <1>5, <1>7, <1>8 DEF HookShape, TypeOK, SourceOK, user, Lines

(* A backspace, held or made up for.                                           *)
LEMMA BackSpaceShape == ASSUME HookShape, BackSpaceHeld \/ BackSpaceDown PROVE HookShape'
<1>1. TypeOK /\ Owned /\ Proper(kb) /\ text \in Lines
  BY ProperIsTyped DEF HookShape, TypeOK, Lines
<1>2. /\ Handle("down") /\ text' = Line!Erased(text)
      /\ tryUndo' \in BOOLEAN /\ lost' \in BOOLEAN
      /\ kb' \in {kb, Popped(kb), Popped(Popped(kb))}
      /\ ResetUndo \/ UNCHANGED <<source, expandLen>>
      /\ UNCHANGED <<expanding, matched, posts, user, fault>>
  <2>1. tryUndo \in BOOLEAN /\ lost \in BOOLEAN
    BY <1>1 DEF TypeOK
  <2>2. CASE BackSpaceHeld
    BY <2>1, <2>2 DEF BackSpaceHeld
  <2>3. CASE BackSpaceDown
    BY <2>1, <2>3 DEF BackSpaceDown, MadeUpFor
  <2> QED
    BY <2>2, <2>3
<1>3. Proper(Popped(kb))
  BY <1>1, PoppedIsProper
<1>4. Proper(Popped(Popped(kb)))
  BY <1>3, PoppedIsProper
<1>5. KbTypeOK' /\ text' \in Lines
  BY <1>1, <1>2, <1>3, <1>4, ProperThen, KeysMakeLines
<1>6. stream' \in Seq(Events) /\ SourceOK'
  BY <1>1, <1>2, HandledShape, SourceStays DEF TypeOK, SourceOK
<1> QED
  BY <1>1, <1>2, <1>5, <1>6 DEF HookShape, TypeOK, SourceOK, Owned, matched, user, Lines

(* What keyhook_expand_matched and the undo of keyhook_handle_keyup send are   *)
(* events, with two toggles among them.                                        *)
LEMMA ExpansionToggles ==
    ASSUME HookShape, tryExpand, DeleteCount >= 0
    PROVE  Expansion \in Seq(Events) /\ Toggles(Expansion) = 2
<1>1. /\ kb.cursor \in Int /\ kb.cursor >= -1 /\ DeleteCount \in Int /\ DeleteCount >= -1
      /\ Table[expandTag].typed \in Seq(Chars)
  <2>1. Table[expandTag].typed \in Seq(Chars)
    BY TableEntries DEF HookShape, Owned, Entry
  <2>2. kb.cursor \in Int /\ kb.cursor >= -1 /\ Size(kb) \in Nat /\ settings.cursor \in Nat
    BY LenProperties DEF HookShape, TypeOK, KbTypeOK, Size
  <2> QED
    BY <2>1, <2>2 DEF DeleteCount
<1> DEFINE right == Repeated("right", kb.cursor)
           down == Repeated("down", DeleteCount)
           typed == Strokes(Table[expandTag].typed)
           one == <<Toggle>>
<1>2. /\ right \in Seq(Events) /\ Toggles(right) = 0
      /\ down \in Seq(Events) /\ Toggles(down) = 0
      /\ typed \in Seq(Events) /\ Toggles(typed) = 0
      /\ one \in Seq(Events) /\ Toggles(one) = 1
  <2>1. down \in Seq(Events) /\ \A i \in 1 .. Len(down) : down[i] # Toggle
    BY <1>1, RepeatedAreEvents
  <2>2. typed \in Seq(Events) /\ \A i \in 1 .. Len(typed) : typed[i] # Toggle
    BY <1>1, StrokesAreEvents
  <2>3. right \in Seq(Events) /\ \A i \in 1 .. Len(right) : right[i] # Toggle
    BY <1>1, RepeatedAreEvents
  <2>4. one \in Seq(Events) /\ Toggles(one) = 1
    BY ToggleIsOne, NoneOrOne
  <2> HIDE DEF right, down, typed, one
  <2> QED
    BY <2>1, <2>2, <2>3, <2>4, NoneOrOne
<1> DEFINE begin == right \o one
           deleted == begin \o down
           replaced == deleted \o typed
<1>3. Expansion = replaced \o one
  BY Zenon DEF Expansion
<1> HIDE DEF right, down, typed, one
<1>4. begin \in Seq(Events) /\ Toggles(begin) = 1
  BY <1>2, TogglesOfConcat
<1> HIDE DEF begin
<1>5. deleted \in Seq(Events) /\ Toggles(deleted) = 1
  BY <1>2, <1>4, TogglesOfConcat
<1> HIDE DEF deleted
<1>6. replaced \in Seq(Events) /\ Toggles(replaced) = 1
  BY <1>2, <1>5, TogglesOfConcat
<1> HIDE DEF replaced
<1> QED
  BY <1>2, <1>3, <1>6, TogglesOfConcat

(* An undo has two as well.                                                    *)
LEMMA RestorationToggles ==
    ASSUME NEW chars \in Seq(Chars), NEW length \in Nat
    PROVE  Restoration(chars, length) \in Seq(Events) /\ Toggles(Restoration(chars, length)) = 2
<1> DEFINE down == Repeated("down", length - 1)
           typed == Strokes(chars)
           one == <<Toggle>>
<1>1. length - 1 \in Int /\ length - 1 >= -1
  OBVIOUS
<1>2. /\ down \in Seq(Events) /\ Toggles(down) = 0
      /\ typed \in Seq(Events) /\ Toggles(typed) = 0
      /\ one \in Seq(Events) /\ Toggles(one) = 1
  <2>1. down \in Seq(Events) /\ \A i \in 1 .. Len(down) : down[i] # Toggle
    BY <1>1, RepeatedAreEvents
  <2>2. typed \in Seq(Events) /\ \A i \in 1 .. Len(typed) : typed[i] # Toggle
    BY <1>1, StrokesAreEvents
  <2>4. one \in Seq(Events) /\ Toggles(one) = 1
    BY ToggleIsOne, NoneOrOne
  <2> HIDE DEF down, typed, one
  <2> QED
    BY <2>1, <2>2, <2>4, NoneOrOne
<1> DEFINE deleted == one \o down
           restored == deleted \o typed
<1>3. Restoration(chars, length) = restored \o one
  BY Zenon DEF Restoration
<1> HIDE DEF down, typed, one
<1>4. deleted \in Seq(Events) /\ Toggles(deleted) = 1
  BY <1>2, TogglesOfConcat
<1> HIDE DEF deleted
<1>5. restored \in Seq(Events) /\ Toggles(restored) = 1
  BY <1>2, <1>4, TogglesOfConcat
<1> HIDE DEF restored
<1> QED
  BY <1>2, <1>3, <1>5, TogglesOfConcat

(* What there is to undo once an expansion has been made is a text.            *)
LEMMA SourceNowShape ==
    ASSUME HookShape, Sound
    PROVE  /\ SourceNow = None \/ \E s \in SourceNow : SourceNow = {s} /\ s \in Seq(Chars)
           /\ LengthNow \in Nat
<1>1. CASE Armed
  <2>1. tryExpand /\ DeleteCount >= 0 /\ expandTag \in DOMAIN Table
    BY <1>1 DEF Armed, Sound, HookShape, Owned
  <2>2. Table[expandTag].counted \in Nat
    BY <2>1, TableEntries DEF Entry
  <2>3. /\ kb.chars \in Seq(Chars) /\ Size(kb) = Len(kb.chars) /\ Size(kb) \in Nat
        /\ settings.cursor \in Nat
    BY LenProperties DEF HookShape, TypeOK, KbTypeOK, Size
  <2>4. \A i \in settings.cursor + 1 .. Size(kb) : kb.chars[i] \in Chars
    <3>1. \A i \in settings.cursor + 1 .. Size(kb) : i \in 1 .. Len(kb.chars)
      BY <2>3
    <3> QED
      BY <2>3, <3>1, ElementOfSeq
  <2>5. Deleted \in Seq(Chars)
    <3>1. settings.cursor + 1 \in Int /\ Size(kb) \in Int
      BY <2>3
    <3> QED
      BY <2>4, <3>1, SubSeqProperties DEF Deleted
  <2> QED
    BY <1>1, <2>2, <2>5 DEF SourceNow, LengthNow
<1>2. CASE ~Armed
  BY <1>2 DEF SourceNow, LengthNow, HookShape, TypeOK
<1> QED
  BY <1>1, <1>2

(* All that a release sends: nothing, an expansion, an undo or both.           *)
LEMMA KeyUpPosts ==
    ASSUME HookShape, KeyUp
    PROVE  posts' \in Seq(Events) /\ Toggles(posts') \in {0, 2, 4}
<1> DEFINE expansion == IF tryExpand THEN Expansion ELSE <<>>
           chosen == CHOOSE s \in SourceNow : TRUE
           restoration == IF tryUndo THEN Restoration(chosen, LengthNow) ELSE <<>>
<1>1. Sound /\ posts' = expansion \o restoration
  BY Zenon DEF KeyUp
<1>2. expansion \in Seq(Events) /\ Toggles(expansion) \in {0, 2}
  <2>1. CASE tryExpand
    BY <1>1, <2>1, ExpansionToggles DEF Sound
  <2>2. CASE ~tryExpand
    BY <2>2, NoneOrOne, EmptySeq
  <2> QED
    BY <2>1, <2>2
<1>3. restoration \in Seq(Events) /\ Toggles(restoration) \in {0, 2}
  <2>1. CASE tryUndo
    <3>1. SourceNow # None
      BY <1>1, <2>1 DEF Sound
    <3>2. chosen \in Seq(Chars) /\ LengthNow \in Nat
      BY <1>1, <3>1, SourceNowShape
    <3> HIDE DEF chosen
    <3> QED
      BY <2>1, <3>2, RestorationToggles
  <2>2. CASE ~tryUndo
    BY <2>2, NoneOrOne, EmptySeq
  <2> QED
    BY <2>1, <2>2
<1> HIDE DEF expansion, restoration
<1>4. posts' \in Seq(Events) /\ Toggles(posts') = Toggles(expansion) + Toggles(restoration)
  BY <1>1, <1>2, <1>3, TogglesOfConcat
<1> QED
  BY <1>2, <1>3, <1>4

(* A release: what was waited for is gone afterwards.                          *)
LEMMA KeyUpShape == ASSUME HookShape, KeyUp PROVE HookShape'
<1>1. TypeOK /\ Owned /\ Proper(kb) /\ text \in Lines
  BY ProperIsTyped DEF HookShape, TypeOK, Lines
<1>2. /\ Handle("up") /\ Sound
      /\ kb' \in {kb, Popped(kb)}
      /\ IF tryUndo THEN ResetUndo ELSE source' = SourceNow /\ expandLen' = LengthNow
      /\ tryExpand' = FALSE /\ tryUndo' = FALSE /\ lost' \in BOOLEAN
      /\ IF tryExpand THEN settings' = NoMatch /\ expandTag' = 0
                      ELSE UNCHANGED <<settings, expandTag>>
      /\ UNCHANGED <<expanding, text, user, fault>>
  BY <1>1 DEF KeyUp, TypeOK
<1>3. KbTypeOK'
  BY <1>1, <1>2, PoppedIsProper, ProperThen
<1>4. SourceOK'
  <2>1. CASE tryUndo
    BY <1>1, <1>2, <2>1, SourceStays DEF TypeOK, SourceOK
  <2>2. CASE ~tryUndo
    <3>1. source' = SourceNow /\ expandLen' = LengthNow
      BY <1>2, <2>2
    <3>2. SourceNow = None \/ \E s \in SourceNow : SourceNow = {s} /\ s \in Seq(Chars)
      BY <1>2, SourceNowShape
    <3>3. LengthNow \in Nat
      BY <1>2, SourceNowShape
    <3> HIDE DEF SourceNow, LengthNow
    <3> QED
      BY <3>1, <3>2, <3>3 DEF SourceOK
  <2> QED
    BY <2>1, <2>2
<1>5. /\ settings'.cursor \in Nat /\ settings'.undoable \in BOOLEAN
      /\ expandTag' \in {0} \cup DOMAIN Table
  <2>1. CASE tryExpand
    <3>1. settings' = NoMatch /\ expandTag' = 0
      BY <1>2, <2>1, Zenon
    <3> QED
      BY <3>1 DEF NoMatch
  <2>2. CASE ~tryExpand
    BY <1>1, <1>2, <2>2 DEF TypeOK
  <2> QED
    BY <2>1, <2>2
<1>6. stream' \in Seq(Events) /\ posts' \in Seq(Events)
  BY <1>1, <1>2, HandledShape, KeyUpPosts
<1> QED
  BY <1>1, <1>2, <1>3, <1>4, <1>5, <1>6 DEF HookShape, TypeOK, SourceOK, Owned, user, Lines

(* Arrows and resets.                                                          *)
LEMMA ArrowShape == ASSUME HookShape, Arrow \/ Reset PROVE HookShape'
<1>1. TypeOK /\ Owned /\ Proper(kb) /\ text \in Lines /\ tryUndo \in BOOLEAN /\ lost \in BOOLEAN
  BY ProperIsTyped DEF HookShape, TypeOK, Lines
<1>2. /\ \E kind : Handle(kind)
      /\ kb' \in {Moved(kb, 1), Moved(kb, -1), Cleared}
      /\ text' \in {Line!CaretLeft(text), Line!CaretRight(text), Line!Blank}
      /\ ResetUndo /\ lost' \in BOOLEAN
      /\ UNCHANGED <<expanding, tryUndo, matched, posts, user, fault>>
  BY <1>1 DEF Arrow, Reset
<1>3. Proper(Moved(kb, 1)) /\ Proper(Moved(kb, -1)) /\ Proper(Cleared)
  BY <1>1, MovedIsProper, ClearedLine
<1>4. KbTypeOK' /\ text' \in Lines
  BY <1>1, <1>2, <1>3, ProperThen, KeysMakeLines
<1>5. stream' \in Seq(Events) /\ SourceOK'
  BY <1>1, <1>2, HandledShape, SourceStays DEF TypeOK, SourceOK
<1> QED
  BY <1>1, <1>2, <1>4, <1>5 DEF HookShape, TypeOK, SourceOK, Owned, matched, user, Lines

(* A step that leaves the buffer, the line and what the hook waits for.        *)
LEMMA StreamShape ==
    ASSUME HookShape, UNCHANGED <<kb, undoing, matched, text>>,
           expanding' \in BOOLEAN, lost' \in BOOLEAN, astray' \in BOOLEAN,
           stream' \in Seq(Events), posts' \in Seq(Events),
           held' \subseteq Keys, presses' \in 0 .. MaxKeys, loaded' \subseteq loaded,
           fault' \in {"none", "keyup"}
    PROVE  HookShape'
BY DEF HookShape, TypeOK, Owned, undoing, matched, KbTypeOK, Size

(* Every step keeps the shape.                                                 *)
LEMMA NextShape == HookShape /\ [Next]_vars => HookShape'
<1> SUFFICES ASSUME HookShape, [Next]_vars PROVE HookShape'
  OBVIOUS
<1>0. /\ TypeOK /\ stream \in Seq(Events) /\ posts \in Seq(Events)
      /\ expanding \in BOOLEAN /\ lost \in BOOLEAN /\ astray \in BOOLEAN
      /\ held \subseteq Keys
      /\ presses \in 0 .. MaxKeys /\ fault \in {"none", "keyup"}
  BY DEF HookShape, TypeOK
<1>1. CASE KeyDown \/ BackSpaceHeld \/ BackSpaceDown \/ KeyUp \/ Arrow \/ Reset
  BY <1>1, KeyDownShape, BackSpaceShape, KeyUpShape, ArrowShape
<1>2. CASE KeyUpIgnored \/ KeyUpCrash \/ ToggleExpanding
  <2>1. /\ \E kind : Handle(kind)
        /\ UNCHANGED <<kb, undoing, matched, posts, text, user, lost>>
        /\ expanding' \in BOOLEAN /\ fault' \in {"none", "keyup"}
    BY <1>0, <1>2 DEF KeyUpIgnored, KeyUpCrash, ToggleExpanding, Switched
  <2>2. stream' \in Seq(Events)
    BY <1>0, <2>1, HandledShape
  <2> QED
    BY <1>0, <2>1, <2>2, StreamShape DEF user
<1>3. CASE Post
  <2>1. /\ posts # <<>> /\ stream' = Append(stream, Head(posts)) /\ posts' = Tail(posts)
        /\ UNCHANGED <<kb, expanding, undoing, matched, text, user, lost, fault>>
    BY <1>3 DEF Post
  <2>2. stream' \in Seq(Events) /\ posts' \in Seq(Events)
    BY <1>0, <2>1, TogglesOfTail, TogglesOfAppend
  <2> QED
    BY <1>0, <2>1, <2>2, StreamShape DEF user
<1>4. ASSUME NEW key \in Keys, Press(key) \/ Release(key) PROVE HookShape'
  <2>1. /\ \E e \in {Event("down", key), Event("up", key)} : stream' = Append(stream, e)
        /\ held' \subseteq Keys
        /\ UNCHANGED <<kb, expanding, undoing, matched, posts, text, loaded, lost, fault>>
    BY <1>0, <1>4 DEF Press, Release
  <2>2. presses' \in 0 .. MaxKeys
    BY <1>0, <1>4, KeyBufferAssumption DEF Press, Release, MayPress
  <2>3. stream' \in Seq(Events)
    BY <1>0, <2>1, EventIsOne, TogglesOfAppend
  <2>4. astray' \in BOOLEAN
    BY <1>0, <1>4 DEF Press, Release
  <2> QED
    BY <1>0, <2>1, <2>2, <2>3, <2>4, StreamShape
<1>5. ASSUME NEW kind \in Excursions, Excursion(kind) PROVE HookShape'
  <2>1. /\ stream' = Append(stream, Event(kind, BackSpace))
        /\ UNCHANGED <<kb, expanding, undoing, matched, posts, text, held, loaded, lost, fault>>
    BY <1>5 DEF Excursion
  <2>2. presses' \in 0 .. MaxKeys
    BY <1>0, <1>5, KeyBufferAssumption DEF Excursion, MayPress
  <2>3. stream' \in Seq(Events)
    BY <1>0, <2>1, EventIsOne, TogglesOfAppend, KeyHookAssumption DEF Keys
  <2>4. astray' \in BOOLEAN
    BY <1>5 DEF Excursion
  <2> QED
    BY <1>0, <2>1, <2>2, <2>3, <2>4, StreamShape
<1>6. ASSUME NEW i \in Removable, Unload(i) PROVE HookShape'
  BY <1>0, <1>6, StreamShape DEF Unload
<1>7. CASE UNCHANGED vars
  BY <1>0, <1>7, StreamShape DEF vars, user
<1> QED
  BY <1>1, <1>2, <1>3, <1>4, <1>5, <1>6, <1>7 DEF Next, Hook, Done

(* The first state has it.                                                     *)
LEMMA InitShape == Init => HookShape
<1> SUFFICES ASSUME Init PROVE HookShape
  OBVIOUS
<1>1. <<>> \in Seq(Events)
  BY EmptySeq
<1>2. KbTypeOK
  BY ClearedLine, ProperIsTyped DEF Init, KbInit
<1>3. text \in [left : Seq(Chars), right : Seq(Chars)]
  BY EmptySeq DEF Init, Line!Blank
<1>4. settings.cursor \in Nat /\ settings.undoable \in BOOLEAN
  BY DEF Init, NoMatch
<1>5. /\ source = None \/ \E s \in source : source = {s} /\ s \in Seq(Chars)
      /\ expandLen \in Nat /\ expandTag \in {0} \cup DOMAIN Table /\ loaded \subseteq DOMAIN Table
  BY DEF Init
<1>6. presses \in 0 .. MaxKeys
  BY KeyBufferAssumption DEF Init
<1>7. {expanding, tryUndo, tryExpand, lost, astray} \subseteq BOOLEAN /\ Owned
  BY DEF Init, Owned
<1>8. {stream, posts} \subseteq Seq(Events) /\ held \subseteq Keys /\ fault \in {"none", "keyup"}
  BY <1>1 DEF Init
<1> QED
  BY <1>2, <1>3, <1>4, <1>5, <1>6, <1>7, <1>8 DEF HookShape, TypeOK

(* Every variable of the hook keeps its type, for any keys and any table: a    *)
(* match that is found fits the buffer (keyhook_check_for_match), and what is  *)
(* sent, typed again or deleted is made of keys.                               *)
THEOREM TypeCorrect == Spec => []TypeOK
<1>1. HookShape => TypeOK
  BY DEF HookShape
<1> QED
  BY <1>1, InitShape, NextShape, PTL DEF Spec
-----------------------------------------------------------------------------
(* The toggles that are still to come tell whether an expansion is under way.  *)
LEMMA BracketedStep == HookShape /\ ExpandingIsBracketed /\ [Next]_vars => ExpandingIsBracketed'
<1> SUFFICES ASSUME HookShape, ExpandingIsBracketed, [Next]_vars PROVE ExpandingIsBracketed'
  OBVIOUS
<1>1. /\ TypeOK /\ stream \in Seq(Events) /\ posts \in Seq(Events) /\ expanding \in BOOLEAN
      /\ stream' \in Seq(Events) /\ posts' \in Seq(Events) /\ expanding' \in BOOLEAN
  BY NextShape DEF HookShape, TypeOK
<1> DEFINE n == Toggles(stream) + Toggles(posts)
           m == Toggles(stream') + Toggles(posts')
<1>2. (expanding <=> n % 2 = 1) /\ (ExpandingIsBracketed' <=> (expanding' <=> m % 2 = 1))
  <2>1. Toggles(stream \o posts) = n /\ Toggles(stream' \o posts') = m
    BY <1>1, TogglesOfConcat
  <2>2. Toggles(stream \o posts)' = Toggles(stream' \o posts')
    BY DEF Toggles
  <2> HIDE DEF n, m
  <2> QED
    BY <2>1, <2>2 DEF ExpandingIsBracketed
<1>3. /\ Toggles(stream) \in Nat /\ Toggles(posts) \in Nat
      /\ Toggles(stream') \in Nat /\ Toggles(posts') \in Nat
  BY <1>1, CountOfAt
<1>4. CASE expanding' = expanding /\ m = n
  BY <1>2, <1>4
<1>5. CASE KeyDown \/ BackSpaceHeld \/ BackSpaceDown \/ Arrow \/ Reset \/ KeyUpIgnored \/ KeyUpCrash
  <2>1. /\ \E kind \in {"down", "up", "left", "right", "reset"} : Handle(kind)
        /\ UNCHANGED <<posts, expanding>>
    BY <1>5 DEF KeyDown, BackSpaceHeld, BackSpaceDown, Arrow, Reset, KeyUpIgnored, KeyUpCrash
  <2>2. Toggles(stream) = Toggles(stream')
    BY <1>1, <1>3, <2>1, HandledShape DEF Toggle, Event
  <2> QED
    BY <1>4, <2>1, <2>2
<1>6. CASE KeyUp
  <2>1. Handle("up") /\ expanding' = expanding
    BY <1>6 DEF KeyUp
  <2>2. Toggles(stream) = Toggles(stream') /\ posts = <<>>
    BY <1>1, <1>3, <2>1, HandledShape DEF Toggle, Event
  <2>3. Toggles(posts) = 0 /\ Toggles(posts') \in {0, 2, 4}
    BY <1>6, <2>2, KeyUpPosts, NoneOrOne
  <2>4. n % 2 = m % 2
    BY <1>3, <2>2, <2>3
  <2> HIDE DEF n, m
  <2> QED
    BY <1>2, <2>1, <2>4
<1>7. CASE ToggleExpanding
  <2>1. Handle("toggle") /\ expanding' = ~expanding /\ posts' = posts
    BY <1>7 DEF ToggleExpanding, Switched
  <2>2. Toggles(stream) = Toggles(stream') + 1
    <3>1. Head(stream) = Toggle
      BY <1>1, <2>1, HandledShape, OneToggle
    <3> QED
      BY <1>1, <1>3, <2>1, <3>1, HandledShape
  <2>3. m \in Nat /\ n = m + 1
    BY <1>3, <2>1, <2>2
  <2> HIDE DEF n, m
  <2>4. n % 2 = 1 <=> m % 2 # 1
    BY <2>3
  <2> QED
    BY <1>1, <1>2, <2>1, <2>4
<1>8. CASE Post
  <2>1. /\ posts # <<>> /\ stream' = Append(stream, Head(posts)) /\ posts' = Tail(posts)
        /\ expanding' = expanding
    BY <1>8 DEF Post
  <2>2. /\ Head(posts) \in Events
        /\ Toggles(posts) = (IF Head(posts) = Toggle THEN 1 ELSE 0) + Toggles(posts')
    BY <1>1, <2>1, TogglesOfTail
  <2>3. Toggles(stream') = Toggles(stream) + IF Head(posts) = Toggle THEN 1 ELSE 0
    BY <1>1, <2>1, <2>2, TogglesOfAppend
  <2>4. m = n
    BY <1>3, <2>2, <2>3
  <2> QED
    BY <1>4, <2>1, <2>4
<1>9. ASSUME NEW kind \in {"down", "up", "left", "right", "reset"}, NEW key \in Keys,
             Event(kind, key) \in Events,
             stream' = Append(stream, Event(kind, key)), UNCHANGED <<posts, expanding>>
      PROVE  ExpandingIsBracketed'
  <2>1. Event(kind, key) \in Events /\ Event(kind, key) # Toggle
    BY <1>9 DEF Event, Toggle
  <2>2. Toggles(stream') = Toggles(stream)
    BY <1>1, <1>3, <1>9, <2>1, TogglesOfAppend
  <2> QED
    BY <1>4, <1>9, <2>2
<1>10. ASSUME NEW key \in Keys, Press(key) \/ Release(key) PROVE ExpandingIsBracketed'
  BY <1>9, <1>10, EventIsOne DEF Press, Release
<1>11. ASSUME NEW kind \in Excursions, Excursion(kind) PROVE ExpandingIsBracketed'
  BY <1>9, <1>11, EventIsOne, KeyHookAssumption DEF Excursion, Keys
<1>12. CASE (\E i \in Removable : Unload(i)) \/ UNCHANGED vars
  BY <1>4, <1>12 DEF Unload, vars
<1> QED
  BY <1>5, <1>6, <1>7, <1>8, <1>10, <1>11, <1>12 DEF Next, Hook, Done

(* keyhook_is_expanding is on exactly between the two empty keys around texc's *)
(* own, for any table, any number of keys held, and any number of expansions   *)
(* and undos under way: it never comes out inverted (keyhook_handle_keydown,   *)
(* keyhook_expand_matched).                                                    *)
THEOREM ExpandingBracketed == Spec => []ExpandingIsBracketed
<1>1. Init => ExpandingIsBracketed
  <2>1. <<>> \in Seq(Events) /\ Toggles(<<>>) = 0 /\ 0 % 2 # 1
    BY NoneOrOne, EmptySeq
  <2>2. Toggles(<<>> \o <<>>) = 0
    BY <2>1, TogglesOfConcat
  <2> QED
    BY <2>1, <2>2 DEF Init, ExpandingIsBracketed
<1> QED
  BY <1>1, InitShape, NextShape, BracketedStep, PTL DEF Spec
-----------------------------------------------------------------------------
(* Every step does to the line what it does to the buffer, counting a          *)
(* backspace that waits, or is one FollowsText excepts.                        *)
LEMMA FollowsStep == HookShape /\ FollowsText /\ [Next]_vars => FollowsText'
<1> SUFFICES ASSUME HookShape, FollowsText, [Next]_vars, ~lost'
             PROVE  text' = IF tryUndo' THEN LineOf(Popped(kb')) ELSE LineOf(kb')
  BY DEF FollowsText, LineOf, Popped, PopIndex, PopCursor, Size
<1>1. Proper(kb) /\ tryUndo \in BOOLEAN /\ Proper(Popped(kb))
  BY ProperIsTyped, PoppedIsProper DEF HookShape, TypeOK
<1>2. ~lost => text = IF tryUndo THEN LineOf(Popped(kb)) ELSE LineOf(kb)
  BY DEF FollowsText
<1>3. CASE UNCHANGED <<kb, text, tryUndo, lost>>
  BY <1>2, <1>3
<1>4. CASE KeyDown
  <2> DEFINE c == Head(stream).key
  <2>1. /\ c \in Chars /\ ~lost /\ ~tryUndo /\ ~tryUndo'
        /\ \/ kb' = Cleared /\ text' = Line!Blank
           \/ kb' = Pushed(kb, c) /\ text' = Line!Inserted(text, c)
    BY <1>4 DEF KeyDown
  <2>2. LineOf(Pushed(kb, c)) = Line!Inserted(LineOf(kb), c)
    BY <1>1, <2>1, PushedLine DEF Typed!Inserted, Line!Inserted
  <2> HIDE DEF c
  <2> QED
    BY <1>2, <2>1, <2>2, ClearedLine DEF Typed!Blank, Line!Blank
<1>5. CASE BackSpaceHeld
  <2>1. ~lost /\ ~tryUndo /\ tryUndo' /\ kb' = kb /\ text' = Line!Erased(text) /\ PopFollows(kb)
    BY <1>5 DEF BackSpaceHeld, UndoPossible
  <2> QED
    BY <1>1, <1>2, <2>1, PoppedLine DEF Typed!Erased, Typed!Shortened, Line!Erased, Line!Shortened
<1>6. CASE BackSpaceDown
  <2>1. /\ ~lost /\ ~tryUndo' /\ text' = Line!Erased(text) /\ PopFollows(kb)
        /\ tryUndo => kb' = Popped(Popped(kb)) /\ PopFollows(Popped(kb))
        /\ ~tryUndo => kb' = Popped(kb)
    BY <1>6 DEF BackSpaceDown, MadeUpFor
  <2>2. LineOf(Popped(kb)) = Line!Erased(LineOf(kb))
    BY <1>1, <2>1, PoppedLine DEF Typed!Erased, Typed!Shortened, Line!Erased, Line!Shortened
  <2>3. tryUndo => LineOf(Popped(Popped(kb))) = Line!Erased(LineOf(Popped(kb)))
    BY <1>1, <2>1, PoppedLine DEF Typed!Erased, Typed!Shortened, Line!Erased, Line!Shortened
  <2> QED
    BY <1>1, <1>2, <2>1, <2>2, <2>3
<1>7. CASE KeyUp
  <2>1. ~lost /\ ~tryUndo' /\ text' = text /\ kb' = IF tryUndo THEN Popped(kb) ELSE kb
    BY <1>7 DEF KeyUp
  <2> QED
    BY <1>1, <1>2, <2>1
<1>8. CASE Arrow
  <2>1. /\ ~lost /\ ~tryUndo /\ ~tryUndo'
        /\ \/ kb' = Moved(kb, 1) /\ text' = Line!CaretLeft(text)
           \/ kb' = Moved(kb, -1) /\ text' = Line!CaretRight(text)
    BY <1>8 DEF Arrow
  <2>2. LineOf(Moved(kb, 1)) = Line!CaretLeft(LineOf(kb))
    BY <1>1, MovedLeftLine DEF Typed!CaretLeft, Typed!Shortened, Line!CaretLeft, Line!Shortened
  <2>3. LineOf(Moved(kb, -1)) = Line!CaretRight(LineOf(kb))
    BY <1>1, MovedRightLine DEF Typed!CaretRight, Line!CaretRight
  <2> QED
    BY <1>2, <2>1, <2>2, <2>3
<1>9. CASE Reset
  BY <1>9, ClearedLine DEF Reset, Typed!Blank, Line!Blank
<1>10. \/ KeyDown \/ BackSpaceHeld \/ BackSpaceDown \/ KeyUp \/ Arrow \/ Reset
       \/ UNCHANGED <<kb, text, tryUndo, lost>>
  BY DEF Next, Hook, Done, KeyUpIgnored, KeyUpCrash, ToggleExpanding, Post, Press, Release,
         Excursion, Unload, vars, undoing
<1> QED
  BY <1>3, <1>4, <1>5, <1>6, <1>7, <1>8, <1>9, <1>10

(* The key buffer holds the line of the application, caret included, whatever  *)
(* keys come from the user and from texc in whatever order, until it must lose *)
(* track of it, and again from the next reset on (keyhook_handle_keydown,      *)
(* keyhook_handle_backspace, keyhook_handle_keyup).                            *)
THEOREM FollowsApplication == Spec => []FollowsText
<1>1. Init => FollowsText
  BY ClearedLine DEF Init, KbInit, FollowsText, Typed!Blank, Line!Blank
<1> QED
  BY <1>1, InitShape, NextShape, FollowsStep, PTL DEF Spec

-----------------------------------------------------------------------------
(* A user who waits for texc: one key at a time, the next one when the one     *)
(* before has been answered, and nothing is removed meanwhile.  The invariant  *)
(* goes through the stages from a key to the next one, and says in each what   *)
(* the line will be when all that is on its way has arrived.                   *)

Patient == ~TypeAhead /\ MaxHeld = 1 /\ Removable = {}

\* An expansion of plain text types a character at least, and they are counted right.
PlainCounts ==
    \A i \in DOMAIN Table : Undoable(Table[i]) =>
        Table[i].typed # <<>> /\ Table[i].counted = Len(Table[i].typed)

-----------------------------------------------------------------------------
(* What texc sends                                                             *)

\* The rest of an expansion or an undo: d backspaces, the characters t, the toggle
Erasing(d, t) == Repeated("down", d) \o Strokes(t) \o <<Toggle>>

\* All of it, with r arrows to the end of the line before
Marking(r, d, t) == Repeated("right", r) \o <<Toggle>> \o Erasing(d, t)

Coming == stream \o posts

-----------------------------------------------------------------------------
(* The stages                                                                  *)

Quiet == ~tryExpand /\ ~tryUndo

\* A key is down and has not been handled yet.
Struck(key) ==
    /\ posts = <<>> /\ ~expanding /\ Quiet
    /\ \/ held = {key} /\ stream = <<Event("down", key)>>
       \/ held = {} /\ stream = <<Event("down", key), Event("up", key)>>

\* It has been handled, its release has not.
Taken(key) ==
    /\ posts = <<>> /\ ~expanding /\ Sound /\ ~(tryExpand /\ tryUndo)
    /\ \/ held = {key} /\ stream = <<>>
       \/ held = {} /\ stream = <<Event("up", key)>>

\* An arrow or a click
Away(kind) ==
    held = {} /\ posts = <<>> /\ ~expanding /\ Quiet /\ stream = <<Event(kind, BackSpace)>>

Resting == held = {} /\ ~expanding /\ Quiet /\ Coming = <<>>

Marked(r, d, t) == held = {} /\ ~expanding /\ Quiet /\ Coming = Marking(r, d, t)

Typing(d, t) == held = {} /\ expanding /\ Quiet /\ Coming = Erasing(d, t)

-----------------------------------------------------------------------------
(* What is to become of the line                                               *)

Sure == ~lost /\ ~astray /\ PlainCounts

Kept(chars, n) == SubSeq(chars, 1, n)

\* The line when d characters at its end are gone and t is typed instead
Replaced(l, d, t) ==
    [left |-> Kept(Line!Whole(l), Len(Line!Whole(l)) - d) \o t, right |-> <<>>]

\* Of what the user expects to be able to undo, what texc's own arrows leave
Undone == IF ideal.inside THEN None ELSE ideal.source

Agreed == Undone = source /\ (source # None => ideal.typed = expandLen)

\* What can be undone is left of the caret, which is at the end.
SourceFits ==
    source # None => expandLen >= 1 /\ expandLen <= Len(text.left) /\ text.right = <<>>

\* IdealTyped and IdealErased, from a line
TypedOn(l, c) ==
    LET line == Line!Inserted(l, c)
        whole == Line!Whole(line)
        hits == Hits(whole)
        entry == Table[Least(hits)]
    IN CASE hits # {} ->
              Expected([left |-> Kept(whole, Len(whole) - Len(entry.match)) \o entry.typed,
                        right |-> <<>>],
                       IF Undoable(entry) THEN {entry.match} ELSE None,
                       Len(entry.typed), line.right # <<>>)
         [] hits = {} /\ ResetOnEnter /\ c = Enter /\ line.right # <<>> -> Plain(Line!Blank)
         [] OTHER -> Plain(line)

ErasedOn(l) ==
    IF source = None THEN Plain(Line!Erased(l))
    ELSE Plain([left |-> Kept(l.left, Len(l.left) - expandLen) \o CHOOSE s \in source : TRUE,
                right |-> <<>>])

After(key) == IF key = BackSpace THEN ErasedOn(text) ELSE TypedOn(text, key)

AfterAway(kind) ==
    Plain(CASE kind = "left" -> Line!CaretLeft(text)
            [] kind = "right" -> Line!CaretRight(text)
            [] kind = "reset" -> Line!Blank)

\* What the release brings: the match is replaced, or the expansion taken back.
Due ==
    /\ Quiet => ideal.line = text /\ Agreed
    /\ tryExpand =>
         LET entry == Table[expandTag]
             whole == Line!Whole(text)
         IN /\ source = None /\ settings.undoable = entry.silent /\ settings.cursor <= Len(whole)
            /\ ideal = Expected(Replaced(text, Len(whole) - settings.cursor, entry.typed),
                                IF Undoable(entry)
                                THEN {SubSeq(whole, settings.cursor + 1, Len(whole))} ELSE None,
                                Len(entry.typed), text.right # <<>>)
    /\ tryUndo =>
         /\ expandLen >= 1 /\ expandLen <= Len(text.left) + 1 /\ text.right = <<>>
         /\ ideal = Plain(Replaced(text, expandLen - 1, CHOOSE s \in source : TRUE))

\* A line is expected, and on it what a backspace would take back.
Fits(expected) ==
    /\ expected.line \in Lines
    /\ expected.source = None \/ \E s \in Seq(Chars) : expected.source = {s}
    /\ expected.source # None =>
         /\ expected.typed \in Nat \ {0} /\ expected.typed <= Len(expected.line.left)
         /\ expected.line.right = <<>>

IdealFits == PlainCounts => Fits(ideal)

MarkedMeant(r, d, t) ==
    /\ r = Len(text.right) /\ d <= Len(Line!Whole(text)) /\ ideal.line = Replaced(text, d, t)
    /\ IF r = 0 THEN Agreed ELSE Undone = None

TypingMeant(d, t) ==
    /\ text.right = <<>> /\ d <= Len(text.left) /\ ideal.line = Replaced(text, d, t)
    /\ Agreed

StruckNow == \E key \in Keys : Struck(key) /\ (Sure => SourceFits /\ ideal = After(key))
TakenNow == \E key \in Keys : Taken(key) /\ (Sure => Due)
AwayNow ==
    \E kind \in Excursions : Away(kind) /\ (Sure \/ kind = "reset" => ideal = AfterAway(kind))
RestingNow == Resting /\ (Sure => ideal.line = text /\ Agreed)
MarkedNow ==
    \E r, d \in Nat, t \in Seq(Chars) : Marked(r, d, t) /\ (Sure => MarkedMeant(r, d, t))
TypingNow == \E d \in Nat, t \in Seq(Chars) : Typing(d, t) /\ (Sure => TypingMeant(d, t))

PatientInv ==
    /\ fault = "none" /\ loaded = DOMAIN Table /\ IdealFits
    /\ StruckNow \/ TakenNow \/ AwayNow \/ RestingNow \/ MarkedNow \/ TypingNow
-----------------------------------------------------------------------------
(* Sequences of events                                                         *)

(* The first event of two sequences, one after the other                       *)
LEMMA FirstOfConcat ==
    ASSUME NEW s \in Seq(Events), NEW t \in Seq(Events), s # <<>>
    PROVE  /\ s \o t # <<>> /\ Head(s \o t) = Head(s) /\ Tail(s \o t) = Tail(s) \o t
           /\ Tail(s) \in Seq(Events)
<1>1. /\ Head(s) \in Events /\ Tail(s) \in Seq(Events) /\ s = <<Head(s)>> \o Tail(s)
      /\ <<Head(s)>> \in Seq(Events)
  BY TogglesOfTail
<1> DEFINE e == Head(s)
           rest == Tail(s) \o t
<1>2. rest \in Seq(Events) /\ s \o t = <<e>> \o rest
  <2>1. (<<e>> \o Tail(s)) \o t = <<e>> \o (Tail(s) \o t)
    BY <1>1, ConcatAssociative
  <2> QED
    BY <1>1, <2>1, ConcatProperties
<1> HIDE DEF rest
<1>3. e \in Events
  BY <1>1
<1> HIDE DEF e
<1>4. <<e>> \o rest # <<>> /\ Head(<<e>> \o rest) = e /\ Tail(<<e>> \o rest) = rest
  <2>1. /\ <<e>> \in Seq(Events) /\ Len(<<e>>) = 1 /\ <<e>>[1] = e
    BY <1>3
  <2>2. /\ <<e>> \o rest \in Seq(Events) /\ Len(<<e>> \o rest) = 1 + Len(rest)
        /\ \A i \in 1 .. 1 + Len(rest) :
              (<<e>> \o rest)[i] = IF i <= 1 THEN <<e>>[i] ELSE rest[i - 1]
    BY <1>2, <2>1, ConcatProperties
  <2>3. Len(rest) \in Nat
    BY <1>2, LenProperties
  <2> DEFINE all == <<e>> \o rest
  <2>4. all \in Seq(Events) /\ Len(all) = 1 + Len(rest) /\ all[1] = e
        /\ \A i \in 1 .. Len(rest) : all[i + 1] = rest[i]
    <3>1. \A i \in 1 .. Len(rest) :
             i + 1 \in 1 .. 1 + Len(rest) /\ ~(i + 1 <= 1) /\ (i + 1) - 1 = i
      BY <2>3
    <3>2. 1 \in 1 .. 1 + Len(rest)
      BY <2>3
    <3> QED
      BY <2>1, <2>2, <3>1, <3>2
  <2> HIDE DEF all
  <2>5. all # <<>>
    BY <2>3, <2>4, EmptySeq
  <2>6. Tail(all) \in Seq(Events) /\ Len(Tail(all)) = Len(rest)
        /\ \A i \in 1 .. Len(rest) : Tail(all)[i] = rest[i]
    <3>1. /\ Tail(all) \in Seq(Events) /\ Len(Tail(all)) = Len(all) - 1
          /\ \A i \in 1 .. Len(Tail(all)) : Tail(all)[i] = all[i + 1]
      BY <2>4, <2>5, HeadTailProperties
    <3>2. Len(Tail(all)) = Len(rest)
      BY <2>3, <2>4, <3>1
    <3> QED
      BY <2>4, <3>1, <3>2
  <2>7. Tail(all) = rest
    BY <1>2, <2>6, SeqEqual
  <2>8. Head(all) = e
    BY <2>4 DEF Head
  <2> QED
    BY <2>5, <2>7, <2>8 DEF all
<1> QED
  BY <1>1, <1>2, <1>4 DEF e, rest

(* One event and then others                                                   *)
LEMMA FirstOfOne ==
    ASSUME NEW e \in Events, NEW t \in Seq(Events)
    PROVE  /\ <<e>> \o t \in Seq(Events) /\ <<e>> \o t # <<>>
           /\ Head(<<e>> \o t) = e /\ Tail(<<e>> \o t) = t
<1>1. <<e>> \in Seq(Events) /\ <<e>> # <<>> /\ Head(<<e>>) = e /\ Tail(<<e>>) = <<>>
  OBVIOUS
<1>2. <<>> \o t = t
  BY ConcatEmptySeq
<1> QED
  BY <1>1, <1>2, FirstOfConcat, ConcatProperties

(* The first of an event repeated                                              *)
LEMMA FirstRepeated ==
    ASSUME NEW kind \in {"down", "right"}, NEW n \in Nat \ {0}
    PROVE  /\ Repeated(kind, n) # <<>> /\ Head(Repeated(kind, n)) = Event(kind, BackSpace)
           /\ Tail(Repeated(kind, n)) = Repeated(kind, n - 1)
<1> DEFINE e == Event(kind, BackSpace)
           all == Repeated(kind, n)
           rest == Repeated(kind, n - 1)
<1>1. e \in Events
  BY EventIsOne
<1>2. all = [i \in 1 .. n |-> e] /\ rest = [i \in 1 .. n - 1 |-> e]
  BY DEF Repeated
<1> HIDE DEF e, all, rest
<1>3. all \in [1 .. n -> Events] /\ rest \in [1 .. n - 1 -> Events]
  BY <1>1, <1>2
<1>4. /\ all \in Seq(Events) /\ Len(all) = n /\ rest \in Seq(Events) /\ Len(rest) = n - 1
      /\ all[1] = e
  BY <1>2, <1>3
<1>5. all # <<>>
  BY <1>4, EmptySeq
<1>6. /\ Tail(all) \in Seq(Events) /\ Len(Tail(all)) = n - 1
      /\ \A i \in 1 .. n - 1 : Tail(all)[i] = all[i + 1]
  BY <1>4, <1>5, HeadTailProperties
<1>7. \A i \in 1 .. n - 1 : Tail(all)[i] = rest[i]
  BY <1>2, <1>6
<1>8. Tail(all) = rest
  BY <1>4, <1>6, <1>7, SeqEqual
<1>9. Head(all) = e
  BY <1>4 DEF Head
<1> QED
  BY <1>5, <1>8, <1>9 DEF e, all, rest

(* The first of the strokes of a text                                          *)
LEMMA FirstStroke ==
    ASSUME NEW t \in Seq(Chars), t # <<>>
    PROVE  /\ Strokes(t) # <<>> /\ Head(Strokes(t)) = Event("down", Head(t))
           /\ Tail(Strokes(t)) = Strokes(Tail(t))
<1> DEFINE all == Strokes(t)
           rest == Strokes(Tail(t))
           n == Len(t)
<1>1. /\ n \in Nat \ {0} /\ Tail(t) \in Seq(Chars) /\ Len(Tail(t)) = n - 1
      /\ \A i \in 1 .. n - 1 : Tail(t)[i] = t[i + 1]
  BY EmptySeq, HeadTailProperties
<1>2. Head(t) = t[1]
  BY DEF Head
<1>3. all \in Seq(Events) /\ Len(all) = n /\ rest \in Seq(Events) /\ Len(rest) = n - 1
  BY <1>1, StrokesAreEvents
<1>4. /\ \A i \in 1 .. n : all[i] = Event("down", t[i])
      /\ \A i \in 1 .. n - 1 : rest[i] = Event("down", Tail(t)[i])
  BY <1>1 DEF Strokes
<1> HIDE DEF all, rest, n
<1>5. all # <<>>
  BY <1>1, <1>3, EmptySeq
<1>6. /\ Tail(all) \in Seq(Events) /\ Len(Tail(all)) = n - 1
      /\ \A i \in 1 .. n - 1 : Tail(all)[i] = all[i + 1]
  BY <1>3, <1>5, HeadTailProperties
<1>7. \A i \in 1 .. n - 1 : Tail(all)[i] = rest[i]
  <2> TAKE i \in 1 .. n - 1
  <2>1. i + 1 \in 1 .. n
    BY <1>1
  <2> QED
    BY <1>1, <1>4, <1>6, <2>1
<1>8. Tail(all) = rest
  BY <1>3, <1>6, <1>7, SeqEqual
<1>9. Head(all) = Event("down", t[1])
  <2>1. 1 \in 1 .. n
    BY <1>1
  <2> QED
    BY <1>4, <2>1 DEF Head
<1> QED
  BY <1>2, <1>5, <1>8, <1>9 DEF all, rest

(* What an expansion or an undo types comes event by event.                    *)
LEMMA ErasingFirst ==
    ASSUME NEW d \in Nat, NEW t \in Seq(Chars)
    PROVE  /\ Erasing(d, t) \in Seq(Events) /\ Erasing(d, t) # <<>>
           /\ d # 0 => /\ Head(Erasing(d, t)) = Event("down", BackSpace)
                       /\ Tail(Erasing(d, t)) = Erasing(d - 1, t)
           /\ d = 0 /\ t # <<>> => /\ Head(Erasing(d, t)) = Event("down", Head(t))
                                   /\ Tail(Erasing(d, t)) = Erasing(0, Tail(t))
           /\ d = 0 /\ t = <<>> => /\ Head(Erasing(d, t)) = Toggle
                                   /\ Tail(Erasing(d, t)) = <<>>
<1> DEFINE downs == Repeated("down", d)
           typed == Strokes(t)
           one == <<Toggle>>
<1>1. /\ downs \in Seq(Events) /\ typed \in Seq(Events) /\ one \in Seq(Events) /\ one # <<>>
      /\ Head(one) = Toggle /\ Tail(one) = <<>>
  <2>1. downs \in Seq(Events)
    BY RepeatedAreEvents
  <2>2. typed \in Seq(Events)
    BY StrokesAreEvents
  <2>3. one \in Seq(Events) /\ one # <<>> /\ Head(one) = Toggle /\ Tail(one) = <<>>
    BY ToggleIsOne
  <2> QED
    BY <2>1, <2>2, <2>3
<1>2. Erasing(d, t) = (downs \o typed) \o one
  BY DEF Erasing
<1>3. downs \o typed \in Seq(Events)
  BY <1>1, ConcatProperties
<1>4. Erasing(d, t) \in Seq(Events) /\ Erasing(d, t) # <<>>
  <2> HIDE DEF downs, typed, one
  <2>1. (downs \o typed) \o one \in Seq(Events)
    BY <1>1, <1>3, ConcatProperties
  <2>2. (downs \o typed) \o one # <<>>
    BY <1>1, <1>3, ConcatEqualIffEmpty
  <2> QED
    BY <1>2, <2>1, <2>2
<1>5. CASE d # 0
  <2>1. /\ downs # <<>> /\ Head(downs) = Event("down", BackSpace)
        /\ Tail(downs) = Repeated("down", d - 1)
    BY <1>5, FirstRepeated
  <2> HIDE DEF downs, typed, one
  <2>2. /\ downs \o typed # <<>> /\ Head(downs \o typed) = Head(downs)
        /\ Tail(downs \o typed) = Tail(downs) \o typed
    BY <1>1, <2>1, FirstOfConcat
  <2>3. /\ Head((downs \o typed) \o one) = Head(downs)
        /\ Tail((downs \o typed) \o one) = (Tail(downs) \o typed) \o one
    BY <1>1, <1>3, <2>2, FirstOfConcat
  <2> QED
    BY <1>2, <1>4, <1>5, <2>1, <2>3 DEF Erasing, typed, one
<1>6. CASE d = 0
  <2>1. downs = <<>> /\ downs \o typed = typed
    BY <1>1, <1>6, ConcatEmptySeq DEF Repeated
  <2>2. CASE t # <<>>
    <3>1. /\ typed # <<>> /\ Head(typed) = Event("down", Head(t))
          /\ Tail(typed) = Strokes(Tail(t))
      BY <2>2, FirstStroke
    <3>2. Head(typed \o one) = Head(typed) /\ Tail(typed \o one) = Tail(typed) \o one
      <4> HIDE DEF typed, one
      <4> QED
        BY <1>1, <3>1, FirstOfConcat
    <3>3. Tail(t) \in Seq(Chars)
      BY <2>2, HeadTailProperties
    <3>4. Erasing(0, Tail(t)) = Strokes(Tail(t)) \o one
      <4>1. Strokes(Tail(t)) \in Seq(Events)
        BY <3>3, StrokesAreEvents
      <4> QED
        BY <4>1, ConcatEmptySeq DEF Erasing, Repeated
    <3> HIDE DEF downs, typed, one
    <3> QED
      BY <1>2, <1>4, <1>6, <2>1, <2>2, <3>1, <3>2, <3>4
  <2>3. CASE t = <<>>
    <3>1. typed = <<>> /\ typed \o one = one
      BY <1>1, <2>3, ConcatEmptySeq DEF Strokes
    <3> HIDE DEF downs, typed, one
    <3> QED
      BY <1>1, <1>2, <1>4, <1>6, <2>1, <2>3, <3>1
  <2> QED
    BY <2>2, <2>3
<1> QED
  BY <1>5, <1>6

(* And before it come the arrows to the end of the line and the first toggle.  *)
LEMMA MarkingFirst ==
    ASSUME NEW r \in Nat, NEW d \in Nat, NEW t \in Seq(Chars)
    PROVE  /\ Marking(r, d, t) \in Seq(Events) /\ Marking(r, d, t) # <<>>
           /\ r # 0 => /\ Head(Marking(r, d, t)) = Event("right", BackSpace)
                       /\ Tail(Marking(r, d, t)) = Marking(r - 1, d, t)
           /\ r = 0 => /\ Head(Marking(r, d, t)) = Toggle
                       /\ Tail(Marking(r, d, t)) = Erasing(d, t)
<1> DEFINE rights == Repeated("right", r)
           one == <<Toggle>>
           rest == Erasing(d, t)
<1>1. /\ rights \in Seq(Events) /\ one \in Seq(Events) /\ one # <<>>
      /\ Head(one) = Toggle /\ Tail(one) = <<>>
  <2>1. rights \in Seq(Events)
    BY RepeatedAreEvents
  <2>2. one \in Seq(Events) /\ one # <<>> /\ Head(one) = Toggle /\ Tail(one) = <<>>
    BY ToggleIsOne
  <2> QED
    BY <2>1, <2>2
<1>2. Marking(r, d, t) = (rights \o one) \o rest
  BY DEF Marking
<1>3. rest \in Seq(Events) /\ rest # <<>>
  BY ErasingFirst
<1> HIDE DEF rest
<1>4. rights \o one \in Seq(Events)
  BY <1>1, ConcatProperties
<1>5. Marking(r, d, t) \in Seq(Events) /\ Marking(r, d, t) # <<>>
  <2> HIDE DEF rights, one
  <2>1. (rights \o one) \o rest \in Seq(Events)
    BY <1>3, <1>4, ConcatProperties
  <2>2. (rights \o one) \o rest # <<>>
    BY <1>3, <1>4, ConcatEqualIffEmpty
  <2> QED
    BY <1>2, <2>1, <2>2
<1>6. CASE r # 0
  <2>1. /\ rights # <<>> /\ Head(rights) = Event("right", BackSpace)
        /\ Tail(rights) = Repeated("right", r - 1)
    BY <1>6, FirstRepeated
  <2> HIDE DEF rights, one
  <2>2. /\ rights \o one # <<>> /\ Head(rights \o one) = Head(rights)
        /\ Tail(rights \o one) = Tail(rights) \o one
    BY <1>1, <2>1, FirstOfConcat
  <2>3. /\ Head((rights \o one) \o rest) = Head(rights)
        /\ Tail((rights \o one) \o rest) = (Tail(rights) \o one) \o rest
    <3> DEFINE begin == rights \o one
    <3>1. begin \in Seq(Events) /\ begin # <<>>
      BY <1>4, <2>2
    <3> HIDE DEF begin
    <3>2. Head(begin \o rest) = Head(begin) /\ Tail(begin \o rest) = Tail(begin) \o rest
      BY <1>3, <3>1, FirstOfConcat
    <3> QED
      BY <2>2, <3>2 DEF begin
  <2> QED
    BY <1>2, <1>5, <1>6, <2>1, <2>3 DEF Marking, one, rest
<1>7. CASE r = 0
  <2>1. rights = <<>> /\ rights \o one = one
    BY <1>1, <1>7, ConcatEmptySeq DEF Repeated
  <2> HIDE DEF rights, one
  <2>2. Head(one \o rest) = Toggle /\ Tail(one \o rest) = <<>> \o rest
    BY <1>1, <1>3, FirstOfConcat
  <2>3. <<>> \o rest = rest
    BY <1>3, ConcatEmptySeq
  <2> QED
    BY <1>2, <1>5, <1>7, <2>1, <2>2, <2>3 DEF rest
<1> QED
  BY <1>6, <1>7
-----------------------------------------------------------------------------
(* Parts of a line                                                             *)

(* The first n characters of a text, and the first m of them.                  *)
LEMMA KeptFacts ==
    ASSUME NEW s \in Seq(Chars), NEW n \in Nat, n <= Len(s)
    PROVE  /\ Kept(s, n) \in Seq(Chars) /\ Len(Kept(s, n)) = n
           /\ \A m \in Nat : m <= n => Kept(Kept(s, n), m) = Kept(s, m)
           /\ Kept(s, Len(s)) = s
<1>1. Len(s) \in Nat /\ \A i \in 1 .. Len(s) : s[i] \in Chars
  BY LenProperties, ElementOfSeq
<1>2. \A m \in Nat : m <= Len(s) => /\ Kept(s, m) \in Seq(Chars) /\ Len(Kept(s, m)) = m
                                    /\ \A i \in 1 .. m : Kept(s, m)[i] = s[i]
  <2>1. SUFFICES ASSUME NEW m \in Nat, m <= Len(s)
                 PROVE  /\ Kept(s, m) \in Seq(Chars) /\ Len(Kept(s, m)) = m
                        /\ \A i \in 1 .. m : Kept(s, m)[i] = s[i]
    OBVIOUS
  <2>2. 1 \in Int /\ m \in Int /\ \A i \in 1 .. m : s[i] \in Chars
    BY <1>1, <2>1
  <2>3. /\ SubSeq(s, 1, m) \in Seq(Chars)
        /\ Len(SubSeq(s, 1, m)) = IF 1 <= m THEN m - 1 + 1 ELSE 0
        /\ \A i \in 1 .. m - 1 + 1 : SubSeq(s, 1, m)[i] = s[1 + i - 1]
    BY <2>2, SubSeqProperties
  <2> QED
    BY <2>1, <2>3 DEF Kept
<1>3. ASSUME NEW m \in Nat, m <= n PROVE Kept(Kept(s, n), m) = Kept(s, m)
  <2> DEFINE k == Kept(s, n)
  <2>1. k \in Seq(Chars) /\ Len(k) = n /\ \A i \in 1 .. n : k[i] = s[i]
    BY <1>2
  <2> HIDE DEF k
  <2>2. 1 \in Int /\ m \in Int /\ \A i \in 1 .. m : k[i] \in Chars
    BY <1>3, <2>1, ElementOfSeq
  <2>3. /\ SubSeq(k, 1, m) \in Seq(Chars)
        /\ Len(SubSeq(k, 1, m)) = IF 1 <= m THEN m - 1 + 1 ELSE 0
        /\ \A i \in 1 .. m - 1 + 1 : SubSeq(k, 1, m)[i] = k[1 + i - 1]
    BY <2>2, SubSeqProperties
  <2>4. /\ Kept(k, m) \in Seq(Chars) /\ Len(Kept(k, m)) = m
        /\ \A i \in 1 .. m : Kept(k, m)[i] = s[i]
    BY <1>3, <2>1, <2>3 DEF Kept
  <2>5. /\ Kept(s, m) \in Seq(Chars) /\ Len(Kept(s, m)) = m
        /\ \A i \in 1 .. m : Kept(s, m)[i] = s[i]
    BY <1>1, <1>2, <1>3
  <2>6. Kept(k, m) = Kept(s, m)
    BY <2>4, <2>5, SeqEqual
  <2> QED
    BY <2>6 DEF k
<1>4. Kept(s, Len(s)) = s
  BY SubSeqFull DEF Kept
<1> QED
  BY <1>2, <1>3, <1>4

(* A line has two texts, and the whole of it is both.                          *)
LEMMA LineFacts ==
    ASSUME NEW l \in Lines
    PROVE  /\ l.left \in Seq(Chars) /\ l.right \in Seq(Chars)
           /\ l = [left |-> l.left, right |-> l.right]
           /\ Line!Whole(l) \in Seq(Chars)
           /\ Len(l.left) \in Nat /\ Len(l.right) \in Nat
           /\ Len(Line!Whole(l)) = Len(l.left) + Len(l.right)
           /\ l.right = <<>> => Line!Whole(l) = l.left
           /\ l.right = <<>> <=> Len(l.right) = 0
           /\ l.left = <<>> <=> Len(l.left) = 0
<1>1. /\ l.left \in Seq(Chars) /\ l.right \in Seq(Chars)
      /\ l = [left |-> l.left, right |-> l.right]
  BY DEF Lines
<1>2. /\ l.left \o l.right \in Seq(Chars)
      /\ Len(l.left \o l.right) = Len(l.left) + Len(l.right)
  BY <1>1, ConcatProperties
<1>3. l.right = <<>> => l.left \o l.right = l.left
  BY <1>1, ConcatEmptySeq
<1>4. Len(l.left) \in Nat /\ Len(l.right) \in Nat
  BY <1>1, LenProperties
<1>5. (l.right = <<>> <=> Len(l.right) = 0) /\ (l.left = <<>> <=> Len(l.left) = 0)
  BY <1>1, EmptySeq
<1> QED
  BY <1>1, <1>2, <1>3, <1>4, <1>5 DEF Line!Whole

(* A line of which the end is replaced is a line.                              *)
LEMMA ReplacedIsLine ==
    ASSUME NEW l \in Lines, NEW d \in Nat, d <= Len(Line!Whole(l)), NEW t \in Seq(Chars)
    PROVE  Replaced(l, d, t) \in Lines
<1> DEFINE w == Line!Whole(l)
<1>1. w \in Seq(Chars) /\ Len(w) \in Nat
  BY LineFacts, LenProperties
<1>2. Kept(w, Len(w) - d) \in Seq(Chars)
  <2> HIDE DEF w
  <2>1. Len(w) - d \in Nat /\ Len(w) - d <= Len(w)
    BY <1>1 DEF w
  <2> QED
    BY <1>1, <2>1, KeptFacts
<1>3. Kept(w, Len(w) - d) \o t \in Seq(Chars)
  BY <1>2, ConcatProperties
<1> QED
  BY <1>3, EmptySeq DEF Replaced, Lines

(* A backspace at the end does part of what is still to be done.               *)
LEMMA ErasedPart ==
    ASSUME NEW l \in Lines, l.right = <<>>, NEW d \in Nat \ {0}, d <= Len(l.left),
           NEW t \in Seq(Chars)
    PROVE  /\ Line!Erased(l).right = <<>> /\ Len(Line!Erased(l).left) = Len(l.left) - 1
           /\ Replaced(Line!Erased(l), d - 1, t) = Replaced(l, d, t)
           /\ Replaced(l, d, t) = [left |-> Kept(l.left, Len(l.left) - d) \o t, right |-> <<>>]
<1> DEFINE n == Len(l.left)
           e == Line!Erased(l)
<1>1. /\ l.left \in Seq(Chars) /\ n \in Nat /\ Line!Whole(l) = l.left
      /\ (l.left = <<>> <=> n = 0)
  BY LineFacts
<1>2. n # 0 /\ n - 1 \in Nat /\ n - 1 <= n /\ n - d \in Nat /\ n - d <= n - 1
      /\ (n - 1) - (d - 1) = n - d
  BY <1>1
<1>3. e = [left |-> Kept(l.left, n - 1), right |-> <<>>]
  BY <1>1, <1>2 DEF Line!Erased, Line!Shortened, Kept
<1>4. Kept(l.left, n - 1) \in Seq(Chars) /\ Len(Kept(l.left, n - 1)) = n - 1
      /\ Kept(Kept(l.left, n - 1), n - d) = Kept(l.left, n - d)
  <2> HIDE DEF n
  <2> QED
    BY <1>1, <1>2, KeptFacts DEF n
<1>5. e.left = Kept(l.left, n - 1) /\ e.right = <<>> /\ e \in Lines
  BY <1>3, <1>4, EmptySeq DEF Lines
<1> HIDE DEF e
<1>6. Line!Whole(e) = e.left
  BY <1>5, LineFacts
<1>7. Replaced(e, d - 1, t) = [left |-> Kept(e.left, Len(e.left) - (d - 1)) \o t, right |-> <<>>]
  BY <1>6 DEF Replaced
<1>8. Replaced(l, d, t) = [left |-> Kept(l.left, n - d) \o t, right |-> <<>>]
  BY <1>1 DEF Replaced
<1>9. Len(e.left) - (d - 1) = n - d
  BY <1>2, <1>4, <1>5
<1> QED
  BY <1>4, <1>5, <1>7, <1>8, <1>9 DEF e

(* So does a character typed there,                                            *)
LEMMA TypedPart ==
    ASSUME NEW l \in Lines, l.right = <<>>, NEW t \in Seq(Chars), t # <<>>
    PROVE  /\ Line!Inserted(l, Head(t)).right = <<>>
           /\ Replaced(Line!Inserted(l, Head(t)), 0, Tail(t)) = Replaced(l, 0, t)
<1> DEFINE c == Head(t)
           n == Line!Inserted(l, c)
<1>1. l.left \in Seq(Chars) /\ Line!Whole(l) = l.left /\ Len(l.left) \in Nat
  BY LineFacts
<1>2. c \in Chars /\ Tail(t) \in Seq(Chars)
  BY HeadTailProperties
<1>3. n = [left |-> Append(l.left, c), right |-> <<>>] /\ n \in Lines
  BY <1>2, KeysMakeLines DEF Line!Inserted
<1> HIDE DEF n
<1>4. n.left = Append(l.left, c) /\ n.right = <<>> /\ Line!Whole(n) = n.left
      /\ n.left \in Seq(Chars) /\ Len(n.left) \in Nat
  BY <1>3, LineFacts
<1>5. Append(l.left, c) \o Tail(t) = l.left \o t
  BY <1>1, AcrossToLeft
<1>6. Kept(n.left, Len(n.left) - 0) = n.left /\ Kept(l.left, Len(l.left) - 0) = l.left
  <2>1. \A s \in Seq(Chars) : Len(s) \in Nat => Kept(s, Len(s) - 0) = s
    BY KeptFacts
  <2> QED
    BY <1>1, <1>4, <2>1
<1> QED
  BY <1>1, <1>4, <1>5, <1>6 DEF Replaced, n

(* and an arrow to it.                                                         *)
LEMMA ArrowPart ==
    ASSUME NEW l \in Lines, l.right # <<>>, NEW d \in Nat, NEW t \in Seq(Chars)
    PROVE  /\ Len(Line!CaretRight(l).right) = Len(l.right) - 1
           /\ Line!Whole(Line!CaretRight(l)) = Line!Whole(l)
           /\ Replaced(Line!CaretRight(l), d, t) = Replaced(l, d, t)
<1>1. l.left \in Seq(Chars) /\ l.right \in Seq(Chars)
  BY LineFacts
<1> DEFINE left == Append(l.left, Head(l.right))
           right == Tail(l.right)
           moved == Line!CaretRight(l)
<1>2. moved = [left |-> left, right |-> right]
  BY DEF Line!CaretRight
<1>3. Len(right) = Len(l.right) - 1 /\ left \o right = l.left \o l.right
  BY <1>1, AcrossToLeft
<1> HIDE DEF left, right, moved
<1>4. moved.left = left /\ moved.right = right
  BY <1>2
<1>5. Line!Whole(moved) = Line!Whole(l)
  BY <1>3, <1>4 DEF Line!Whole
<1> QED
  BY <1>3, <1>4, <1>5 DEF Replaced, moved

(* Nothing is left to be done.                                                 *)
LEMMA NothingLeft ==
    ASSUME NEW l \in Lines, l.right = <<>>
    PROVE  Replaced(l, 0, <<>>) = l
<1>1. /\ l.left \in Seq(Chars) /\ Line!Whole(l) = l.left /\ Len(l.left) \in Nat
      /\ l = [left |-> l.left, right |-> l.right]
  BY LineFacts
<1>2. Kept(l.left, Len(l.left) - 0) = l.left /\ l.left \o <<>> = l.left
  BY <1>1, KeptFacts, ConcatEmptySeq
<1> QED
  BY <1>1, <1>2 DEF Replaced

(* A match that ends a text is the end of it.                                  *)
LEMMA SuffixIsEnd ==
    ASSUME NEW m \in Seq(Chars), NEW w \in Seq(Chars), IsSuffix(m, w)
    PROVE  /\ Len(m) <= Len(w)
           /\ m = SubSeq(w, Len(w) - Len(m) + 1, Len(w))
<1> DEFINE p == Reverse(m)
           q == Reverse(w)
           k == Len(m)
           n == Len(w)
<1>1. k \in Nat /\ n \in Nat
      /\ (\A i \in 1 .. k : m[i] \in Chars) /\ (\A i \in 1 .. n : w[i] \in Chars)
  BY LenProperties, ElementOfSeq
<1>2. Len(p) = k /\ Len(q) = n
  BY LenOfReverse
<1>3. p = [i \in 1 .. k |-> m[(k - i) + 1]] /\ q = [i \in 1 .. n |-> w[(n - i) + 1]]
  BY Zenon DEF Reverse
<1>4. Len(p) <= Len(q) /\ SubSeq(p, 1, Len(p)) = SubSeq(q, 1, Len(p))
  BY DEF IsSuffix, IsPrefix
<1>5. /\ \A i \in 1 .. k : (k - i) + 1 \in 1 .. k
      /\ \A i \in 1 .. n : (n - i) + 1 \in 1 .. n
  BY <1>1
<1>6. /\ \A i \in 1 .. k : p[i] = m[(k - i) + 1] /\ p[i] \in Chars
      /\ \A i \in 1 .. n : q[i] = w[(n - i) + 1] /\ q[i] \in Chars
  <2> HIDE DEF p, q, k, n
  <2> QED
    BY <1>1, <1>3, <1>5
<1> HIDE DEF p, q, k, n
<1>7. k <= n
  BY <1>2, <1>4
<1>8. \A i \in 1 .. k : p[i] = q[i]
  <2>1. /\ 1 \in Int /\ k \in Int /\ (\A i \in 1 .. k : p[i] \in Chars)
        /\ \A i \in 1 .. k : q[i] \in Chars
    BY <1>1, <1>6, <1>7
  <2>2. \A i \in 1 .. k - 1 + 1 : SubSeq(p, 1, k)[i] = p[1 + i - 1]
    BY <2>1, SubSeqProperties
  <2>3. \A i \in 1 .. k - 1 + 1 : SubSeq(q, 1, k)[i] = q[1 + i - 1]
    BY <2>1, SubSeqProperties
  <2> QED
    BY <1>1, <1>2, <1>4, <2>2, <2>3
<1> DEFINE a == n - k + 1
           e == SubSeq(w, a, n)
<1>9. /\ e \in Seq(Chars) /\ Len(e) = k /\ \A i \in 1 .. k : e[i] = w[a + i - 1]
  <2>1. a \in Int /\ n \in Int /\ \A i \in a .. n : w[i] \in Chars
    BY <1>1, <1>7
  <2>2. n - a + 1 = k /\ (k = 0 <=> ~(a <= n))
    BY <1>1, <1>7
  <2> HIDE DEF a
  <2>3. /\ SubSeq(w, a, n) \in Seq(Chars)
        /\ Len(SubSeq(w, a, n)) = IF a <= n THEN n - a + 1 ELSE 0
        /\ \A i \in 1 .. n - a + 1 : SubSeq(w, a, n)[i] = w[a + i - 1]
    BY <2>1, SubSeqProperties
  <2> QED
    BY <2>2, <2>3
<1>10. \A i \in 1 .. k : m[i] = e[i]
  <2> TAKE i \in 1 .. k
  <2> DEFINE j == (k - i) + 1
  <2>1. j \in 1 .. k /\ j \in 1 .. n /\ (k - j) + 1 = i /\ (n - j) + 1 = a + i - 1
    BY <1>1, <1>7
  <2> HIDE DEF j, a, e
  <2>2. m[i] = p[j] /\ q[j] = w[a + i - 1] /\ p[j] = q[j]
    BY <1>6, <1>8, <2>1
  <2> QED
    BY <1>9, <2>2
<1>11. m = e
  <2> HIDE DEF e
  <2> QED
    BY <1>9, <1>10, SeqEqual DEF k
<1> QED
  BY <1>7, <1>11 DEF k, n
-----------------------------------------------------------------------------
(* What a release sends                                                        *)

(* keyhook_expand_matched sends arrows, backspaces and the expansion.          *)
LEMMA ExpansionIsMarking ==
    ASSUME HookShape, tryExpand, DeleteCount >= 0
    PROVE  /\ Expansion = Marking(kb.cursor, DeleteCount, Table[expandTag].typed)
           /\ kb.cursor \in Nat /\ DeleteCount \in Nat /\ Table[expandTag].typed \in Seq(Chars)
<1>1. kb.cursor \in Nat /\ DeleteCount \in Nat /\ Table[expandTag].typed \in Seq(Chars)
  <2>1. Table[expandTag].typed \in Seq(Chars)
    BY TableEntries DEF HookShape, Owned, Entry
  <2>2. kb.cursor \in Nat /\ Size(kb) \in Nat /\ settings.cursor \in Nat
    BY LenProperties DEF HookShape, TypeOK, KbTypeOK, Size
  <2> QED
    BY <2>1, <2>2 DEF DeleteCount
<1> DEFINE right == Repeated("right", kb.cursor)
           down == Repeated("down", DeleteCount)
           typed == Strokes(Table[expandTag].typed)
           one == <<Toggle>>
           begin == right \o one
<1>2. /\ begin \in Seq(Events) /\ down \in Seq(Events) /\ typed \in Seq(Events)
      /\ one \in Seq(Events)
  <2>1. right \in Seq(Events) /\ down \in Seq(Events)
    <3>1. kb.cursor \in Int /\ kb.cursor >= -1 /\ DeleteCount \in Int /\ DeleteCount >= -1
      BY <1>1
    <3> QED
      BY <3>1, RepeatedAreEvents
  <2>2. typed \in Seq(Events) /\ one \in Seq(Events)
    BY <1>1, StrokesAreEvents, ToggleIsOne
  <2> HIDE DEF right, down, typed, one
  <2> QED
    BY <2>1, <2>2, ConcatProperties
<1>3. Expansion = ((begin \o down) \o typed) \o one
  BY DEF Expansion
<1>4. Marking(kb.cursor, DeleteCount, Table[expandTag].typed) = begin \o ((down \o typed) \o one)
  BY DEF Marking, Erasing
<1> HIDE DEF begin, down, typed, one
<1>5. (begin \o down) \o typed = begin \o (down \o typed) /\ down \o typed \in Seq(Events)
  BY <1>2, ConcatAssociative, ConcatProperties
<1>6. (begin \o (down \o typed)) \o one = begin \o ((down \o typed) \o one)
  <2> DEFINE middle == down \o typed
  <2>1. middle \in Seq(Events)
    BY <1>5
  <2> HIDE DEF middle
  <2>2. (begin \o middle) \o one = begin \o (middle \o one)
    BY <1>2, <2>1, ConcatAssociative
  <2> QED
    BY <2>2 DEF middle
<1> QED
  BY <1>1, <1>3, <1>4, <1>5, <1>6

\* The user's own backspace has taken one character.
Remaining(length) == IF length = 0 THEN 0 ELSE length - 1

(* The undo of keyhook_handle_keyup does the same without arrows.              *)
LEMMA RestorationIsMarking ==
    ASSUME NEW chars \in Seq(Chars), NEW length \in Nat
    PROVE  Restoration(chars, length) = Marking(0, Remaining(length), chars)
           /\ Remaining(length) \in Nat
<1> DEFINE down == Repeated("down", length - 1)
           typed == Strokes(chars)
           one == <<Toggle>>
<1>0. Remaining(length) \in Nat /\ 1 .. length - 1 = 1 .. Remaining(length)
  BY DEF Remaining
<1>1. down \in Seq(Events) /\ typed \in Seq(Events) /\ one \in Seq(Events)
  <2>1. length - 1 \in Int /\ length - 1 >= -1
    OBVIOUS
  <2>2. down \in Seq(Events)
    BY <2>1, RepeatedAreEvents
  <2> QED
    BY <2>2, StrokesAreEvents, ToggleIsOne
<1>2. Restoration(chars, length) = ((one \o down) \o typed) \o one
  BY DEF Restoration
<1>3. Marking(0, Remaining(length), chars) = (<<>> \o one) \o ((down \o typed) \o one)
  <2>1. Repeated("right", 0) = <<>>
    BY DEF Repeated
  <2>2. Repeated("down", Remaining(length)) = down
    BY <1>0, Zenon DEF Repeated
  <2> HIDE DEF down
  <2> QED
    BY <2>1, <2>2 DEF Marking, Erasing
<1> HIDE DEF down, typed, one
<1>4. <<>> \o one = one
  BY <1>1, ConcatEmptySeq
<1>5. (one \o down) \o typed = one \o (down \o typed) /\ down \o typed \in Seq(Events)
  BY <1>1, ConcatAssociative, ConcatProperties
<1>6. (one \o (down \o typed)) \o one = one \o ((down \o typed) \o one)
  BY <1>1, <1>5, ConcatAssociative
<1> QED
  BY <1>0, <1>2, <1>3, <1>4, <1>5, <1>6
-----------------------------------------------------------------------------
(* Who moves                                                                   *)

\* The hook takes an event of the given kind.
Takes(kind) ==
    posts = <<>> /\ stream # <<>> /\ Head(stream).kind = kind /\ stream' = Tail(stream)

Moves ==
    \/ Takes("down") /\ (KeyDown \/ BackSpaceHeld \/ BackSpaceDown)
    \/ Takes("up") /\ (KeyUp \/ KeyUpIgnored \/ KeyUpCrash)
    \/ Takes("toggle") /\ ToggleExpanding
    \/ (Takes("left") \/ Takes("right")) /\ Arrow
    \/ Takes("reset") /\ Reset
    \/ posts # <<>> /\ Post
    \/ Coming = <<>> /\ held = {} /\ \E key \in Keys : Press(key)
    \/ \E key \in held : Release(key)
    \/ Coming = <<>> /\ held = {} /\ \E kind \in Excursions : Excursion(kind)
    \/ UNCHANGED vars

(* A patient user presses when nothing is held and nothing is to come.         *)
LEMMA PatientMoves ==
    ASSUME Patient, [Next]_vars, held = {} \/ \E key \in Keys : held = {key}
    PROVE  Moves
<1>1. ~TypeAhead /\ MaxHeld = 1 /\ Removable = {}
  BY DEF Patient
<1>2. Settled => Coming = <<>>
  BY DEF Settled, Coming
<1>3. ASSUME NEW key \in Keys, Press(key) PROVE Coming = <<>> /\ held = {}
  <2>1. Settled /\ key \notin held /\ Cardinality(held \cup {key}) <= 1
    BY <1>1, <1>3 DEF Press, MayPress
  <2>2. ASSUME NEW other \in Keys, held = {other} PROVE FALSE
    <3>1. IsFiniteSet({other}) /\ Cardinality({other}) = 1
      BY FS_Singleton
    <3>2. key \notin {other} /\ held \cup {key} = {other} \cup {key}
      BY <2>1, <2>2
    <3>3. Cardinality({other} \cup {key}) = 1 + 1
      BY <3>1, <3>2, FS_AddElement
    <3> QED
      BY <2>1, <3>2, <3>3
  <2> QED
    BY <1>2, <2>1, <2>2
<1>4. ASSUME NEW key \in Keys, Release(key) PROVE key \in held
  BY <1>4 DEF Release
<1>5. ASSUME NEW kind \in Excursions, Excursion(kind) PROVE Coming = <<>> /\ held = {}
  BY <1>1, <1>2, <1>5 DEF Excursion, MayPress
<1>6. ~\E i \in Removable : Unload(i)
  BY <1>1
<1>7. /\ KeyDown \/ BackSpaceHeld \/ BackSpaceDown => Takes("down")
      /\ KeyUp \/ KeyUpIgnored \/ KeyUpCrash => Takes("up")
      /\ ToggleExpanding => Takes("toggle")
      /\ Arrow => Takes("left") \/ Takes("right")
      /\ Reset => Takes("reset")
  BY DEF KeyDown, BackSpaceHeld, BackSpaceDown, KeyUp, KeyUpIgnored, KeyUpCrash,
         ToggleExpanding, Arrow, Reset, Handle, Takes
<1>8. Post => posts # <<>>
  BY DEF Post
<1>9. CASE Next
  BY <1>3, <1>4, <1>5, <1>6, <1>7, <1>8, <1>9 DEF Next, Hook, Moves, Done
<1>10. CASE UNCHANGED vars
  BY <1>10 DEF Moves
<1> QED
  BY <1>9, <1>10

(* What is to come begins with what is handled next, and a key that is sent    *)
(* goes to the end of what has been sent.                                      *)
LEMMA ComingMoves ==
    ASSUME HookShape
    PROVE  /\ \A kind : Takes(kind) => /\ Coming = stream /\ Head(Coming).kind = kind
                                       /\ Coming # <<>> /\ stream' = Tail(Coming)
           /\ posts # <<>> /\ Post => Coming' = Coming
           /\ Coming = <<>> <=> stream = <<>> /\ posts = <<>>
<1>1. stream \in Seq(Events) /\ posts \in Seq(Events)
  BY DEF HookShape, TypeOK
<1>2. stream \o <<>> = stream
  BY <1>1, ConcatEmptySeq
<1>3. Coming = <<>> <=> stream = <<>> /\ posts = <<>>
  BY <1>1, ConcatEqualIffEmpty DEF Coming
<1>4. ASSUME posts # <<>>, Post PROVE Coming' = Coming
  <2>1. stream' = Append(stream, Head(posts)) /\ posts' = Tail(posts)
    BY <1>4 DEF Post
  <2>2. /\ Head(posts) \in Events /\ Tail(posts) \in Seq(Events)
        /\ posts = <<Head(posts)>> \o Tail(posts)
    BY <1>1, <1>4, TogglesOfTail
  <2> DEFINE e == Head(posts)
             rest == Tail(posts)
  <2> HIDE DEF e, rest
  <2>3. e \in Events /\ rest \in Seq(Events) /\ <<e>> \in Seq(Events)
    BY <2>2 DEF e, rest
  <2>4. Append(stream, e) = stream \o <<e>>
    BY <1>1, <2>3, AppendIsConcat
  <2>5. (stream \o <<e>>) \o rest = stream \o (<<e>> \o rest)
    BY <1>1, <2>3, ConcatAssociative
  <2> QED
    BY <2>1, <2>2, <2>4, <2>5 DEF Coming, e, rest
<1> QED
  BY <1>2, <1>3, <1>4 DEF Takes, Coming
-----------------------------------------------------------------------------
(* What the user expects                                                       *)

(* A line with nothing to take back                                            *)
LEMMA PlainFits == \A l \in Lines : Fits(Plain(l))
BY DEF Fits, Plain, Expected

(* A match is in the table, and the end of the text it ends.                   *)
LEMMA HitFacts ==
    ASSUME NEW chars \in Seq(Chars), Hits(chars) # {}, loaded \subseteq DOMAIN Table
    PROVE  LET entry == Table[Least(Hits(chars))]
           IN /\ Least(Hits(chars)) \in DOMAIN Table /\ entry \in Entry
              /\ Len(entry.match) \in Nat /\ Len(entry.match) <= Len(chars)
              /\ entry.match = SubSeq(chars, Len(chars) - Len(entry.match) + 1, Len(chars))
<1>1. Hits(chars) \subseteq DOMAIN Table /\ DOMAIN Table \subseteq Nat
      /\ \A i \in DOMAIN Table : Table[i] \in Entry
  BY TableEntries DEF Hits
<1>2. Least(Hits(chars)) \in Hits(chars)
  BY <1>1, LeastOfNat
<1> DEFINE entry == Table[Least(Hits(chars))]
<1>3. /\ Least(Hits(chars)) \in DOMAIN Table /\ entry \in Entry
      /\ IsSuffix(entry.match, chars)
  BY <1>1, <1>2 DEF Hits
<1> HIDE DEF entry
<1>4. entry.match \in Seq(Chars)
  BY <1>3 DEF Entry
<1>5. Len(entry.match) \in Nat
  BY <1>4, LenProperties
<1> QED
  BY <1>3, <1>4, <1>5, SuffixIsEnd DEF entry

(* After a character that is typed it still fits,                              *)
LEMMA TypedFits ==
    ASSUME PlainCounts, loaded \subseteq DOMAIN Table, NEW l \in Lines, NEW c \in Chars
    PROVE  Fits(TypedOn(l, c))
<1> DEFINE line == Line!Inserted(l, c)
           whole == Line!Whole(line)
           hits == Hits(whole)
           entry == Table[Least(hits)]
<1>1. line \in Lines /\ whole \in Seq(Chars) /\ Line!Blank \in Lines
  BY KeysMakeLines, LineFacts
<1>2. CASE hits # {}
  <2> HIDE DEF line
  <2>1. /\ Least(hits) \in DOMAIN Table /\ entry \in Entry /\ Len(entry.match) \in Nat
        /\ Len(entry.match) <= Len(whole)
    BY <1>1, <1>2, HitFacts
  <2>2. Undoable(entry) => entry.typed # <<>>
    BY <2>1 DEF PlainCounts
  <2>3. entry.match \in Seq(Chars) /\ entry.typed \in Seq(Chars)
    BY <2>1 DEF Entry
  <2> DEFINE kept == Kept(whole, Len(whole) - Len(entry.match))
             new == [left |-> kept \o entry.typed, right |-> <<>>]
             back == IF Undoable(entry) THEN {entry.match} ELSE None
             inside == line.right # <<>>
  <2>4. TypedOn(l, c) = Expected(new, back, Len(entry.typed), inside)
    BY <1>2 DEF TypedOn, line
  <2> HIDE DEF whole, hits, entry
  <2>5. kept \in Seq(Chars)
    <3>1. Len(whole) \in Nat
      BY <1>1, LenProperties
    <3>2. Len(whole) - Len(entry.match) \in Nat /\ Len(whole) - Len(entry.match) <= Len(whole)
      BY <2>1, <3>1
    <3> QED
      BY <1>1, <3>2, KeptFacts
  <2> HIDE DEF kept
  <2>6. /\ kept \o entry.typed \in Seq(Chars)
        /\ Len(kept \o entry.typed) = Len(kept) + Len(entry.typed)
    BY <2>3, <2>5, ConcatProperties
  <2>7. Len(kept) \in Nat /\ Len(entry.typed) \in Nat
    BY <2>3, <2>5, LenProperties
  <2>8. entry.typed # <<>> => Len(entry.typed) \in Nat \ {0}
    BY <2>3, EmptySeq
  <2>9. new \in Lines /\ new.left = kept \o entry.typed /\ new.right = <<>>
    BY <2>6, EmptySeq DEF Lines
  <2>10. Undoable(entry) => Len(entry.typed) \in Nat \ {0} /\ Len(entry.typed) <= Len(new.left)
    BY <2>2, <2>6, <2>7, <2>8, <2>9
  <2>11. /\ back = None \/ \E s \in Seq(Chars) : back = {s}
         /\ back # None => Undoable(entry)
    BY <2>3
  <2> HIDE DEF new, back, inside
  <2> QED
    BY <2>4, <2>9, <2>10, <2>11 DEF Fits, Expected
<1>3. CASE hits = {}
  <2>1. TypedOn(l, c) \in {Plain(Line!Blank), Plain(line)}
    BY <1>3 DEF TypedOn
  <2> HIDE DEF line
  <2> QED
    BY <1>1, <2>1, PlainFits
<1> QED
  BY <1>2, <1>3

(* and after a backspace.                                                      *)
LEMMA ErasedFits ==
    ASSUME Fits(ideal)
    PROVE  Fits(IdealErased)
<1>1. ideal.line \in Lines
  BY DEF Fits
<1>2. CASE ideal.source = None
  <2>1. Line!Erased(ideal.line) \in Lines
    BY <1>1, KeysMakeLines
  <2> QED
    BY <1>2, <2>1, PlainFits DEF IdealErased
<1>3. CASE ideal.source # None
  <2> DEFINE left == ideal.line.left
             n == Len(left) - ideal.typed
             new == SubSeq(left, 1, n) \o CHOOSE s \in ideal.source : TRUE
  <2>1. IdealErased = Plain([ideal.line EXCEPT !.left = new])
    BY <1>3 DEF IdealErased
  <2>2. /\ ideal.typed \in Nat \ {0} /\ ideal.typed <= Len(left) /\ left \in Seq(Chars)
        /\ Len(left) \in Nat
    BY <1>1, <1>3, LineFacts DEF Fits
  <2>3. (CHOOSE s \in ideal.source : TRUE) \in Seq(Chars)
    <3>1. PICK s \in Seq(Chars) : ideal.source = {s}
      BY <1>3 DEF Fits
    <3> QED
      BY <3>1
  <2>4. SubSeq(left, 1, n) \in Seq(Chars)
    <3>1. n \in Nat /\ n <= Len(left)
      BY <2>2
    <3> HIDE DEF left, n
    <3> QED
      BY <2>2, <3>1, KeptFacts DEF Kept
  <2>5. new \in Seq(Chars)
    BY <2>3, <2>4, ConcatProperties
  <2> HIDE DEF new
  <2>6. [ideal.line EXCEPT !.left = new] \in Lines
    BY <1>1, <2>5 DEF Lines
  <2> QED
    BY <2>1, <2>6, PlainFits
<1> QED
  BY <1>2, <1>3

(* The user's expectation changes with what the user does.                     *)
LEMMA IdealFitsStep ==
    ASSUME HookShape, IdealFits, Patient, [Next]_vars
    PROVE  IdealFits'
<1>1. CASE ideal' = ideal
  BY <1>1 DEF IdealFits, Fits
<1>2. loaded \subseteq DOMAIN Table /\ ~TypeAhead
  BY DEF HookShape, TypeOK, Patient
<1>3. ASSUME NEW key \in Keys, Press(key) PROVE IdealFits'
  <2>1. ideal' = IF key = BackSpace THEN IdealErased ELSE IdealTyped(key)
    BY <1>2, <1>3 DEF Press, Expects
  <2> SUFFICES ASSUME PlainCounts PROVE Fits(ideal')
    BY DEF IdealFits, Fits
  <2>2. Fits(ideal) /\ ideal.line \in Lines
    BY DEF IdealFits, Fits
  <2>3. CASE key = BackSpace
    BY <2>1, <2>2, <2>3, ErasedFits
  <2>4. CASE key # BackSpace
    <3>1. key \in Chars
      BY <2>4 DEF Keys
    <3>2. IdealTyped(key) = TypedOn(ideal.line, key)
      BY DEF IdealTyped, TypedOn, Kept
    <3> QED
      BY <1>2, <2>1, <2>2, <2>4, <3>1, <3>2, TypedFits
  <2> QED
    BY <2>3, <2>4
<1>4. ASSUME NEW kind \in Excursions, Excursion(kind) PROVE IdealFits'
  <2>1. ideal' \in {Plain(Line!CaretLeft(ideal.line)), Plain(Line!CaretRight(ideal.line)),
                    Plain(Line!Blank)}
    BY <1>2, <1>4, KeyHookAssumption DEF Excursion, Expects
  <2> SUFFICES ASSUME PlainCounts PROVE Fits(ideal')
    BY DEF IdealFits, Fits
  <2>2. ideal.line \in Lines
    BY DEF IdealFits, Fits
  <2> QED
    BY <2>1, <2>2, KeysMakeLines, PlainFits
<1>5. (\E key \in Keys : Press(key)) \/ (\E kind \in Excursions : Excursion(kind)) \/ ideal' = ideal
  BY DEF Next, Hook, Done, KeyDown, BackSpaceHeld, BackSpaceDown, KeyUp, KeyUpIgnored, KeyUpCrash,
         ToggleExpanding, Arrow, Reset, Post, Release, Unload, vars, user
<1> QED
  BY <1>1, <1>3, <1>4, <1>5
-----------------------------------------------------------------------------
(* From a line that rests                                                      *)

(* A key goes down.                                                            *)
LEMMA RestingPress ==
    ASSUME HookShape, IdealFits, Patient, RestingNow, NEW key \in Keys, Press(key)
    PROVE  StruckNow'
<1>1. /\ held = {} /\ ~expanding /\ Quiet /\ stream = <<>> /\ posts = <<>>
      /\ Sure => ideal.line = text /\ Agreed
  BY ComingMoves DEF RestingNow, Resting
<1>2. /\ held' = held \cup {key} /\ stream' = Append(stream, Event("down", key))
      /\ ideal' = IF key = BackSpace THEN IdealErased ELSE IdealTyped(key)
      /\ astray' = (astray \/ (key = BackSpace /\ Refused))
      /\ UNCHANGED <<kb, expanding, undoing, matched, posts, text, loaded, lost, fault>>
  BY DEF Press, Expects, Patient
<1>3. Struck(key)'
  <2>1. Append(<<>>, Event("down", key)) = <<Event("down", key)>>
    OBVIOUS
  <2> QED
    BY <1>1, <1>2, <2>1 DEF Struck, Quiet, undoing, matched
<1>4. ASSUME Sure, ~(key = BackSpace /\ Refused) PROVE SourceFits /\ ideal' = After(key)
  <2>1. ideal.line = text /\ Agreed /\ Fits(ideal) /\ text \in Lines
    BY <1>1, <1>4 DEF Sure, IdealFits, HookShape, TypeOK, Lines
  <2>2. SourceFits
    BY <2>1 DEF Agreed, Undone, Fits, SourceFits
  <2>3. CASE key # BackSpace
    BY <1>2, <2>1, <2>2, <2>3 DEF After, IdealTyped, TypedOn, Kept
  <2>4. CASE key = BackSpace /\ source = None
    <3>1. ideal.source = None
      BY <1>4, <2>1, <2>4 DEF Agreed, Undone, Refused
    <3> QED
      BY <1>2, <2>1, <2>2, <2>4, <3>1 DEF After, IdealErased, ErasedOn
  <2>5. CASE key = BackSpace /\ source # None
    <3> DEFINE new == Kept(text.left, Len(text.left) - expandLen) \o CHOOSE s \in source : TRUE
    <3>1. ideal.source = source /\ ideal.typed = expandLen /\ text.right = <<>>
      BY <2>1, <2>2, <2>5 DEF Agreed, Undone, SourceFits
    <3>2. IdealErased = Plain([text EXCEPT !.left = new])
      BY <2>1, <2>5, <3>1 DEF IdealErased, Kept
    <3>3. After(key) = Plain([left |-> new, right |-> <<>>])
      BY <2>5 DEF After, ErasedOn
    <3> HIDE DEF new
    <3>4. [text EXCEPT !.left = new] = [left |-> new, right |-> <<>>]
      BY <2>1, <3>1 DEF Lines
    <3> QED
      BY <1>2, <2>2, <2>5, <3>2, <3>3, <3>4
  <2> QED
    BY <2>3, <2>4, <2>5
<1>5. (Sure => SourceFits /\ ideal = After(key))'
  <2>1. Sure' => Sure /\ ~(key = BackSpace /\ Refused)
    BY <1>2 DEF Sure, PlainCounts, user
  <2>2. SourceFits' = SourceFits /\ After(key)' = After(key)
    BY <1>2 DEF SourceFits, After, undoing, ErasedOn, TypedOn, Hits
  <2> QED
    BY <1>4, <2>1, <2>2
<1> QED
  BY <1>3, <1>5 DEF StruckNow

(* An arrow or a click                                                         *)
LEMMA RestingExcursion ==
    ASSUME HookShape, Patient, RestingNow, NEW kind \in Excursions, Excursion(kind)
    PROVE  AwayNow'
<1>1. /\ held = {} /\ ~expanding /\ Quiet /\ stream = <<>> /\ posts = <<>>
      /\ Sure => ideal.line = text
  BY ComingMoves DEF RestingNow, Resting
<1>2. /\ stream' = Append(stream, Event(kind, BackSpace))
      /\ ideal' = Plain(CASE kind = "left" -> Line!CaretLeft(ideal.line)
                          [] kind = "right" -> Line!CaretRight(ideal.line)
                          [] kind = "reset" -> Line!Blank)
      /\ astray' = (astray /\ kind # "reset")
      /\ UNCHANGED <<kb, expanding, undoing, matched, posts, text, held, loaded, lost, fault>>
  BY DEF Excursion, Expects, Patient
<1>3. Away(kind)'
  <2>1. Append(<<>>, Event(kind, BackSpace)) = <<Event(kind, BackSpace)>>
    OBVIOUS
  <2> QED
    BY <1>1, <1>2, <2>1 DEF Away, Quiet, undoing, matched
<1>4. Sure \/ kind = "reset" => ideal' = AfterAway(kind)
  BY <1>1, <1>2, KeyHookAssumption DEF AfterAway
<1>5. (Sure' => Sure \/ kind = "reset") /\ AfterAway(kind)' = AfterAway(kind)
  BY <1>2 DEF Sure, PlainCounts, AfterAway
<1> QED
  BY <1>3, <1>4, <1>5 DEF AwayNow
-----------------------------------------------------------------------------
(* From a key that is down                                                     *)

(* A line and the buffer that follows it                                       *)
LEMMA BufferIsLine ==
    ASSUME HookShape
    PROVE  /\ Proper(kb) /\ text \in Lines /\ kb.cursor \in Nat /\ Size(kb) \in Nat
           /\ kb.chars \in Seq(Chars) /\ Size(kb) = Len(kb.chars)
           /\ text = LineOf(kb) => /\ Line!Whole(text) = kb.chars
                                   /\ Len(text.right) = kb.cursor
                                   /\ text.right = <<>> <=> kb.cursor = 0
<1>1. Proper(kb) /\ text \in Lines
  BY ProperIsTyped DEF HookShape, TypeOK, Lines
<1>2. kb.cursor \in Nat /\ Size(kb) \in Nat /\ kb.chars \in Seq(Chars) /\ Size(kb) = Len(kb.chars)
  BY <1>1, LenProperties DEF Proper, Buffer, Size
<1>3. ASSUME text = LineOf(kb)
      PROVE  /\ Line!Whole(text) = kb.chars /\ Len(text.right) = kb.cursor
             /\ text.right = <<>> <=> kb.cursor = 0
  <2>1. /\ text.left = Left(kb) /\ text.right = Right(kb)
        /\ kb.chars = Left(kb) \o Right(kb) /\ Len(Right(kb)) = kb.cursor
    BY <1>1, <1>3, LineOfParts, PartsOfBuffer
  <2>2. text.right = <<>> <=> Len(text.right) = 0
    BY <1>1, LineFacts
  <2> QED
    BY <2>1, <2>2 DEF Line!Whole
<1> QED
  BY <1>1, <1>2, <1>3

(* The same with a character typed into both                                   *)
LEMMA PushedIsInserted ==
    ASSUME HookShape, NEW c \in Chars
    PROVE  /\ Proper(Pushed(kb, c)) /\ Pushed(kb, c).chars \in Seq(Chars)
           /\ Len(Pushed(kb, c).chars) = Size(kb) + 1
           /\ text = LineOf(kb) => Line!Whole(Line!Inserted(text, c)) = Pushed(kb, c).chars
<1>1. Proper(kb)
  BY BufferIsLine
<1>2. /\ Pushed(kb, c).chars \in Seq(Chars) /\ Size(Pushed(kb, c)) = Size(kb) + 1
      /\ Proper(Pushed(kb, c)) /\ LineOf(Pushed(kb, c)) = Typed!Inserted(LineOf(kb), c)
  BY <1>1, PushedSize, PushedIsProper, PushedLine
<1> DEFINE b == Pushed(kb, c)
<1>3. LineOf(b) = [left |-> Left(b), right |-> Right(b)] /\ b.chars = Left(b) \o Right(b)
  BY <1>2, LineOfParts, PartsOfBuffer
<1> HIDE DEF b
<1>4. Line!Whole(LineOf(b)) = b.chars
  BY <1>3 DEF Line!Whole
<1> QED
  BY <1>2, <1>4 DEF b, Size, Line!Inserted, Typed!Inserted

(* The handler takes the key and leaves its release.                           *)
LEMMA StruckTaken ==
    ASSUME NEW key \in Keys, Struck(key), Takes("down"), held' = held
    PROVE  /\ Head(stream).key = key
           /\ \/ held' = {key} /\ stream' = <<>>
              \/ held' = {} /\ stream' = <<Event("up", key)>>
<1>1. \/ held = {key} /\ stream = <<Event("down", key)>>
      \/ held = {} /\ stream = <<Event("down", key), Event("up", key)>>
  BY DEF Struck
<1>2. Head(stream) = Event("down", key)
  BY <1>1
<1>3. stream = <<Event("down", key)>> => Tail(stream) = <<>>
  OBVIOUS
<1>4. stream = <<Event("down", key), Event("up", key)>> => Tail(stream) = <<Event("up", key)>>
  OBVIOUS
<1> QED
  BY <1>1, <1>2, <1>3, <1>4 DEF Takes, Event

(* A character: what the hook finds is what the user expects to be found.      *)
LEMMA StruckKeyDown ==
    ASSUME HookShape, FollowsText, loaded = DOMAIN Table, StruckNow, Takes("down"), KeyDown
    PROVE  TakenNow'
<1>1. PICK key \in Keys : Struck(key) /\ (Sure => SourceFits /\ ideal = After(key))
  BY DEF StruckNow
<1>2. posts = <<>> /\ expanding = FALSE /\ tryExpand = FALSE /\ tryUndo = FALSE
  BY <1>1 DEF Struck, Quiet, HookShape, TypeOK
<1> DEFINE pushed == Pushed(kb, key)
           hits == Hits(pushed.chars)
           entry == Table[Least(hits)]
           resets == ResetOnEnter /\ hits = {} /\ key = Enter /\ kb.cursor # 0
<1>3. held' = held
  BY DEF KeyDown, user
<1>4. /\ Head(stream).key = key
      /\ \/ held' = {key} /\ stream' = <<>>
         \/ held' = {} /\ stream' = <<Event("up", key)>>
  BY <1>1, <1>3, StruckTaken
<1>5. /\ key \in Chars
      /\ kb' = IF resets THEN Cleared ELSE pushed
      /\ text' = IF resets THEN Line!Blank ELSE Line!Inserted(text, key)
      /\ IF hits = {} THEN UNCHANGED matched
         ELSE /\ tryExpand' = TRUE /\ expandTag' = Least(hits)
              /\ settings' = [cursor |-> Size(kb) + 1 - Len(entry.match),
                              undoable |-> entry.silent]
      /\ source' = None /\ expandLen' = 0 /\ lost' = lost
      /\ UNCHANGED <<expanding, tryUndo, posts, user, fault>>
  <2> DEFINE c == Head(stream).key
             found == Candidates(Pushed(kb, c).chars)
             resetting == ResetOnEnter /\ found = {} /\ c = Enter /\ kb.cursor # 0
  <2>1. /\ c \in Chars
        /\ kb' = IF resetting THEN Cleared ELSE Pushed(kb, c)
        /\ text' = IF resetting THEN Line!Blank ELSE Line!Inserted(text, c)
        /\ IF found = {} THEN UNCHANGED matched
           ELSE /\ tryExpand' = TRUE
                /\ expandTag' = Least(found)
                /\ settings' = [cursor |-> Size(kb) + 1 - Len(Table[Least(found)].match),
                                undoable |-> Table[Least(found)].silent]
        /\ IF resetting \/ ~expanding THEN ResetUndo ELSE UNCHANGED <<source, expandLen>>
        /\ lost' = (lost \/ tryUndo)
        /\ UNCHANGED <<expanding, tryUndo, posts, user, fault>>
    BY Zenon DEF KeyDown
  <2>2. c = key
    BY <1>4
  <2>3. found = hits
    BY <1>2, <2>2 DEF Candidates
  <2>4. ResetUndo
    BY <1>2, <2>1
  <2>5. lost' = lost
    BY <1>2, <2>1 DEF HookShape, TypeOK
  <2> HIDE DEF found, hits, c
  <2> QED
    BY <2>1, <2>2, <2>3, <2>4, <2>5 DEF ResetUndo
<1>6. /\ pushed.chars \in Seq(Chars) /\ Len(pushed.chars) = Size(kb) + 1 /\ Size(kb) \in Nat
      /\ text \in Lines
      /\ text = LineOf(kb) => /\ Line!Whole(Line!Inserted(text, key)) = pushed.chars
                              /\ text.right = <<>> <=> kb.cursor = 0
  BY <1>5, PushedIsInserted, BufferIsLine
<1>7. hits # {} => /\ entry \in Entry /\ Len(entry.match) \in Nat
                   /\ Len(entry.match) <= Size(kb) + 1
                   /\ Least(hits) \in DOMAIN Table
                   /\ entry.match = SubSeq(pushed.chars, Size(kb) + 1 - Len(entry.match) + 1,
                                           Size(kb) + 1)
  <2> SUFFICES ASSUME hits # {}
               PROVE  /\ entry \in Entry /\ Len(entry.match) \in Nat
                      /\ Len(entry.match) <= Size(kb) + 1
                      /\ Least(hits) \in DOMAIN Table
                      /\ entry.match = SubSeq(pushed.chars, Size(kb) + 1 - Len(entry.match) + 1,
                                              Size(kb) + 1)
    OBVIOUS
  <2> DEFINE chars == pushed.chars
  <2> HIDE DEF pushed
  <2>1. /\ Least(hits) \in DOMAIN Table /\ entry \in Entry
        /\ Len(entry.match) \in Nat /\ Len(entry.match) <= Len(chars)
        /\ entry.match = SubSeq(chars, Len(chars) - Len(entry.match) + 1, Len(chars))
    BY <1>6, HitFacts
  <2>2. Len(chars) = Size(kb) + 1
    BY <1>6
  <2> HIDE DEF hits, entry
  <2>3. Len(chars) - Len(entry.match) + 1 = Size(kb) + 1 - Len(entry.match) + 1
    BY <1>6, <2>1, <2>2
  <2>4. entry.match = SubSeq(chars, Size(kb) + 1 - Len(entry.match) + 1, Size(kb) + 1)
    BY <2>1, <2>2, <2>3, Zenon
  <2> QED
    BY <2>1, <2>2, <2>4
<1>8. hits # {} => ~resets
  OBVIOUS
<1> HIDE DEF hits, entry, resets, pushed
<1>9. Taken(key)'
  <2>1. Sound'
    <3>1. ~tryUndo'
      BY <1>2, <1>5
    <3>2. CASE hits = {}
      BY <1>2, <1>5, <3>1, <3>2 DEF Sound, matched
    <3>3. CASE hits # {}
      <4>1. Size(kb') = Size(kb) + 1
        BY <1>5, <1>6, <1>8, <3>3 DEF Size
      <4>2. settings'.cursor = Size(kb) + 1 - Len(entry.match)
        BY <1>5, <3>3
      <4>3. Size(kb') - settings'.cursor >= 0
        BY <1>6, <1>7, <3>3, <4>1, <4>2
      <4> QED
        BY <3>1, <4>3 DEF Sound, DeleteCount, Size
    <3> QED
      BY <3>2, <3>3
  <2> QED
    BY <1>2, <1>4, <1>5, <2>1 DEF Taken
<1>10. ASSUME Sure' PROVE Due'
  <2>1. Sure
    BY <1>5, <1>10 DEF Sure, PlainCounts, user
  <2>2. text = LineOf(kb)
    BY <1>2, <2>1 DEF FollowsText, Sure
  <2> DEFINE line == Line!Inserted(text, key)
             whole == Line!Whole(line)
  <2>3. whole = pushed.chars /\ Hits(whole) = hits /\ Table[Least(Hits(whole))] = entry
        /\ line.right = text.right
    BY <1>6, <2>2 DEF hits, entry, Line!Inserted
  <2>4. ideal' = TypedOn(text, key)
    <3>1. key # BackSpace
      BY <1>5, KeyHookAssumption
    <3> QED
      BY <1>1, <1>5, <2>1, <3>1 DEF After, user
  <2>5. CASE hits = {}
    <3>1. ideal' = Plain(IF resets THEN Line!Blank ELSE line)
      BY <1>6, <2>2, <2>3, <2>4, <2>5 DEF TypedOn, resets
    <3>2. ~tryExpand' /\ ~tryUndo' /\ ideal'.line = text' /\ Undone' = source'
          /\ source' = None
      BY <1>2, <1>5, <2>5, <3>1 DEF Plain, Expected, Undone, matched
    <3> QED
      BY <3>2 DEF Due, Agreed, Quiet
  <2>6. CASE hits # {}
    <3> DEFINE at == Size(kb) + 1 - Len(entry.match)
    <3>1. /\ tryExpand' = TRUE /\ ~tryUndo' /\ expandTag' = Least(hits) /\ text' = line
          /\ settings' = [cursor |-> at, undoable |-> entry.silent] /\ source' = None
      BY <1>2, <1>5, <1>8, <2>6
    <3>2. ideal' = Expected([left |-> Kept(whole, Len(whole) - Len(entry.match)) \o entry.typed,
                             right |-> <<>>],
                            IF Undoable(entry) THEN {entry.match} ELSE None,
                            Len(entry.typed), line.right # <<>>)
      BY <2>3, <2>4, <2>6 DEF TypedOn
    <3>3. /\ at \in Nat /\ at <= Len(whole) /\ Len(whole) = Size(kb) + 1
          /\ Len(whole) - (Len(whole) - at) = Len(whole) - Len(entry.match)
          /\ entry.match = SubSeq(whole, at + 1, Len(whole))
      <4>1. whole = pushed.chars /\ Len(whole) = Size(kb) + 1 /\ Size(kb) \in Nat
            /\ Len(entry.match) \in Nat /\ Len(entry.match) <= Size(kb) + 1
            /\ entry.match = SubSeq(whole, at + 1, Size(kb) + 1)
        BY <1>6, <1>7, <2>3, <2>6
      <4> HIDE DEF whole
      <4> QED
        BY <4>1
    <3>4. Table[expandTag'] = entry
      BY <3>1 DEF entry
    <3>5. Replaced(line, Len(whole) - at, entry.typed)
            = [left |-> Kept(whole, Len(whole) - Len(entry.match)) \o entry.typed, right |-> <<>>]
      BY <3>3 DEF Replaced
    <3> HIDE DEF at, whole, line
    <3>6. ideal' = Expected(Replaced(text', Len(whole) - settings'.cursor, entry.typed),
                            IF Undoable(entry)
                            THEN {SubSeq(whole, settings'.cursor + 1, Len(whole))} ELSE None,
                            Len(entry.typed), text'.right # <<>>)
      BY <3>1, <3>2, <3>3, <3>5
    <3>7. Line!Whole(text') = whole /\ ~Quiet'
      BY <3>1 DEF whole, Quiet
    <3> QED
      BY <3>1, <3>3, <3>4, <3>6, <3>7 DEF Due
  <2> QED
    BY <2>5, <2>6
<1> QED
  BY <1>9, <1>10 DEF TakenNow

(* A backspace that may become an undo: the buffer keeps its character until   *)
(* the release.                                                                *)
LEMMA StruckBackSpaceHeld ==
    ASSUME HookShape, StruckNow, Takes("down"), BackSpaceHeld
    PROVE  TakenNow'
<1>1. PICK key \in Keys : Struck(key) /\ (Sure => SourceFits /\ ideal = After(key))
  BY DEF StruckNow
<1>2. posts = <<>> /\ ~expanding /\ ~tryExpand
  BY <1>1 DEF Struck, Quiet
<1>3. /\ Head(stream).key = BackSpace /\ source # None /\ tryUndo' /\ text' = Line!Erased(text)
      /\ lost' = (lost \/ ~PopFollows(kb))
      /\ UNCHANGED <<kb, expanding, source, expandLen, matched, posts, user, fault>>
  BY DEF BackSpaceHeld, UndoPossible
<1>4. /\ key = BackSpace
      /\ \/ held' = {key} /\ stream' = <<>>
         \/ held' = {} /\ stream' = <<Event("up", key)>>
  BY <1>1, <1>3, StruckTaken DEF user
<1>5. Taken(key)'
  <2>1. Sound'
    BY <1>2, <1>3 DEF Sound, SourceNow, Armed, matched
  <2> QED
    BY <1>2, <1>3, <1>4, <2>1 DEF Taken, matched
<1>6. ASSUME Sure' PROVE Due'
  <2>1. Sure /\ text \in Lines
    BY <1>3, <1>6 DEF Sure, PlainCounts, user, HookShape, TypeOK, Lines
  <2>2. /\ expandLen >= 1 /\ expandLen <= Len(text.left) /\ text.right = <<>>
        /\ ideal = After(key) /\ expandLen \in Nat \ {0}
    BY <1>1, <1>3, <2>1 DEF SourceFits, HookShape, TypeOK
  <2> DEFINE back == CHOOSE s \in source : TRUE
  <2>3. ideal = Plain([left |-> Kept(text.left, Len(text.left) - expandLen) \o back,
                       right |-> <<>>])
    BY <1>3, <1>4, <2>2 DEF After, ErasedOn
  <2>4. back \in Seq(Chars)
    <3>1. PICK s \in source : source = {s} /\ s \in Seq(Chars)
      BY <1>3 DEF HookShape, TypeOK
    <3> QED
      BY <3>1
  <2> HIDE DEF back
  <2>5. /\ text'.right = <<>> /\ Len(text'.left) = Len(text.left) - 1
        /\ Replaced(text', expandLen - 1, back)
             = [left |-> Kept(text.left, Len(text.left) - expandLen) \o back, right |-> <<>>]
    BY <1>3, <2>1, <2>2, <2>4, ErasedPart
  <2>6. Len(text.left) \in Nat
    BY <2>1, LineFacts
  <2>7. expandLen' = expandLen /\ (CHOOSE s \in source' : TRUE) = back /\ ideal' = ideal
        /\ ~tryExpand' /\ ~Quiet'
    BY <1>2, <1>3 DEF back, user, matched, Quiet
  <2>8. ideal = Plain(Replaced(text', expandLen - 1, back))
    BY <2>3, <2>5
  <2>9. expandLen <= Len(text'.left) + 1
    BY <2>2, <2>5, <2>6
  <2> QED
    BY <2>2, <2>5, <2>7, <2>8, <2>9 DEF Due
<1> QED
  BY <1>5, <1>6 DEF TakenNow

(* A backspace with nothing to undo                                            *)
LEMMA StruckBackSpaceDown ==
    ASSUME HookShape, StruckNow, Takes("down"), BackSpaceDown
    PROVE  TakenNow'
<1>1. PICK key \in Keys : Struck(key) /\ (Sure => SourceFits /\ ideal = After(key))
  BY DEF StruckNow
<1>2. posts = <<>> /\ ~expanding /\ ~tryExpand /\ ~tryUndo
  BY <1>1 DEF Struck, Quiet
<1>3. /\ Head(stream).key = BackSpace /\ source = None /\ ~tryUndo' /\ text' = Line!Erased(text)
      /\ lost' = (lost \/ ~PopFollows(kb))
      /\ UNCHANGED <<expanding, source, expandLen, matched, posts, user, fault>>
  BY <1>2 DEF BackSpaceDown, UndoPossible
<1>4. /\ key = BackSpace
      /\ \/ held' = {key} /\ stream' = <<>>
         \/ held' = {} /\ stream' = <<Event("up", key)>>
  BY <1>1, <1>3, StruckTaken DEF user
<1>5. Taken(key)'
  BY <1>2, <1>3, <1>4 DEF Taken, Sound, matched
<1>6. ASSUME Sure' PROVE Due'
  <2>1. Sure
    BY <1>3, <1>6 DEF Sure, PlainCounts, user
  <2>2. ideal = Plain(text')
    BY <1>1, <1>3, <1>4, <2>1 DEF After, ErasedOn
  <2>3. ideal'.line = text' /\ Undone' = None /\ source' = None
        /\ ~tryExpand' /\ ~tryUndo'
    BY <1>2, <1>3, <2>2 DEF Plain, Expected, Undone, user, matched
  <2> QED
    BY <2>3 DEF Due, Agreed
<1> QED
  BY <1>5, <1>6 DEF TakenNow

(* The user lets go before the hook has taken the key, or after.               *)
LEMMA ReleaseStep ==
    ASSUME StruckNow \/ TakenNow, NEW key \in held, Release(key)
    PROVE  (StruckNow \/ TakenNow)'
<1>1. /\ held' = held \ {key} /\ stream' = Append(stream, Event("up", key))
      /\ UNCHANGED <<kb, expanding, undoing, matched, posts, text, ideal, astray, loaded,
                   lost>>
  BY DEF Release
<1>2. Sure' = Sure
  BY <1>1 DEF Sure
<1>3. CASE StruckNow
  <2>1. PICK k \in Keys : Struck(k) /\ (Sure => SourceFits /\ ideal = After(k))
    BY <1>3 DEF StruckNow
  <2>2. key = k /\ held = {k} /\ stream = <<Event("down", k)>> /\ held' = {}
    BY <1>1, <2>1 DEF Struck
  <2>3. Append(<<Event("down", k)>>, Event("up", k)) = <<Event("down", k), Event("up", k)>>
    <3> DEFINE d == Event("down", k)
               u == Event("up", k)
    <3>1. d \in Events /\ u \in Events
      BY EventIsOne
    <3> HIDE DEF d, u
    <3>2. /\ Append(<<d>>, u) \in Seq(Events) /\ Len(Append(<<d>>, u)) = 2
          /\ Append(<<d>>, u)[1] = d /\ Append(<<d>>, u)[2] = u
      BY <3>1
    <3>3. <<d, u>> \in Seq(Events) /\ Len(<<d, u>>) = 2
      BY <3>1
    <3>4. \A i \in 1 .. 2 : Append(<<d>>, u)[i] = <<d, u>>[i]
      BY <3>2
    <3> QED
      BY <3>2, <3>3, <3>4, SeqEqual DEF d, u
  <2>4. Struck(k)'
    BY <1>1, <2>1, <2>2, <2>3 DEF Struck, Quiet, undoing, matched
  <2>5. SourceFits' = SourceFits /\ After(k)' = After(k)
    BY <1>1 DEF SourceFits, After, undoing, ErasedOn, TypedOn, Hits
  <2> QED
    BY <1>1, <1>2, <2>1, <2>4, <2>5 DEF StruckNow
<1>4. CASE TakenNow
  <2>1. PICK k \in Keys : Taken(k) /\ (Sure => Due)
    BY <1>4 DEF TakenNow
  <2>2. key = k /\ held = {k} /\ stream = <<>> /\ held' = {}
    BY <1>1, <2>1 DEF Taken
  <2>3. Append(<<>>, Event("up", k)) = <<Event("up", k)>>
    OBVIOUS
  <2>4. Sound' = Sound
    BY <1>1 DEF Sound, DeleteCount, SourceNow, Armed, Deleted, Size, undoing, matched
  <2>5. Taken(k)'
    BY <1>1, <2>1, <2>2, <2>3, <2>4 DEF Taken, undoing, matched
  <2>6. Due' = Due
    BY <1>1 DEF Due, Agreed, Undone, Quiet, Replaced, undoing, matched
  <2> QED
    BY <1>2, <2>1, <2>5, <2>6 DEF TakenNow
<1> QED
  BY <1>3, <1>4
-----------------------------------------------------------------------------
(* From an arrow or a click                                                    *)

(* The line does with it what the user expects, and nothing can be undone.     *)
LEMMA AwayStep ==
    ASSUME HookShape, AwayNow,
           \/ (Takes("left") \/ Takes("right")) /\ Arrow
           \/ Takes("reset") /\ Reset
    PROVE  RestingNow'
<1>1. PICK kind \in Excursions :
         Away(kind) /\ (Sure \/ kind = "reset" => ideal = AfterAway(kind))
  BY DEF AwayNow
<1>2. /\ held = {} /\ posts = <<>> /\ ~expanding /\ ~tryExpand /\ ~tryUndo
      /\ stream = <<Event(kind, BackSpace)>>
  BY <1>1 DEF Away, Quiet
<1>3. Head(stream).kind = kind /\ Tail(stream) = <<>>
  BY <1>2 DEF Event
<1>4. \/ kind = "left" /\ text' = Line!CaretLeft(text) /\ (~lost' => ~lost)
      \/ kind = "right" /\ text' = Line!CaretRight(text) /\ (~lost' => ~lost)
      \/ kind = "reset" /\ text' = Line!Blank
  BY <1>3 DEF Takes, Arrow, Reset, Handle
<1>5. /\ stream' = <<>> /\ source' = None /\ expandLen' = 0
      /\ UNCHANGED <<expanding, tryUndo, matched, posts, user, fault>>
  BY <1>3 DEF Takes, Arrow, Reset, ResetUndo
<1>6. Resting'
  <2>1. <<>> \o <<>> = <<>>
    BY EmptySeq, ConcatEmptySeq
  <2> QED
    BY <1>2, <1>5, <2>1 DEF Resting, Quiet, Coming, user, matched
<1>7. ASSUME Sure' PROVE ideal'.line = text' /\ Agreed'
  <2>1. ideal = AfterAway(kind)
    BY <1>1, <1>4, <1>5, <1>7 DEF Sure, PlainCounts, user
  <2>2. AfterAway(kind) = Plain(text')
    BY <1>4 DEF AfterAway
  <2> QED
    BY <1>5, <2>1, <2>2 DEF Plain, Expected, Agreed, Undone, user
<1> QED
  BY <1>6, <1>7 DEF RestingNow
-----------------------------------------------------------------------------
(* From a release                                                              *)

(* Nothing was found and nothing is to be undone.                              *)
LEMMA TakenPlain ==
    ASSUME HookShape, TakenNow, Takes("up"), KeyUp, ~tryExpand, ~tryUndo
    PROVE  RestingNow'
<1>1. PICK key \in Keys : Taken(key) /\ (Sure => Due)
  BY DEF TakenNow
<1>2. /\ ~expanding /\ held = {} /\ stream = <<Event("up", key)>>
  BY <1>1 DEF Taken, Takes
<1>3. /\ posts' = <<>> \o <<>> /\ tryExpand' = FALSE /\ tryUndo' = FALSE
      /\ source' = SourceNow /\ expandLen' = LengthNow
      /\ (~lost' => ~lost)
      /\ UNCHANGED <<expanding, text, user, fault>>
  BY DEF KeyUp
<1>4. source' = source /\ expandLen' = expandLen
  BY <1>3 DEF SourceNow, LengthNow, Armed
<1>5. stream' = <<>>
  BY <1>2 DEF Takes
<1>6. Resting'
  <2>1. <<>> \o <<>> = <<>>
    BY EmptySeq, ConcatEmptySeq
  <2> QED
    BY <1>2, <1>3, <1>5, <2>1 DEF Resting, Quiet, Coming, user
<1>7. ASSUME Sure' PROVE ideal'.line = text' /\ Agreed'
  <2>1. Due
    BY <1>1, <1>3, <1>7 DEF Sure, PlainCounts, user
  <2>2. ideal.line = text /\ Agreed
    BY <2>1 DEF Due, Quiet
  <2> QED
    BY <1>3, <1>4, <2>2 DEF Agreed, Undone, user
<1> QED
  BY <1>6, <1>7 DEF RestingNow

(* A match was found: it is replaced (keyhook_expand_matched).                 *)
LEMMA TakenExpand ==
    ASSUME HookShape, FollowsText, TakenNow, Takes("up"), KeyUp, tryExpand
    PROVE  MarkedNow'
<1>1. PICK key \in Keys : Taken(key) /\ (Sure => Due)
  BY DEF TakenNow
<1>2. ~expanding /\ held = {} /\ stream = <<Event("up", key)>> /\ ~tryUndo
  BY <1>1 DEF Taken, Takes
<1> DEFINE entry == Table[expandTag]
<1>3. /\ DeleteCount >= 0 /\ posts' = Expansion \o <<>> /\ ~tryExpand' /\ ~tryUndo'
      /\ source' = SourceNow /\ expandLen' = LengthNow
      /\ (~lost' => ~lost)
      /\ UNCHANGED <<expanding, text, user, fault>>
  BY <1>2 DEF KeyUp, Sound
<1>4. PICK r \in Nat, d \in Nat, t \in Seq(Chars) :
         r = kb.cursor /\ d = DeleteCount /\ t = entry.typed /\ Expansion = Marking(r, d, t)
  BY <1>3, ExpansionIsMarking
<1>5. entry \in Entry
  BY TableEntries DEF HookShape, Owned
<1> HIDE DEF entry
<1>6. Marked(r, d, t)'
  <2>1. stream' = <<>>
    BY <1>2 DEF Takes
  <2>2. Marking(r, d, t) \in Seq(Events)
    BY <1>4, MarkingFirst
  <2>3. Marking(r, d, t) \o <<>> = Marking(r, d, t) /\ <<>> \o Marking(r, d, t) = Marking(r, d, t)
    BY <2>2, ConcatEmptySeq
  <2>4. posts' = Marking(r, d, t)
    BY <1>3, <1>4, <2>3
  <2>5. stream' \o posts' = Marking(r, d, t)
    BY <2>1, <2>3, <2>4
  <2> QED
    BY <1>2, <1>3, <2>5 DEF user, Quiet, Coming, Marked
<1>7. ASSUME Sure' PROVE MarkedMeant(r, d, t)'
  <2>1. Sure /\ Due
    BY <1>1, <1>3, <1>7 DEF Sure, PlainCounts, user
  <2>2. text = LineOf(kb)
    BY <1>2, <2>1 DEF FollowsText, Sure
  <2> DEFINE whole == Line!Whole(text)
             at == settings.cursor
  <2>3. /\ whole = kb.chars /\ Len(text.right) = r /\ Size(kb) = Len(whole)
        /\ text.right = <<>> <=> r = 0
    BY <2>2, BufferIsLine, <1>4
  <2>4. /\ source = None /\ settings.undoable = entry.silent /\ at <= Len(whole)
        /\ ideal = Expected(Replaced(text, Len(whole) - at, t),
                            IF Undoable(entry)
                            THEN {SubSeq(whole, at + 1, Len(whole))} ELSE None,
                            Len(t), text.right # <<>>)
    BY <1>4, <2>1 DEF Due, entry
  <2>5. d = Len(whole) - at
    BY <1>4, <2>3 DEF DeleteCount
  <2>6. at \in Nat /\ Len(whole) \in Nat
    BY <2>3, BufferIsLine DEF HookShape, TypeOK
  <2>7. d <= Len(whole)
    BY <2>5, <2>6
  <2>8. ideal'.line = Replaced(text', d, t) /\ ideal' = ideal
    BY <1>3, <2>4, <2>5 DEF Expected, user
  <2>9. r = Len(text'.right) /\ d <= Len(Line!Whole(text'))
    BY <1>3, <2>3, <2>7
  <2>10. CASE r # 0
    <3>1. Undone = None
      BY <2>3, <2>4, <2>10 DEF Expected, Undone
    <3> QED
      BY <2>8, <2>9, <2>10, <3>1 DEF MarkedMeant, Undone
  <2>11. CASE r = 0
    <3>1. Deleted = SubSeq(whole, at + 1, Len(whole))
      BY <2>3 DEF Deleted
    <3>2. Armed <=> Undoable(entry)
      BY <2>4 DEF Armed, Undoable, entry
    <3>3. Undoable(entry) => entry.counted = Len(t)
      BY <1>4, <2>1 DEF Sure, PlainCounts, user, HookShape, Owned, entry
    <3>4. Undone = source'
      BY <1>3, <2>3, <2>4, <2>11, <3>1, <3>2 DEF SourceNow, Expected, Undone
    <3>5. source' # None => expandLen' = Len(t) /\ ideal.typed = Len(t)
      BY <1>3, <2>4, <3>2, <3>3 DEF SourceNow, LengthNow, Expected, entry
    <3> QED
      BY <2>8, <2>9, <2>11, <3>4, <3>5 DEF MarkedMeant, Agreed, Undone
  <2> QED
    BY <2>10, <2>11
<1> QED
  BY <1>4, <1>6, <1>7 DEF MarkedNow

(* A backspace after an expansion has been let go of: the match comes back.    *)
LEMMA TakenUndo ==
    ASSUME HookShape, TakenNow, Takes("up"), KeyUp, tryUndo
    PROVE  MarkedNow'
<1>1. PICK key \in Keys : Taken(key) /\ (Sure => Due)
  BY DEF TakenNow
<1>2. ~expanding /\ held = {} /\ stream = <<Event("up", key)>> /\ ~tryExpand
  BY <1>1 DEF Taken, Takes
<1>3. SourceNow = source /\ LengthNow = expandLen
  BY <1>2 DEF SourceNow, LengthNow, Armed
<1>4. /\ source # None
      /\ posts' = <<>> \o Restoration(CHOOSE s \in source : TRUE, expandLen)
      /\ ~tryExpand' /\ ~tryUndo' /\ source' = None /\ expandLen' = 0
      /\ (~lost' => ~lost)
      /\ UNCHANGED <<expanding, text, user, fault>>
  BY <1>2, <1>3 DEF KeyUp, Sound, ResetUndo
<1>5. PICK t \in Seq(Chars) : t = CHOOSE s \in source : TRUE
  <2>1. PICK s \in source : source = {s} /\ s \in Seq(Chars)
    BY <1>4 DEF HookShape, TypeOK
  <2> QED
    BY <2>1
<1>6. PICK d \in Nat : d = Remaining(expandLen) /\ Restoration(t, expandLen) = Marking(0, d, t)
  BY RestorationIsMarking DEF HookShape, TypeOK
<1>7. Marked(0, d, t)'
  <2>1. stream' = <<>>
    BY <1>2 DEF Takes
  <2>2. Marking(0, d, t) \in Seq(Events)
    BY MarkingFirst
  <2>3. <<>> \o Marking(0, d, t) = Marking(0, d, t)
    BY <2>2, ConcatEmptySeq
  <2>4. stream' \o posts' = Marking(0, d, t)
    BY <1>4, <1>5, <1>6, <2>1, <2>3
  <2> QED
    BY <1>2, <1>4, <2>4 DEF user, Quiet, Coming, Marked
<1>8. ASSUME Sure' PROVE MarkedMeant(0, d, t)'
  <2>1. Due
    BY <1>1, <1>4, <1>8 DEF Sure, PlainCounts, user
  <2>2. /\ expandLen \in Nat /\ expandLen >= 1 /\ expandLen <= Len(text.left) + 1
        /\ text.right = <<>> /\ ideal = Plain(Replaced(text, expandLen - 1, t))
    BY <1>5, <2>1 DEF Due, HookShape, TypeOK
  <2>3. d = expandLen - 1
    BY <1>6, <2>2 DEF Remaining
  <2>4. text \in Lines
    BY DEF HookShape, TypeOK, Lines
  <2>5. Len(text.right) = 0 /\ Line!Whole(text) = text.left /\ Len(text.left) \in Nat
    BY <2>2, <2>4, LineFacts
  <2>6. d <= Len(Line!Whole(text))
    BY <2>2, <2>3, <2>5
  <2>7. ideal'.line = Replaced(text', d, t) /\ Undone' = None
    BY <1>4, <2>2, <2>3 DEF Plain, Expected, Undone, user
  <2> QED
    BY <1>4, <2>5, <2>6, <2>7 DEF MarkedMeant, Agreed, Undone
<1> QED
  BY <1>7, <1>8 DEF MarkedNow

(* What the hook held on to is still there: the release crashes nothing.       *)
LEMMA TakenIsSound ==
    ASSUME HookShape, loaded = DOMAIN Table, TakenNow
    PROVE  ~KeyUpIgnored /\ ~KeyUpCrash
BY DEF TakenNow, Taken, HookShape, Owned, KeyUpIgnored, KeyUpCrash
-----------------------------------------------------------------------------
(* While texc types                                                            *)

(* An arrow on the way to the end of the line, or the first toggle             *)
LEMMA MarkedStep ==
    ASSUME HookShape, MarkedNow,
           \/ (Takes("left") \/ Takes("right")) /\ Arrow
           \/ Takes("toggle") /\ ToggleExpanding
    PROVE  (MarkedNow \/ TypingNow)'
<1>1. PICK r, d \in Nat, t \in Seq(Chars) : Marked(r, d, t) /\ (Sure => MarkedMeant(r, d, t))
  BY DEF MarkedNow
<1>2. /\ held = {} /\ ~expanding /\ ~tryExpand /\ ~tryUndo /\ posts = <<>>
      /\ stream = Marking(r, d, t) /\ stream' = Tail(stream)
  BY <1>1, ComingMoves DEF Marked, Quiet, Takes
<1>3. text \in Lines
  BY DEF HookShape, TypeOK, Lines
<1>4. CASE r # 0
  <2>1. Head(stream) = Event("right", BackSpace) /\ stream' = Marking(r - 1, d, t)
    BY <1>2, <1>4, MarkingFirst
  <2>2. Head(stream).kind = "right"
    BY <2>1 DEF Event
  <2>3. /\ text' = Line!CaretRight(text) /\ source' = None /\ expandLen' = 0
        /\ lost' = (lost \/ tryUndo \/ text.right = <<>>)
        /\ UNCHANGED <<expanding, tryUndo, matched, posts, user, fault>>
    BY <2>2 DEF Arrow, ToggleExpanding, Handle, Takes, ResetUndo
  <2>4. Marking(r - 1, d, t) \in Seq(Events) /\ r - 1 \in Nat
    BY <1>4, MarkingFirst
  <2>5. Marked(r - 1, d, t)'
    <3>1. Coming' = Marking(r - 1, d, t)
      BY <1>2, <2>1, <2>3, <2>4, ConcatEmptySeq DEF Coming
    <3> QED
      BY <1>2, <2>3, <3>1 DEF Marked, Quiet, user, matched
  <2>6. ASSUME Sure' PROVE MarkedMeant(r - 1, d, t)'
    <3>1. MarkedMeant(r, d, t)
      BY <1>1, <2>3, <2>6 DEF Sure, PlainCounts, user
    <3>2. text.right # <<>>
      BY <2>3, <2>6 DEF Sure
    <3>3. /\ Len(text'.right) = r - 1 /\ Line!Whole(text') = Line!Whole(text)
          /\ Replaced(text', d, t) = Replaced(text, d, t)
      BY <1>3, <2>3, <3>1, <3>2, ArrowPart DEF MarkedMeant
    <3>4. ideal' = ideal /\ Undone = None /\ ideal.line = Replaced(text, d, t)
          /\ d <= Len(Line!Whole(text))
      BY <1>4, <2>3, <3>1 DEF MarkedMeant, user
    <3> QED
      BY <2>3, <3>3, <3>4 DEF MarkedMeant, Agreed, Undone
  <2> QED
    BY <2>4, <2>5, <2>6 DEF MarkedNow
<1>5. CASE r = 0
  <2>1. Head(stream) = Toggle /\ stream' = Erasing(d, t)
    BY <1>2, <1>5, MarkingFirst
  <2>2. Head(stream).kind = "toggle"
    BY <2>1 DEF Toggle, Event
  <2>3. /\ expanding' = ~expanding
        /\ UNCHANGED <<kb, undoing, matched, posts, text, user, lost, fault>>
    BY <2>2 DEF Arrow, ToggleExpanding, Handle, Takes, Switched
  <2>4. Erasing(d, t) \in Seq(Events)
    BY ErasingFirst
  <2>5. Typing(d, t)'
    <3>1. Coming' = Erasing(d, t)
      BY <1>2, <2>1, <2>3, <2>4, ConcatEmptySeq DEF Coming
    <3> QED
      BY <1>2, <2>3, <3>1 DEF Typing, Quiet, user, matched, undoing
  <2>6. ASSUME Sure' PROVE TypingMeant(d, t)'
    <3>1. MarkedMeant(0, d, t)
      BY <1>1, <1>5, <2>3, <2>6 DEF Sure, PlainCounts, user
    <3>2. text.right = <<>> /\ Line!Whole(text) = text.left
      BY <1>3, <3>1, LineFacts DEF MarkedMeant
    <3>3. ideal' = ideal /\ text' = text /\ source' = source /\ expandLen' = expandLen
      BY <2>3 DEF user, undoing
    <3> QED
      BY <3>1, <3>2, <3>3 DEF MarkedMeant, TypingMeant, Agreed, Undone
  <2> QED
    BY <2>5, <2>6 DEF TypingNow
<1> QED
  BY <1>4, <1>5

(* A backspace, a character, or the last toggle                                *)
LEMMA TypingStep ==
    ASSUME HookShape, FollowsText, TypingNow,
           \/ Takes("down") /\ (KeyDown \/ BackSpaceHeld \/ BackSpaceDown)
           \/ Takes("toggle") /\ ToggleExpanding
    PROVE  (TypingNow \/ RestingNow)'
<1>1. PICK d \in Nat, t \in Seq(Chars) : Typing(d, t) /\ (Sure => TypingMeant(d, t))
  BY DEF TypingNow
<1>2. /\ held = {} /\ expanding = TRUE /\ ~tryExpand /\ ~tryUndo /\ posts = <<>>
      /\ stream = Erasing(d, t) /\ stream' = Tail(stream)
  BY <1>1, ComingMoves DEF Typing, Quiet, Takes, HookShape, TypeOK
<1>3. text \in Lines
  BY DEF HookShape, TypeOK, Lines
<1>4. CASE d # 0
  <2>1. Head(stream) = Event("down", BackSpace) /\ stream' = Erasing(d - 1, t)
    BY <1>2, <1>4, ErasingFirst
  <2>2. Head(stream).kind = "down" /\ Head(stream).key = BackSpace
    BY <2>1 DEF Event
  <2>3. /\ text' = Line!Erased(text) /\ tryUndo' = FALSE
        /\ (~lost' => ~lost)
        /\ UNCHANGED <<source, expandLen, expanding, matched, posts, user, fault>>
    BY <1>2, <2>2, KeyHookAssumption
       DEF KeyDown, BackSpaceHeld, BackSpaceDown, ToggleExpanding, UndoPossible, Takes
  <2>4. Erasing(d - 1, t) \in Seq(Events) /\ d - 1 \in Nat
    BY <1>4, ErasingFirst
  <2>5. Typing(d - 1, t)'
    <3>1. Coming' = Erasing(d - 1, t)
      BY <1>2, <2>1, <2>3, <2>4, ConcatEmptySeq DEF Coming
    <3> QED
      BY <1>2, <2>3, <3>1 DEF Typing, Quiet, user, matched
  <2>6. ASSUME Sure' PROVE TypingMeant(d - 1, t)'
    <3>1. TypingMeant(d, t)
      BY <1>1, <2>3, <2>6 DEF Sure, PlainCounts, user
    <3>2. text.right = <<>> /\ d <= Len(text.left) /\ d \in Nat \ {0} /\ Len(text.left) \in Nat
      BY <1>3, <1>4, <3>1, LineFacts DEF TypingMeant
    <3>3. /\ text'.right = <<>> /\ Len(text'.left) = Len(text.left) - 1
          /\ Replaced(text', d - 1, t) = Replaced(text, d, t)
      BY <1>3, <2>3, <3>2, ErasedPart
    <3>4. d - 1 <= Len(text'.left)
      BY <3>2, <3>3
    <3>5. ideal' = ideal
      BY <2>3 DEF user
    <3> QED
      BY <2>3, <3>1, <3>3, <3>4, <3>5 DEF TypingMeant, Agreed, Undone
  <2> QED
    BY <2>4, <2>5, <2>6 DEF TypingNow
<1>5. CASE d = 0 /\ t # <<>>
  <2>1. Head(stream) = Event("down", Head(t)) /\ stream' = Erasing(0, Tail(t))
    BY <1>2, <1>5, ErasingFirst
  <2>2. Head(stream).kind = "down" /\ Head(stream).key = Head(t)
    BY <2>1 DEF Event
  <2>3. Head(t) \in Chars /\ Tail(t) \in Seq(Chars) /\ Head(t) # BackSpace
    BY <1>5, HeadTailProperties, KeyHookAssumption
  <2>4. KeyDown
    BY <2>2, <2>3 DEF BackSpaceHeld, BackSpaceDown, ToggleExpanding, Takes
  <2> DEFINE c == Head(t)
             resets == ResetOnEnter /\ c = Enter /\ kb.cursor # 0
  <2>5. /\ text' = IF resets THEN Line!Blank ELSE Line!Inserted(text, c)
        /\ IF resets THEN source' = None /\ expandLen' = 0
                     ELSE UNCHANGED <<source, expandLen>>
        /\ lost' = (lost \/ tryUndo)
        /\ UNCHANGED <<matched, expanding, tryUndo, posts, user, fault>>
    BY <1>2, <2>2, <2>4 DEF KeyDown, Candidates, ResetUndo
  <2> HIDE DEF c, resets
  <2>6. Erasing(0, Tail(t)) \in Seq(Events)
    BY <2>3, ErasingFirst
  <2>7. Typing(0, Tail(t))'
    <3>1. Coming' = Erasing(0, Tail(t))
      BY <1>2, <2>1, <2>5, <2>6, ConcatEmptySeq DEF Coming
    <3> QED
      BY <1>2, <2>5, <3>1 DEF Typing, Quiet, user, matched
  <2>8. ASSUME Sure' PROVE TypingMeant(0, Tail(t))'
    <3>1. TypingMeant(0, t) /\ ~lost
      BY <1>1, <1>5, <2>5, <2>8 DEF Sure, PlainCounts, user
    <3>2. text.right = <<>> /\ text = LineOf(kb)
      BY <1>2, <3>1 DEF TypingMeant, FollowsText
    <3>3. ~resets
      BY <3>2, BufferIsLine DEF resets
    <3>4. text' = Line!Inserted(text, Head(t)) /\ UNCHANGED <<source, expandLen>> /\ ideal' = ideal
      BY <2>5, <3>3 DEF c, user
    <3>5. text'.right = <<>> /\ Replaced(text', 0, Tail(t)) = Replaced(text, 0, t)
      BY <1>3, <1>5, <3>2, <3>4, TypedPart
    <3>6. 0 <= Len(text'.left)
      <4>1. text' \in Lines
        BY <1>3, <2>3, <3>4, KeysMakeLines
      <4> QED
        BY <4>1, LineFacts
    <3> QED
      BY <3>1, <3>4, <3>5, <3>6 DEF TypingMeant, Agreed, Undone
  <2> QED
    BY <2>3, <2>7, <2>8 DEF TypingNow
<1>6. CASE d = 0 /\ t = <<>>
  <2>1. Head(stream) = Toggle /\ stream' = <<>>
    BY <1>2, <1>6, ErasingFirst
  <2>2. Head(stream).kind = "toggle"
    BY <2>1 DEF Toggle, Event
  <2>3. /\ expanding' = ~expanding
        /\ UNCHANGED <<kb, undoing, matched, posts, text, user, lost, fault>>
    BY <2>2 DEF ToggleExpanding, Takes, Switched
  <2>4. Resting'
    <3>1. <<>> \o <<>> = <<>>
      BY EmptySeq, ConcatEmptySeq
    <3> QED
      BY <1>2, <2>1, <2>3, <3>1 DEF Resting, Quiet, Coming, user, matched, undoing
  <2>5. ASSUME Sure' PROVE ideal'.line = text' /\ Agreed'
    <3>1. TypingMeant(0, <<>>)
      BY <1>1, <1>6, <2>3, <2>5 DEF Sure, PlainCounts, user
    <3>2. Replaced(text, 0, <<>>) = text
      BY <1>3, <3>1, NothingLeft DEF TypingMeant
    <3>3. ideal' = ideal /\ text' = text /\ source' = source /\ expandLen' = expandLen
      BY <2>3 DEF user, undoing
    <3> QED
      BY <3>1, <3>2, <3>3 DEF TypingMeant, Agreed, Undone
  <2> QED
    BY <2>4, <2>5 DEF RestingNow
<1> QED
  BY <1>4, <1>5, <1>6
-----------------------------------------------------------------------------
(* From key to key                                                             *)

(* A key that is sent belongs to what is to come already, and every stage says *)
(* the same of it before and after.                                            *)
LEMMA PostStep ==
    ASSUME HookShape, MarkedNow \/ TypingNow, posts # <<>>, Post
    PROVE  (MarkedNow \/ TypingNow)'
<1>1. /\ Coming' = Coming
      /\ UNCHANGED <<kb, expanding, undoing, matched, text, user, lost, fault>>
  BY ComingMoves DEF Post
<1>2. Sure' = Sure
  BY <1>1 DEF Sure, user
<1>3. CASE MarkedNow
  <2>1. PICK r, d \in Nat, t \in Seq(Chars) : Marked(r, d, t) /\ (Sure => MarkedMeant(r, d, t))
    BY <1>3 DEF MarkedNow
  <2>2. Marked(r, d, t)'
    BY <1>1, <2>1 DEF Marked, Quiet, user, undoing, matched
  <2>3. MarkedMeant(r, d, t)' = MarkedMeant(r, d, t)
    BY <1>1 DEF MarkedMeant, Agreed, Undone, user, undoing
  <2> QED
    BY <1>2, <2>1, <2>2, <2>3 DEF MarkedNow
<1>4. CASE TypingNow
  <2>1. PICK d \in Nat, t \in Seq(Chars) : Typing(d, t) /\ (Sure => TypingMeant(d, t))
    BY <1>4 DEF TypingNow
  <2>2. Typing(d, t)'
    BY <1>1, <2>1 DEF Typing, Quiet, user, undoing, matched
  <2>3. TypingMeant(d, t)' = TypingMeant(d, t)
    BY <1>1 DEF TypingMeant, Agreed, Undone, user, undoing
  <2> QED
    BY <1>2, <2>1, <2>2, <2>3 DEF TypingNow
<1> QED
  BY <1>3, <1>4

\* Where in the stages the next event can be
Stages == StruckNow \/ TakenNow \/ AwayNow \/ RestingNow \/ MarkedNow \/ TypingNow

(* What the stages say of who can move                                         *)
LEMMA StageFacts ==
    ASSUME HookShape
    PROVE  /\ StruckNow => /\ posts = <<>> /\ Coming # <<>>
                           /\ \A kind : Takes(kind) => kind = "down"
           /\ TakenNow => /\ posts = <<>> /\ (Coming = <<>> => held # {})
                          /\ \A kind : Takes(kind) => kind = "up"
           /\ AwayNow => /\ posts = <<>> /\ Coming # <<>> /\ held = {}
                         /\ \A kind : Takes(kind) => kind \in {"left", "right", "reset"}
           /\ RestingNow => /\ Coming = <<>> /\ posts = <<>> /\ held = {}
                            /\ \A kind : ~Takes(kind)
           /\ MarkedNow => /\ Coming # <<>> /\ held = {}
                           /\ \A kind : Takes(kind) => kind \in {"right", "toggle"}
           /\ TypingNow => /\ Coming # <<>> /\ held = {}
                           /\ \A kind : Takes(kind) => kind \in {"down", "toggle"}
           /\ Stages => held = {} \/ \E key \in Keys : held = {key}
<1>1. Coming = <<>> <=> stream = <<>> /\ posts = <<>>
  BY ComingMoves
<1>2. ASSUME StruckNow
      PROVE  /\ posts = <<>> /\ Coming # <<>> /\ \A kind : Takes(kind) => kind = "down"
             /\ held = {} \/ \E key \in Keys : held = {key}
  <2>1. PICK key \in Keys : Struck(key)
    BY <1>2 DEF StruckNow
  <2> QED
    BY <1>1, <2>1 DEF Struck, Takes, Event
<1>3. ASSUME TakenNow
      PROVE  /\ posts = <<>> /\ (Coming = <<>> => held # {})
             /\ \A kind : Takes(kind) => kind = "up"
             /\ held = {} \/ \E key \in Keys : held = {key}
  <2>1. PICK key \in Keys : Taken(key)
    BY <1>3 DEF TakenNow
  <2> QED
    BY <1>1, <2>1 DEF Taken, Takes, Event
<1>4. ASSUME AwayNow
      PROVE  /\ posts = <<>> /\ Coming # <<>> /\ held = {}
             /\ \A kind : Takes(kind) => kind \in {"left", "right", "reset"}
  <2>1. PICK kind \in Excursions : Away(kind)
    BY <1>4 DEF AwayNow
  <2> QED
    BY <1>1, <2>1, KeyHookAssumption DEF Away, Takes, Event
<1>5. ASSUME RestingNow
      PROVE  Coming = <<>> /\ posts = <<>> /\ held = {} /\ \A kind : ~Takes(kind)
  BY <1>1, <1>5 DEF RestingNow, Resting, Takes
<1>6. ASSUME MarkedNow
      PROVE  /\ Coming # <<>> /\ held = {}
             /\ \A kind : Takes(kind) => kind \in {"right", "toggle"}
  <2>1. PICK r, d \in Nat, t \in Seq(Chars) : Marked(r, d, t)
    BY <1>6 DEF MarkedNow
  <2>2. held = {} /\ Coming = Marking(r, d, t)
    BY <2>1 DEF Marked
  <2>3. /\ Marking(r, d, t) # <<>>
        /\ Head(Marking(r, d, t)) \in {Event("right", BackSpace), Toggle}
    BY MarkingFirst
  <2>4. Head(Coming).kind \in {"right", "toggle"}
    BY <2>2, <2>3 DEF Event, Toggle
  <2> QED
    BY <2>2, <2>3, <2>4, ComingMoves
<1>7. ASSUME TypingNow
      PROVE  /\ Coming # <<>> /\ held = {}
             /\ \A kind : Takes(kind) => kind \in {"down", "toggle"}
  <2>1. PICK d \in Nat, t \in Seq(Chars) : Typing(d, t)
    BY <1>7 DEF TypingNow
  <2>2. held = {} /\ Coming = Erasing(d, t)
    BY <2>1 DEF Typing
  <2>3. /\ Erasing(d, t) # <<>>
        /\ Head(Erasing(d, t)).kind \in {"down", "toggle"}
    <3>1. Erasing(d, t) # <<>> /\ \/ Head(Erasing(d, t)) = Event("down", BackSpace)
                                  \/ Head(Erasing(d, t)) = Event("down", Head(t))
                                  \/ Head(Erasing(d, t)) = Toggle
      BY ErasingFirst
    <3> QED
      BY <3>1 DEF Event, Toggle
  <2> QED
    BY <2>2, <2>3, ComingMoves
<1> QED
  BY <1>2, <1>3, <1>4, <1>5, <1>6, <1>7 DEF Stages

(* Nothing moved.                                                              *)
LEMMA StagesStutter == Stages /\ UNCHANGED vars => Stages'
<1> SUFFICES ASSUME Stages, UNCHANGED vars PROVE Stages'
  OBVIOUS
<1>1. UNCHANGED <<kb, expanding, tryUndo, source, expandLen, tryExpand, settings, expandTag,
                  stream, posts, text, held, presses, ideal, astray, loaded, lost,
                  fault>>
  BY DEF vars, undoing, matched, user
<1>2. /\ StruckNow => StruckNow'
      /\ TakenNow => TakenNow'
      /\ AwayNow => AwayNow'
      /\ RestingNow => RestingNow'
  BY <1>1 DEF StruckNow, Struck, SourceFits, After, ErasedOn, TypedOn, Hits, TakenNow, Taken, Due,
              AwayNow, Away, AfterAway, RestingNow, Resting, Coming, Agreed, Undone, Quiet, Sure,
              Sound, DeleteCount, SourceNow, Armed, Deleted, Size, Replaced
<1>3. /\ MarkedNow => MarkedNow'
      /\ TypingNow => TypingNow'
  BY <1>1 DEF MarkedNow, Marked, MarkedMeant, TypingNow, Typing, TypingMeant, Coming, Agreed,
              Undone, Quiet, Sure, Replaced
<1> QED
  BY <1>2, <1>3 DEF Stages

(* Every step of the hook and of a patient user leads from stage to stage.     *)
LEMMA PatientStep ==
    Patient => (HookShape /\ FollowsText /\ PatientInv /\ [Next]_vars => PatientInv')
<1> SUFFICES ASSUME Patient, HookShape, FollowsText, PatientInv, [Next]_vars
             PROVE  PatientInv'
  OBVIOUS
<1>1. fault = "none" /\ loaded = DOMAIN Table /\ IdealFits /\ Stages
  BY DEF PatientInv, Stages
<1>2. Moves
  BY <1>1, StageFacts, PatientMoves
<1>3. IdealFits'
  BY <1>1, IdealFitsStep
<1>4. loaded' = loaded
  BY <1>2 DEF Moves, KeyDown, BackSpaceHeld, BackSpaceDown, KeyUp, KeyUpIgnored, KeyUpCrash,
              ToggleExpanding, Arrow, Reset, Post, Press, Release, Excursion, user, vars
<1>5. fault' = fault /\ Stages'
  <2>1. CASE Takes("down") /\ (KeyDown \/ BackSpaceHeld \/ BackSpaceDown)
    <3>1. StruckNow \/ TypingNow
      BY <1>1, <2>1, StageFacts DEF Stages
    <3>2. fault' = fault
      BY <2>1 DEF KeyDown, BackSpaceHeld, BackSpaceDown
    <3> QED
      BY <1>1, <2>1, <3>1, <3>2, StruckKeyDown, StruckBackSpaceHeld, StruckBackSpaceDown,
         TypingStep DEF Stages
  <2>2. CASE Takes("up") /\ (KeyUp \/ KeyUpIgnored \/ KeyUpCrash)
    <3>1. TakenNow
      BY <1>1, <2>2, StageFacts DEF Stages
    <3>2. KeyUp /\ fault' = fault
      BY <1>1, <2>2, <3>1, TakenIsSound DEF KeyUp
    <3> QED
      BY <2>2, <3>1, <3>2, TakenPlain, TakenExpand, TakenUndo DEF Stages
  <2>3. CASE Takes("toggle") /\ ToggleExpanding
    <3>1. MarkedNow \/ TypingNow
      BY <1>1, <2>3, StageFacts DEF Stages
    <3>2. fault' = fault
      BY <2>3 DEF ToggleExpanding
    <3> QED
      BY <2>3, <3>1, <3>2, MarkedStep, TypingStep DEF Stages
  <2>4. CASE \/ (Takes("left") \/ Takes("right")) /\ Arrow
             \/ Takes("reset") /\ Reset
    <3>1. fault' = fault
      BY <2>4 DEF Arrow, Reset
    <3>2. CASE AwayNow
      BY <2>4, <3>1, <3>2, AwayStep DEF Stages
    <3>3. CASE ~AwayNow
      <4>1. MarkedNow /\ (Takes("left") \/ Takes("right")) /\ Arrow
        BY <1>1, <2>4, <3>3, StageFacts DEF Stages
      <4> QED
        BY <3>1, <4>1, MarkedStep DEF Stages
    <3> QED
      BY <3>2, <3>3
  <2>5. CASE posts # <<>> /\ Post
    <3>1. MarkedNow \/ TypingNow
      BY <1>1, <2>5, StageFacts DEF Stages
    <3> QED
      BY <2>5, <3>1, PostStep DEF Stages, Post
  <2>6. CASE Coming = <<>> /\ held = {} /\ \E key \in Keys : Press(key)
    <3>1. RestingNow
      BY <1>1, <2>6, StageFacts DEF Stages
    <3> QED
      BY <1>1, <2>6, <3>1, RestingPress DEF Stages, Press
  <2>7. CASE \E key \in held : Release(key)
    <3>1. StruckNow \/ TakenNow
      BY <1>1, <2>7, StageFacts DEF Stages
    <3> QED
      BY <2>7, <3>1, ReleaseStep DEF Stages, Release
  <2>8. CASE Coming = <<>> /\ held = {} /\ \E kind \in Excursions : Excursion(kind)
    <3>1. RestingNow
      BY <1>1, <2>8, StageFacts DEF Stages
    <3> QED
      BY <2>8, <3>1, RestingExcursion DEF Stages, Excursion
  <2>9. CASE UNCHANGED vars
    BY <1>1, <2>9, StagesStutter DEF vars
  <2> QED
    BY <1>2, <2>1, <2>2, <2>3, <2>4, <2>5, <2>6, <2>7, <2>8, <2>9 DEF Moves
<1> QED
  BY <1>1, <1>3, <1>4, <1>5 DEF PatientInv, Stages

(* Nobody has pressed anything yet.                                            *)
LEMMA PatientInit == Init => PatientInv
<1> SUFFICES ASSUME Init PROVE PatientInv
  OBVIOUS
<1>1. /\ held = {} /\ expanding = FALSE /\ tryExpand = FALSE /\ tryUndo = FALSE
      /\ stream = <<>> /\ posts = <<>> /\ fault = "none" /\ loaded = DOMAIN Table
      /\ ideal = Plain(Line!Blank) /\ text = Line!Blank /\ source = None
  BY DEF Init
<1>2. <<>> \o <<>> = <<>>
  BY EmptySeq, ConcatEmptySeq
<1>3. RestingNow
  BY <1>1, <1>2 DEF RestingNow, Resting, Quiet, Coming, Agreed, Undone, Plain, Expected
<1>4. IdealFits
  <2>1. Line!Blank \in Lines
    BY EmptySeq DEF Line!Blank, Lines
  <2> QED
    BY <1>1, <2>1, PlainFits DEF IdealFits
<1> QED
  BY <1>1, <1>3, <1>4 DEF PatientInv

(* To a user who waits for texc a release never copies a match that is gone    *)
(* and never types a string that is NULL, whatever the table holds and         *)
(* whatever keys, arrows and clicks come (keyhook_handle_keyup).               *)
THEOREM PatientNeverCrashes == ASSUME Patient PROVE Spec => []NeverCrashes
<1>1. HookShape /\ FollowsText /\ PatientInv /\ [Next]_vars => PatientInv'
  BY PatientStep
<1>2. Init => FollowsText
  BY ClearedLine DEF Init, KbInit, FollowsText, Typed!Blank, Line!Blank
<1>3. PatientInv => NeverCrashes
  BY DEF PatientInv, NeverCrashes
<1> QED
  BY <1>1, <1>2, <1>3, InitShape, NextShape, FollowsStep, PatientInit, PTL DEF Spec

(* To the same user texc does what it is for: whenever keys and answers have   *)
(* come to rest the line is the one the user expects, each match replaced by   *)
(* its expansion and brought back by a backspace, for any characters and any   *)
(* table whose expansions of plain text are not empty and counted right, which *)
(* keyhook_expand_len has to be (keyhook_check_for_match,                      *)
(* keyhook_expand_matched, keyhook_handle_keyup, keyhook_handle_backspace).    *)
(* After a backspace that follows an expansion made inside the line nothing is *)
(* claimed until the next click: the undo is refused there.                    *)
THEOREM PatientGetsIntended == ASSUME Patient, PlainCounts PROVE Spec => []TextAsIntended
<1>1. HookShape /\ FollowsText /\ PatientInv /\ [Next]_vars => PatientInv'
  BY PatientStep
<1>2. Init => FollowsText
  BY ClearedLine DEF Init, KbInit, FollowsText, Typed!Blank, Line!Blank
<1>3. HookShape /\ PatientInv => TextAsIntended
  <2> SUFFICES ASSUME HookShape, PatientInv, Settled, held = {}, ~lost, ~astray
               PROVE  text = ideal.line
    BY DEF TextAsIntended
  <2>1. Coming = <<>> /\ Stages
    BY ComingMoves DEF Settled, PatientInv, Stages
  <2>2. RestingNow
    BY <2>1, StageFacts DEF Stages
  <2> QED
    BY <2>2 DEF RestingNow, Sure
<1> QED
  BY <1>1, <1>2, <1>3, InitShape, NextShape, FollowsStep, PatientInit, PTL DEF Spec
=============================================================================
