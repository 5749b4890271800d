---------------------------- MODULE EditorProofs ----------------------------
(***************************************************************************)
(* Proofs about ChordEditor, for sheets, texts and a history of any size:  *)
(* whatever is typed for a line, the chords on it follow their letters;    *)
(* every sheet shown or to come back is one; and the editor implements     *)
(* VersionStrip.                                                           *)
(***************************************************************************)
EXTENDS ChordEditor, FiniteSetTheorems, SequenceTheorems, WellFoundedInduction, TLAPS

-----------------------------------------------------------------------------
(***************************************************************************)
(* Numbers and sequences.                                                  *)
(***************************************************************************)
LEMMA Least == ASSUME NEW T \in SUBSET Nat, T # {} PROVE \E n \in T : \A m \in T : n <= m
<1>1. IsWellFoundedOn(OpToRel(<, Nat), Nat)
  BY NatLessThanWellFounded
<1>2. OpToRel(<, Nat) = {ss \in Nat \X Nat : ss[1] < ss[2]}
  BY DEF OpToRel
<1>3. PICK n \in T : \A m \in T : ~(<<m, n>> \in OpToRel(<, Nat))
  BY <1>1, WFMin
<1>4. \A m \in T : ~(m < n)
  BY <1>2, <1>3
<1> QED
  BY <1>4

\* A bounded set of numbers has a greatest one.
LEMMA Greatest ==
    ASSUME NEW n \in Nat, NEW T \in SUBSET (0..n), T # {}
    PROVE  \E x \in T : \A y \in T : y <= x
<1> DEFINE U == {m \in 0..n : n - m \in T}
<1>1. U \in SUBSET Nat
  OBVIOUS
<1>2. PICK t \in T : TRUE
  OBVIOUS
<1>3. n - t \in U
  <2>1. n - (n - t) = t /\ n - t \in 0..n
    BY <1>2
  <2> QED
    BY <1>2, <2>1
<1>4. PICK m \in U : \A k \in U : m <= k
  BY <1>1, <1>3, Least
<1>5. \A y \in T : n - y \in U
  <2> SUFFICES ASSUME NEW y \in T PROVE n - y \in U
    OBVIOUS
  <2>1. n - (n - y) = y /\ n - y \in 0..n
    OBVIOUS
  <2> QED
    BY <2>1
<1>6. n - m \in T /\ m \in 0..n
  BY <1>4
<1> QED
  BY <1>4, <1>5, <1>6

LEMMA ReverseProperties ==
    ASSUME NEW S, NEW s \in Seq(S)
    PROVE  /\ Reverse(s) \in Seq(S) /\ Len(Reverse(s)) = Len(s)
           /\ \A i \in 1..Len(s) : Reverse(s)[i] = s[Len(s) - i + 1]
<1>1. \A i \in 1..Len(s) : s[(Len(s) - i) + 1] \in S
  OBVIOUS
<1> QED
  BY <1>1 DEF Reverse

\* What is on top of a stack and what lies under it make up the stack.
LEMMA FrontAndLast ==
    ASSUME NEW S, NEW s \in Seq(S), s # <<>>
    PROVE  /\ Front(s) \in Seq(S) /\ Last(s) \in S
           /\ s = Append(Front(s), Last(s)) /\ Len(Front(s)) = Len(s) - 1
<1>1. PICK t \in Seq(S), e \in S : s = Append(t, e)
  BY SequenceEmptyOrAppend
<1>2. Len(s) = Len(t) + 1 /\ s[Len(s)] = e /\ Len(t) \in Nat
  BY <1>1, AppendProperties
<1>3. Last(s) = e
  BY <1>2 DEF Last
<1>4. Front(s) = SubSeq(s, 1, Len(t))
  BY <1>2 DEF Front
<1>5. SubSeq(s, 1, Len(t)) = t
  <2>1. s = t \o <<e>> /\ <<e>> \in Seq(S)
    BY <1>1, AppendIsConcat
  <2>2. CASE t = <<>>
    BY <1>2, <2>2, SubSeqEmpty
  <2>3. CASE t # <<>>
    <3>1. 1 \in 1..Len(t) /\ Len(t) \in 1..Len(t)
      BY <1>2, <2>3, EmptySeq
    <3>2. SubSeq(t \o <<e>>, 1, Len(t)) = SubSeq(t, 1, Len(t))
      BY <2>1, <3>1, SubSeqOfConcat1
    <3> QED
      BY <2>1, <3>2, SubSeqFull
  <2> QED
    BY <2>2, <2>3
<1> QED
  BY <1>1, <1>2, <1>3, <1>4, <1>5

-----------------------------------------------------------------------------
(***************************************************************************)
(* Marks. What a filter of a line's marks keeps is shown by taking the     *)
(* least number of marks at which it would fail; a mark put in its place,  *)
(* or one that is removed or changed, leaves them in order.                *)
(***************************************************************************)
AnyMark == [position: Nat, chord: ChordNames]

\* The marks of a line of n letters.
MarksOf(n) ==
    {marks \in Seq(AnyMark) :
        \A j, k \in DOMAIN marks :
            /\ marks[k].position \in 0..n
            /\ j < k => marks[j].position <= marks[k].position}

AnyText == Seq(Letters \cup {Break})

LEMMA LineParts ==
    ASSUME NEW line \in Lines
    PROVE  /\ line.lyrics \in AnyText /\ line.protected \in BOOLEAN
           /\ Len(line.lyrics) \in Nat
           /\ line.marks \in MarksOf(Len(line.lyrics))
  BY DEF Lines, MarksOf, AnyMark, AnyText, Positions

LEMMA PlainLine ==
    ASSUME NEW lyrics \in AnyText, NEW marks \in MarksOf(Len(lyrics))
    PROVE  Plain(lyrics, marks) \in Lines
  BY DEF Plain, Lines, MarksOf, AnyMark, AnyText, Positions

LEMMA OtherMarks ==
    ASSUME NEW line \in Lines, NEW marks \in MarksOf(Len(line.lyrics))
    PROVE  [line EXCEPT !.marks = marks] \in Lines
  BY DEF Lines, MarksOf, AnyMark, AnyText, Positions

\* The marks kept up to each mark, as MarksAt finds them.
KeptMark(marks, places, f, k) ==
    IF k = 0 THEN <<>>
    ELSE IF marks[k].position \in places THEN Append(f[k - 1], marks[k])
    ELSE f[k - 1]

KeepsMarks(marks, places, f, n) == \A k \in 0..n : f[k] = KeptMark(marks, places, f, k)

KeepableTo(marks, places, n) ==
    \E f : f = [k \in 0..n |-> f[k]] /\ KeepsMarks(marks, places, f, n)

LEMMA KeptMarksExist ==
    ASSUME NEW marks, Len(marks) \in Nat, NEW places, NEW n \in 0..Len(marks)
    PROVE  KeepableTo(marks, places, n)
<1> DEFINE Bad == {m \in 0..Len(marks) : ~KeepableTo(marks, places, m)}
<1> SUFFICES ASSUME Bad # {} PROVE FALSE
  OBVIOUS
<1>1. PICK m \in Bad : \A q \in Bad : m <= q
  <2>1. Bad \in SUBSET Nat
    OBVIOUS
  <2> QED
    BY <2>1, Least
<1>2. CASE m = 0
  <2> DEFINE f == [k \in 0..0 |-> <<>>]
  <2>1. KeepsMarks(marks, places, f, 0)
    BY DEF KeptMark, KeepsMarks
  <2>2. f = [k \in 0..0 |-> f[k]]
    OBVIOUS
  <2> QED
    BY <1>1, <1>2, <2>1, <2>2 DEF KeepableTo
<1>3. CASE m # 0
  <2>1. m - 1 \in 0..Len(marks) /\ ~(m <= m - 1)
    BY <1>1, <1>3
  <2>2. KeepableTo(marks, places, m - 1)
    BY <1>1, <2>1
  <2>3. PICK f : KeepsMarks(marks, places, f, m - 1)
    BY <2>2 DEF KeepableTo
  <2> DEFINE g == [k \in 0..m |-> IF k = m THEN KeptMark(marks, places, f, m) ELSE f[k]]
  <2>4. \A k \in 0..m : g[k] = KeptMark(marks, places, g, k)
    <3> SUFFICES ASSUME NEW k \in 0..m PROVE g[k] = KeptMark(marks, places, g, k)
      OBVIOUS
    <3>1. CASE k = m
      <4>1. g[k - 1] = f[k - 1]
        BY <1>1, <1>3, <3>1
      <4> QED
        BY <3>1, <4>1 DEF KeptMark
    <3>2. CASE k # m
      <4>1. k \in 0..(m - 1) /\ (k # 0 => k - 1 \in 0..m /\ k - 1 # m)
        BY <1>1, <3>2
      <4>2. f[k] = KeptMark(marks, places, f, k)
        BY <2>3, <4>1 DEF KeepsMarks
      <4> QED
        BY <3>2, <4>1, <4>2 DEF KeptMark
    <3> QED
      BY <3>1, <3>2
  <2>5. g = [k \in 0..m |-> g[k]]
    OBVIOUS
  <2> HIDE DEF g
  <2> QED
    BY <1>1, <2>4, <2>5 DEF KeepableTo, KeepsMarks
<1> QED
  BY <1>2, <1>3

LEMMA MarksAtIsKept ==
    ASSUME NEW marks, Len(marks) \in Nat, NEW places
    PROVE  \E f : KeepsMarks(marks, places, f, Len(marks))
                  /\ MarksAt(marks, places) = f[Len(marks)]
<1> DEFINE Body(f) == [k \in 0..Len(marks) |->
                         IF k = 0 THEN <<>>
                         ELSE IF marks[k].position \in places THEN Append(f[k - 1], marks[k])
                         ELSE f[k - 1]]
           kept == CHOOSE f : f = Body(f)
<1>1. MarksAt(marks, places) = kept[Len(marks)]
  BY DEF MarksAt
<1>2. PICK f : f = [k \in 0..Len(marks) |-> f[k]] /\ KeepsMarks(marks, places, f, Len(marks))
  <2>1. Len(marks) \in 0..Len(marks)
    OBVIOUS
  <2> QED
    BY <2>1, KeptMarksExist DEF KeepableTo
<1>3. f = Body(f)
  BY <1>2 DEF KeptMark, KeepsMarks
<1>4. kept = Body(kept)
  BY <1>3
<1> HIDE DEF kept
<1>5. KeepsMarks(marks, places, kept, Len(marks))
  BY <1>4 DEF KeptMark, KeepsMarks
<1> QED
  BY <1>1, <1>5

\* The marks at some places are marks of the line, in their order, at these places.
LEMMA MarksAtKeeps ==
    ASSUME NEW n \in Nat, NEW marks \in MarksOf(n), NEW places
    PROVE  /\ MarksAt(marks, places) \in MarksOf(n)
           /\ \A k \in DOMAIN MarksAt(marks, places) :
                 MarksAt(marks, places)[k].position \in places
<1> DEFINE size == Len(marks)
<1>1. marks \in Seq(AnyMark) /\ size \in Nat
  BY DEF MarksOf
<1>2. PICK f : KeepsMarks(marks, places, f, size) /\ MarksAt(marks, places) = f[size]
  BY <1>1, MarksAtIsKept
<1> DEFINE Fine(m) == /\ f[m] \in MarksOf(n)
                      /\ \A k \in 1..Len(f[m]) : f[m][k].position \in places
                      /\ \A k \in 1..Len(f[m]), j \in 1..size :
                            m < j => f[m][k].position <= marks[j].position
           Bad == {m \in 0..size : ~Fine(m)}
<1>3. Bad = {}
  <2> SUFFICES ASSUME Bad # {} PROVE FALSE
    OBVIOUS
  <2> HIDE DEF Fine
  <2>1. PICK m \in Bad : \A q \in Bad : m <= q
    <3>1. Bad \in SUBSET Nat
      OBVIOUS
    <3> QED
      BY <3>1, Least
  <2>2. f[m] = KeptMark(marks, places, f, m)
    BY <1>2, <2>1 DEF KeepsMarks
  <2>3. m # 0
    <3> SUFFICES ASSUME m = 0 PROVE Fine(m)
      BY <2>1
    <3>1. f[m] = <<>>
      BY <2>2 DEF KeptMark
    <3>2. <<>> \in MarksOf(n)
      BY DEF MarksOf
    <3> QED
      BY <3>1, <3>2 DEF Fine
  <2>4. m - 1 \in 0..size /\ ~(m <= m - 1) /\ m \in 1..size
    BY <1>1, <2>1, <2>3
  <2>5. Fine(m - 1)
    BY <2>1, <2>4
  <2>6. marks[m] \in AnyMark /\ marks[m].position \in 0..n
        /\ \A j \in 1..size : m < j => marks[m].position <= marks[j].position
    BY <1>1, <2>4 DEF MarksOf
  <2>7. \A j \in 1..size : m < j => m - 1 < j
    BY <2>4
  <2>8. CASE marks[m].position \notin places
    <3>1. f[m] = f[m - 1]
      BY <2>2, <2>3, <2>8 DEF KeptMark
    <3> QED
      BY <2>1, <2>5, <2>7, <3>1 DEF Fine
  <2>9. CASE marks[m].position \in places
    <3> DEFINE old == f[m - 1]
               new == Append(old, marks[m])
    <3>1. f[m] = new
      BY <2>2, <2>3, <2>9 DEF KeptMark
    <3>2. /\ old \in MarksOf(n) /\ old \in Seq(AnyMark) /\ Len(old) \in Nat
          /\ \A k \in 1..Len(old) : old[k].position \in places
          /\ \A k \in 1..Len(old), j \in 1..size :
                m - 1 < j => old[k].position <= marks[j].position
      BY <2>5 DEF Fine, MarksOf
    <3> HIDE DEF old
    <3>3. /\ new \in Seq(AnyMark) /\ Len(new) = Len(old) + 1
          /\ new[Len(old) + 1] = marks[m]
          /\ \A k \in 1..Len(old) : new[k] = old[k]
      BY <2>6, <3>2, AppendProperties
    <3> HIDE DEF new
    <3>4. DOMAIN new = 1..(Len(old) + 1) /\ 1..Len(new) = 1..(Len(old) + 1)
      BY <3>3
    <3>5. \A k \in 1..(Len(old) + 1) : k \in 1..Len(old) \/ k = Len(old) + 1
      BY <3>2
    <3>6. \A k \in 1..Len(old) : /\ old[k].position \in 0..n
                                 /\ old[k].position <= marks[m].position
      BY <2>4, <3>2 DEF MarksOf
    <3>7. ASSUME NEW j \in 1..(Len(old) + 1), NEW k \in 1..(Len(old) + 1)
          PROVE  /\ new[k].position \in 0..n
                 /\ j < k => new[j].position <= new[k].position
      <4>1. new[k].position \in 0..n
        BY <2>6, <3>3, <3>5, <3>6
      <4>2. CASE k = Len(old) + 1
        BY <3>2, <3>3, <3>5, <3>6, <4>1, <4>2
      <4>3. CASE k # Len(old) + 1
        <5>1. k \in 1..Len(old) /\ (j < k => j \in 1..Len(old))
          BY <3>2, <3>5, <4>3
        <5>2. j < k => old[j].position <= old[k].position
          BY <3>2, <5>1 DEF MarksOf
        <5> QED
          BY <3>3, <4>1, <5>1, <5>2
      <4> QED
        BY <4>2, <4>3
    <3>8. new \in MarksOf(n)
      BY <3>3, <3>4, <3>7 DEF MarksOf
    <3>9. \A k \in 1..Len(new) : new[k].position \in places
      BY <2>9, <3>2, <3>3, <3>4, <3>5
    <3>10. \A k \in 1..Len(new), j \in 1..size : m < j => new[k].position <= marks[j].position
      BY <2>6, <2>7, <3>2, <3>3, <3>4, <3>5
    <3> QED
      BY <2>1, <3>1, <3>8, <3>9, <3>10 DEF Fine
  <2> QED
    BY <2>8, <2>9
<1>4. size \in 0..size
  BY <1>1
<1>5. Fine(size)
  BY <1>3, <1>4
<1>6. f[size] \in Seq(AnyMark) /\ DOMAIN f[size] = 1..Len(f[size])
  BY <1>5 DEF MarksOf
<1> QED
  BY <1>2, <1>5, <1>6

-----------------------------------------------------------------------------
LEMMA InsertAtProperties ==
    ASSUME NEW S, NEW s \in Seq(S), NEW e \in S, NEW i \in 1..(Len(s) + 1)
    PROVE  /\ InsertAt(s, i, e) \in Seq(S) /\ Len(InsertAt(s, i, e)) = Len(s) + 1
           /\ \A k \in 1..(Len(s) + 1) :
                 InsertAt(s, i, e)[k] = IF k < i THEN s[k] ELSE IF k = i THEN e ELSE s[k - 1]
<1> DEFINE front == SubSeq(s, 1, i - 1)
           rest == SubSeq(s, i, Len(s))
           middle == front \o <<e>>
<1>1. Len(s) \in Nat
  OBVIOUS
<1>2. /\ front \in Seq(S) /\ Len(front) = i - 1
      /\ \A k \in 1..(i - 1) : front[k] = s[k]
  BY <1>1
<1>3. /\ rest \in Seq(S) /\ Len(rest) = Len(s) + 1 - i
      /\ \A k \in 1..(Len(s) + 1 - i) : rest[k] = s[i + k - 1]
  BY <1>1
<1>4. <<e>> \in Seq(S) /\ Len(<<e>>) = 1 /\ <<e>>[1] = e
  OBVIOUS
<1> HIDE DEF front, rest
<1>5. /\ middle \in Seq(S) /\ Len(middle) = i
      /\ \A k \in 1..i : middle[k] = IF k < i THEN s[k] ELSE e
  <2>1. /\ middle \in Seq(S) /\ Len(middle) = (i - 1) + 1
        /\ \A k \in 1..((i - 1) + 1) :
              middle[k] = IF k <= i - 1 THEN front[k] ELSE <<e>>[k - (i - 1)]
    BY <1>2, <1>4, ConcatProperties
  <2> QED
    BY <1>1, <1>2, <1>4, <2>1
<1> HIDE DEF middle
<1>6. /\ middle \o rest \in Seq(S) /\ Len(middle \o rest) = i + (Len(s) + 1 - i)
      /\ \A k \in 1..(i + (Len(s) + 1 - i)) :
            (middle \o rest)[k] = IF k <= i THEN middle[k] ELSE rest[k - i]
  BY <1>3, <1>5, ConcatProperties
<1>7. InsertAt(s, i, e) = middle \o rest
  BY DEF InsertAt, middle, front, rest
<1>8. i + (Len(s) + 1 - i) = Len(s) + 1
  BY <1>1
<1>9. ASSUME NEW k \in 1..(Len(s) + 1)
      PROVE  (middle \o rest)[k] = IF k < i THEN s[k] ELSE IF k = i THEN e ELSE s[k - 1]
  <2>1. (middle \o rest)[k] = IF k <= i THEN middle[k] ELSE rest[k - i]
    BY <1>6, <1>8
  <2>2. CASE k <= i
    BY <1>1, <1>5, <2>1, <2>2
  <2>3. CASE ~(k <= i)
    <3>1. k - i \in 1..(Len(s) + 1 - i) /\ i + (k - i) - 1 = k - 1
      BY <1>1, <2>3
    <3> QED
      BY <1>3, <2>1, <2>3, <3>1
  <2> QED
    BY <2>2, <2>3
<1> QED
  BY <1>6, <1>7, <1>8, <1>9

LEMMA RemoveAtProperties ==
    ASSUME NEW S, NEW s \in Seq(S), NEW i \in 1..Len(s)
    PROVE  /\ RemoveAt(s, i) \in Seq(S) /\ Len(RemoveAt(s, i)) = Len(s) - 1
           /\ \A k \in 1..(Len(s) - 1) :
                 RemoveAt(s, i)[k] = IF k < i THEN s[k] ELSE s[k + 1]
<1> DEFINE front == SubSeq(s, 1, i - 1)
           rest == SubSeq(s, i + 1, Len(s))
<1>1. Len(s) \in Nat
  OBVIOUS
<1>2. /\ front \in Seq(S) /\ Len(front) = i - 1
      /\ \A k \in 1..(i - 1) : front[k] = s[k]
  BY <1>1
<1>3. /\ rest \in Seq(S) /\ Len(rest) = Len(s) - i
      /\ \A k \in 1..(Len(s) - i) : rest[k] = s[(i + 1) + k - 1]
  BY <1>1
<1> HIDE DEF front, rest
<1>4. /\ front \o rest \in Seq(S) /\ Len(front \o rest) = (i - 1) + (Len(s) - i)
      /\ \A k \in 1..((i - 1) + (Len(s) - i)) :
            (front \o rest)[k] = IF k <= i - 1 THEN front[k] ELSE rest[k - (i - 1)]
  <2>1. /\ front \o rest \in Seq(S) /\ Len(front \o rest) = Len(front) + Len(rest)
        /\ \A k \in 1..(Len(front) + Len(rest)) :
              (front \o rest)[k] = IF k <= Len(front) THEN front[k] ELSE rest[k - Len(front)]
    <3>1. front \in Seq(S) /\ rest \in Seq(S)
      BY <1>2, <1>3
    <3> QED
      BY <3>1, ConcatProperties
  <2>2. Len(front) = i - 1 /\ Len(rest) = Len(s) - i
    BY <1>2, <1>3
  <2> QED
    BY <2>1, <2>2
<1>5. RemoveAt(s, i) = front \o rest
  BY DEF RemoveAt, front, rest
<1>6. (i - 1) + (Len(s) - i) = Len(s) - 1
  BY <1>1
<1>7. ASSUME NEW k \in 1..(Len(s) - 1)
      PROVE  (front \o rest)[k] = IF k < i THEN s[k] ELSE s[k + 1]
  <2>1. (front \o rest)[k] = IF k <= i - 1 THEN front[k] ELSE rest[k - (i - 1)]
    BY <1>4, <1>6
  <2>2. CASE k < i
    <3>1. k <= i - 1 /\ k \in 1..(i - 1)
      BY <2>2
    <3> QED
      BY <1>2, <2>1, <2>2, <3>1
  <2>3. CASE ~(k < i)
    <3>1. k - (i - 1) \in 1..(Len(s) - i) /\ (i + 1) + (k - (i - 1)) - 1 = k + 1 /\ ~(k <= i - 1)
      BY <1>1, <2>3
    <3> QED
      BY <1>3, <2>1, <2>3, <3>1
  <2> QED
    BY <2>2, <2>3
<1> QED
  BY <1>4, <1>5, <1>6, <1>7

\* The marks no later than a place are the first ones of a line.
LEMMA FirstMarks ==
    ASSUME NEW n \in Nat, NEW marks \in MarksOf(n), NEW position \in 0..n
    PROVE  \E c \in 0..Len(marks) :
              /\ Cardinality({k \in DOMAIN marks : marks[k].position <= position}) = c
              /\ \A k \in 1..Len(marks) : marks[k].position <= position <=> k <= c
<1> DEFINE First == {k \in DOMAIN marks : marks[k].position <= position}
<1>1. /\ Len(marks) \in Nat /\ DOMAIN marks = 1..Len(marks)
      /\ \A j, k \in 1..Len(marks) : /\ marks[k].position \in Nat
                                     /\ j < k => marks[j].position <= marks[k].position
  BY DEF MarksOf
<1>2. PICK c \in 0..Len(marks) : First = 1..c
  <2>1. CASE First = {}
    <3>1. First = 1..0 /\ 0 \in 0..Len(marks)
      BY <1>1, <2>1
    <3> QED
      BY <3>1
  <2>2. CASE First # {}
    <3>1. First \in SUBSET (0..Len(marks))
      BY <1>1
    <3>2. PICK c \in First : \A k \in First : k <= c
      BY <1>1, <2>2, <3>1, Greatest
    <3>3. \A k \in 1..c : k \in First
      <4> SUFFICES ASSUME NEW k \in 1..c PROVE k \in First
        OBVIOUS
      <4>1. c \in 1..Len(marks) /\ marks[c].position <= position /\ k \in 1..Len(marks)
        BY <1>1, <3>2
      <4>2. k = c \/ k < c
        BY <4>1
      <4>3. marks[k].position <= marks[c].position
        BY <1>1, <4>1, <4>2
      <4>4. marks[k].position \in Nat /\ marks[c].position \in Nat
        BY <1>1, <4>1
      <4> QED
        BY <1>1, <4>1, <4>3, <4>4
    <3>4. c \in 0..Len(marks) /\ \A k \in First : k \in 1..c
      BY <1>1, <3>2
    <3> QED
      BY <3>3, <3>4
  <2> QED
    BY <2>1, <2>2
<1>3. Cardinality(1..c) = c
  BY <1>1, FS_Interval
<1>4. \A k \in 1..Len(marks) : marks[k].position <= position <=> k <= c
  BY <1>1, <1>2
<1> QED
  BY <1>2, <1>3, <1>4

LEMMA InsertKeepsMarks ==
    ASSUME NEW n \in Nat, NEW marks \in MarksOf(n), NEW position \in 0..n,
           NEW chord \in ChordNames
    PROVE  InsertAt(marks,
                    Cardinality({k \in DOMAIN marks : marks[k].position <= position}) + 1,
                    Mark(position, chord)) \in MarksOf(n)
<1>1. PICK c \in 0..Len(marks) :
          /\ Cardinality({k \in DOMAIN marks : marks[k].position <= position}) = c
          /\ \A k \in 1..Len(marks) : marks[k].position <= position <=> k <= c
  BY FirstMarks
<1> DEFINE m == Mark(position, chord)
           new == InsertAt(marks, c + 1, m)
<1>2. m \in AnyMark /\ m.position = position
  BY DEF Mark, AnyMark
<1>3. /\ Len(marks) \in Nat /\ DOMAIN marks = 1..Len(marks) /\ marks \in Seq(AnyMark)
      /\ \A j, k \in 1..Len(marks) : /\ marks[k].position \in 0..n
                                     /\ j < k => marks[j].position <= marks[k].position
  BY DEF MarksOf
<1>4. c + 1 \in 1..(Len(marks) + 1)
  BY <1>3
<1>5. /\ new \in Seq(AnyMark) /\ Len(new) = Len(marks) + 1
      /\ \A k \in 1..(Len(marks) + 1) :
            new[k] = IF k < c + 1 THEN marks[k] ELSE IF k = c + 1 THEN m ELSE marks[k - 1]
  <2>1. m \in AnyMark /\ marks \in Seq(AnyMark)
    BY <1>2, <1>3
  <2> HIDE DEF m
  <2>2. ASSUME NEW i \in 1..(Len(marks) + 1)
        PROVE  /\ InsertAt(marks, i, m) \in Seq(AnyMark)
               /\ Len(InsertAt(marks, i, m)) = Len(marks) + 1
               /\ \A k \in 1..(Len(marks) + 1) :
                     InsertAt(marks, i, m)[k] =
                        IF k < i THEN marks[k] ELSE IF k = i THEN m ELSE marks[k - 1]
    BY <2>1, InsertAtProperties, SMTT(60)
  <2> QED
    BY <1>4, <2>2
<1> HIDE DEF new, m
<1>6. DOMAIN new = 1..(Len(marks) + 1)
  BY <1>5
<1> DEFINE Pos(k) == new[k].position
<1>7. ASSUME NEW k \in 1..(Len(marks) + 1)
      PROVE  /\ Pos(k) \in 0..n
             /\ k <= c => Pos(k) = marks[k].position /\ k \in 1..Len(marks)
                          /\ Pos(k) <= position
             /\ k = c + 1 => Pos(k) = position
             /\ k > c + 1 => Pos(k) = marks[k - 1].position /\ k - 1 \in 1..Len(marks)
                             /\ ~(Pos(k) <= position)
  <2>1. CASE k <= c
    BY <1>1, <1>3, <1>5, <2>1
  <2>2. CASE k = c + 1
    BY <1>2, <1>3, <1>5, <2>2
  <2>3. CASE k > c + 1
    <3>1. k - 1 \in 1..Len(marks) /\ ~(k - 1 <= c) /\ ~(k < c + 1) /\ k # c + 1
      BY <1>3, <2>3
    <3>2. new[k] = marks[k - 1]
      BY <1>5, <3>1
    <3> QED
      BY <1>1, <1>3, <2>3, <3>1, <3>2
  <2> QED
    BY <1>3, <2>1, <2>2, <2>3
<1>8. ASSUME NEW j \in 1..(Len(marks) + 1), NEW k \in 1..(Len(marks) + 1), j < k
      PROVE  Pos(j) <= Pos(k)
  <2>1. Pos(j) \in 0..n /\ Pos(k) \in 0..n
    BY <1>7
  <2> HIDE DEF Pos
  <2>2. CASE k <= c
    <3>1. j <= c
      BY <1>8, <2>2
    <3> QED
      BY <1>3, <1>7, <1>8, <2>2, <3>1
  <2>3. CASE k = c + 1
    <3>1. j <= c
      BY <1>8, <2>3
    <3> QED
      BY <1>7, <2>3, <3>1
  <2>4. CASE k > c + 1
    <3>1. CASE j <= c + 1
      <4>1. Pos(j) <= position /\ ~(Pos(k) <= position)
        BY <1>7, <2>4, <3>1
      <4> QED
        BY <2>1, <4>1
    <3>2. CASE ~(j <= c + 1)
      <4>1. j > c + 1 /\ j - 1 < k - 1
        BY <1>8, <3>2
      <4>2. /\ Pos(j) = marks[j - 1].position /\ j - 1 \in 1..Len(marks)
            /\ Pos(k) = marks[k - 1].position /\ k - 1 \in 1..Len(marks)
        BY <1>7, <2>4, <4>1
      <4> QED
        BY <1>3, <4>1, <4>2
    <3> QED
      BY <3>1, <3>2
  <2> QED
    BY <1>3, <2>2, <2>3, <2>4
<1>9. new \in MarksOf(n)
  BY <1>5, <1>6, <1>7, <1>8 DEF MarksOf
<1> QED
  BY <1>1, <1>9 DEF new, m

LEMMA RemoveKeepsMarks ==
    ASSUME NEW n \in Nat, NEW marks \in MarksOf(n), NEW i \in DOMAIN marks
    PROVE  RemoveAt(marks, i) \in MarksOf(n)
<1> DEFINE new == RemoveAt(marks, i)
<1>1. /\ Len(marks) \in Nat /\ DOMAIN marks = 1..Len(marks) /\ marks \in Seq(AnyMark)
      /\ \A j, k \in 1..Len(marks) : /\ marks[k].position \in 0..n
                                     /\ j < k => marks[j].position <= marks[k].position
  BY DEF MarksOf
<1>2. /\ new \in Seq(AnyMark) /\ Len(new) = Len(marks) - 1
      /\ \A k \in 1..(Len(marks) - 1) : new[k] = IF k < i THEN marks[k] ELSE marks[k + 1]
  BY <1>1, RemoveAtProperties
<1> HIDE DEF new
<1> DEFINE From(k) == IF k < i THEN k ELSE k + 1
<1>3. DOMAIN new = 1..(Len(marks) - 1)
  BY <1>2
<1>4. \A k \in 1..(Len(marks) - 1) : new[k] = marks[From(k)] /\ From(k) \in 1..Len(marks)
  BY <1>1, <1>2
<1>5. \A j, k \in 1..(Len(marks) - 1) : j < k => From(j) < From(k)
  BY <1>1
<1> HIDE DEF From
<1>6. ASSUME NEW j \in 1..(Len(marks) - 1), NEW k \in 1..(Len(marks) - 1)
      PROVE  /\ new[k].position \in 0..n
             /\ j < k => new[j].position <= new[k].position
  <2>1. /\ new[j] = marks[From(j)] /\ From(j) \in 1..Len(marks)
        /\ new[k] = marks[From(k)] /\ From(k) \in 1..Len(marks)
    BY <1>4
  <2>2. j < k => From(j) < From(k)
    BY <1>5
  <2> QED
    BY <1>1, <2>1, <2>2
<1>7. new \in MarksOf(n)
  BY <1>2, <1>3, <1>6 DEF MarksOf
<1> QED
  BY <1>7 DEF new

LEMMA ChangeKeepsMarks ==
    ASSUME NEW n \in Nat, NEW marks \in MarksOf(n), NEW i \in DOMAIN marks,
           NEW chord \in ChordNames
    PROVE  [marks EXCEPT ![i].chord = chord] \in MarksOf(n)
<1> DEFINE m == [marks[i] EXCEPT !.chord = chord]
           new == [marks EXCEPT ![i] = m]
<1>1. /\ Len(marks) \in Nat /\ DOMAIN marks = 1..Len(marks) /\ marks \in Seq(AnyMark)
      /\ \A j, k \in 1..Len(marks) : /\ marks[k].position \in 0..n
                                     /\ j < k => marks[j].position <= marks[k].position
  BY DEF MarksOf
<1>2. m \in AnyMark /\ m.position = marks[i].position
  <2>1. marks[i] \in AnyMark
    BY <1>1
  <2> QED
    BY <2>1 DEF AnyMark
<1> HIDE DEF m
<1>3. /\ new \in Seq(AnyMark) /\ DOMAIN new = 1..Len(marks)
      /\ \A k \in 1..Len(marks) : new[k].position = marks[k].position
  <2>1. new \in Seq(AnyMark) /\ DOMAIN new = DOMAIN marks
    BY <1>1, <1>2
  <2>2. \A k \in 1..Len(marks) : new[k] = IF k = i THEN m ELSE marks[k]
    BY <1>1
  <2> QED
    BY <1>1, <1>2, <2>1, <2>2
<1>4. new \in MarksOf(n)
  BY <1>1, <1>3 DEF MarksOf
<1> QED
  BY <1>4 DEF m

-----------------------------------------------------------------------------
(***************************************************************************)
(* What is typed over a line. The common beginning of two texts is the     *)
(* longest there is, and so is what they end with beyond it; so what lies  *)
(* between has been replaced, and is the least that can have been. A       *)
(* longer end would have to overlap the beginning.                         *)
(***************************************************************************)
\* Two texts begin, and end, with the same m letters.
BeginAlike(s, t, m) ==
    /\ m \in Nat /\ m <= Len(s) /\ m <= Len(t)
    /\ \A k \in 1..m : s[k] = t[k]

EndAlike(s, t, m) ==
    /\ m \in Nat /\ m <= Len(s) /\ m <= Len(t)
    /\ \A k \in 1..m : s[Len(s) - m + k] = t[Len(t) - m + k]

LEMMA SubSeqAlike ==
    ASSUME NEW S, NEW s \in Seq(S), NEW t \in Seq(S), NEW m \in Nat,
           m <= Len(s), m <= Len(t)
    PROVE  SubSeq(s, 1, m) = SubSeq(t, 1, m) <=> BeginAlike(s, t, m)
<1> DEFINE p == SubSeq(s, 1, m)
           q == SubSeq(t, 1, m)
<1>1. p \in Seq(S) /\ Len(p) = m /\ \A k \in 1..m : p[k] = s[k]
  OBVIOUS
<1>2. q \in Seq(S) /\ Len(q) = m /\ \A k \in 1..m : q[k] = t[k]
  OBVIOUS
<1> HIDE DEF p, q
<1>3. p = q <=> \A k \in 1..m : p[k] = q[k]
  <2>1. ASSUME \A k \in 1..m : p[k] = q[k] PROVE p = q
    BY <1>1, <1>2, <2>1, SeqEqual
  <2> QED
    BY <2>1
<1>4. p = q <=> \A k \in 1..m : s[k] = t[k]
  BY <1>1, <1>2, <1>3
<1> QED
  BY <1>4 DEF BeginAlike, p, q

LEMMA CommonPrefix ==
    ASSUME NEW S, NEW s \in Seq(S), NEW t \in Seq(S)
    PROVE  /\ \A p \in CommonPrefixes({s, t}) : BeginAlike(s, t, Len(p))
           /\ \A m \in Nat : BeginAlike(s, t, m) =>
                 /\ SubSeq(s, 1, m) \in CommonPrefixes({s, t})
                 /\ Len(SubSeq(s, 1, m)) = m
<1> DEFINE All == UNION {Prefixes(seq) : seq \in {s, t}}
<1>1. CommonPrefixes({s, t}) = {p \in All : \A u \in {s, t} : IsPrefix(p, u)}
  BY DEF CommonPrefixes
<1>2. ASSUME NEW p \in CommonPrefixes({s, t}) PROVE BeginAlike(s, t, Len(p))
  <2>1. p \in All /\ IsPrefix(p, s) /\ IsPrefix(p, t)
    BY <1>1
  <2>2. PICK u \in {s, t} : p \in Prefixes(u)
    BY <2>1
  <2>3. Len(p) \in Nat
    <3>1. u \in Seq(S) /\ \E l \in 0..Len(u) : p = SubSeq(u, 1, l)
      BY <2>2 DEF Prefixes
    <3> QED
      BY <3>1
  <2>4. /\ Len(p) <= Len(s) /\ Len(p) <= Len(t)
        /\ SubSeq(s, 1, Len(p)) = SubSeq(t, 1, Len(p))
    BY <2>1 DEF IsPrefix
  <2> QED
    BY <2>3, <2>4, SubSeqAlike
<1>3. ASSUME NEW m \in Nat, BeginAlike(s, t, m)
      PROVE  /\ SubSeq(s, 1, m) \in CommonPrefixes({s, t})
             /\ Len(SubSeq(s, 1, m)) = m
  <2> DEFINE p == SubSeq(s, 1, m)
  <2>1. m <= Len(s) /\ m <= Len(t) /\ p = SubSeq(t, 1, m)
    BY <1>3, SubSeqAlike DEF BeginAlike
  <2>2. p \in Seq(S) /\ Len(p) = m
    BY <2>1
  <2>3. SubSeq(p, 1, Len(p)) = p
    BY <2>2, SubSeqFull
  <2>4. IsPrefix(p, s) /\ IsPrefix(p, t)
    BY <2>1, <2>2, <2>3 DEF IsPrefix
  <2>5. p \in Prefixes(s)
    <3>1. m \in 0..Len(s)
      BY <2>1
    <3> QED
      BY <3>1 DEF Prefixes
  <2>6. p \in All
    BY <2>5
  <2> QED
    BY <1>1, <2>2, <2>4, <2>6
<1> QED
  BY <1>2, <1>3

\* What two texts are found to begin with in common is the most they do.
LEMMA SharedIsMost ==
    ASSUME NEW S, NEW s \in Seq(S), NEW t \in Seq(S)
    PROVE  /\ BeginAlike(s, t, Shared(s, t))
           /\ \A m \in Nat : BeginAlike(s, t, m) => m <= Shared(s, t)
<1> DEFINE C == CommonPrefixes({s, t})
           T == {m \in 0..Len(s) : BeginAlike(s, t, m)}
           IsLongest(p) == \A other \in C : Len(other) <= Len(p)
<1>1. 0 \in T
  BY DEF BeginAlike
<1>2. PICK x \in T : \A m \in T : m <= x
  <2>1. Len(s) \in Nat /\ T \in SUBSET (0..Len(s))
    OBVIOUS
  <2> QED
    BY <1>1, <2>1, Greatest
<1>3. \A m \in Nat : BeginAlike(s, t, m) => m <= x
  BY <1>2 DEF BeginAlike
<1>4. SubSeq(s, 1, x) \in C /\ Len(SubSeq(s, 1, x)) = x
  BY <1>2, CommonPrefix
<1>5. IsLongest(SubSeq(s, 1, x))
  BY <1>3, <1>4, CommonPrefix DEF BeginAlike
<1> HIDE DEF C
<1>6. LongestCommonPrefix({s, t}) = CHOOSE p \in C : IsLongest(p)
  BY DEF LongestCommonPrefix, C
<1>7. LongestCommonPrefix({s, t}) \in C /\ IsLongest(LongestCommonPrefix({s, t}))
  BY <1>4, <1>5, <1>6
<1>8. Shared(s, t) = Len(LongestCommonPrefix({s, t}))
  BY DEF Shared, Prefix
<1>9. BeginAlike(s, t, Shared(s, t))
  BY <1>7, <1>8, CommonPrefix DEF C
<1>10. x <= Shared(s, t)
  BY <1>4, <1>7, <1>8
<1>11. \A m \in Nat : BeginAlike(s, t, m) => m <= Shared(s, t)
  BY <1>2, <1>3, <1>9, <1>10 DEF BeginAlike
<1> QED
  BY <1>9, <1>11

\* Reading backwards, what lies behind the first d letters.
LEMMA BackFrom ==
    ASSUME NEW S, NEW s \in Seq(S), NEW d \in 0..Len(s)
    PROVE  LET r == Reverse(SubSeq(s, d + 1, Len(s)))
           IN  /\ r \in Seq(S) /\ Len(r) = Len(s) - d
               /\ \A k \in 1..(Len(s) - d) : r[k] = s[Len(s) - k + 1]
<1> DEFINE u == SubSeq(s, d + 1, Len(s))
           r == Reverse(u)
<1>1. /\ u \in Seq(S) /\ Len(u) = Len(s) - d
      /\ \A k \in 1..(Len(s) - d) : u[k] = s[d + k]
  OBVIOUS
<1> HIDE DEF u
<1>2. /\ r \in Seq(S) /\ Len(r) = Len(u)
      /\ \A k \in 1..Len(u) : r[k] = u[Len(u) - k + 1]
  BY <1>1, ReverseProperties
<1> HIDE DEF r
<1>3. ASSUME NEW k \in 1..(Len(s) - d) PROVE r[k] = s[Len(s) - k + 1]
  <2>1. r[k] = u[(Len(s) - d) - k + 1]
    BY <1>1, <1>2
  <2>2. (Len(s) - d) - k + 1 \in 1..(Len(s) - d) /\ d + ((Len(s) - d) - k + 1) = Len(s) - k + 1
    OBVIOUS
  <2> QED
    BY <1>1, <2>1, <2>2
<1> QED
  BY <1>1, <1>2, <1>3 DEF r, u

LEMMA SharedEndIsMost ==
    ASSUME NEW S, NEW s \in Seq(S), NEW t \in Seq(S)
    PROVE  /\ EndAlike(s, t, SharedEnd(s, t))
           /\ SharedEnd(s, t) <= Len(s) - Shared(s, t)
           /\ SharedEnd(s, t) <= Len(t) - Shared(s, t)
           /\ \A m \in Nat : /\ EndAlike(s, t, m)
                             /\ m <= Len(s) - Shared(s, t) /\ m <= Len(t) - Shared(s, t)
                             => m <= SharedEnd(s, t)
<1> DEFINE d == Shared(s, t)
           p == Reverse(SubSeq(s, d + 1, Len(s)))
           q == Reverse(SubSeq(t, d + 1, Len(t)))
           y == SharedEnd(s, t)
<1>1. d \in Nat /\ d <= Len(s) /\ d <= Len(t) /\ Len(s) \in Nat /\ Len(t) \in Nat
  BY SharedIsMost DEF BeginAlike
<1>2. y = Shared(p, q)
  BY DEF SharedEnd
<1> HIDE DEF d, y
<1>3. d \in 0..Len(s) /\ d \in 0..Len(t)
  BY <1>1
<1>4. /\ p \in Seq(S) /\ Len(p) = Len(s) - d
      /\ \A k \in 1..(Len(s) - d) : p[k] = s[Len(s) - k + 1]
  BY <1>3, BackFrom
<1>5. /\ q \in Seq(S) /\ Len(q) = Len(t) - d
      /\ \A k \in 1..(Len(t) - d) : q[k] = t[Len(t) - k + 1]
  BY <1>3, BackFrom
<1> HIDE DEF p, q
<1>6. ASSUME NEW m \in Nat, m <= Len(s) - d, m <= Len(t) - d
      PROVE  BeginAlike(p, q, m) <=> EndAlike(s, t, m)
  <2>1. \A k \in 1..m : /\ p[k] = s[Len(s) - k + 1] /\ q[k] = t[Len(t) - k + 1]
    BY <1>1, <1>4, <1>5, <1>6
  <2>2. ASSUME BeginAlike(p, q, m) PROVE EndAlike(s, t, m)
    <3> SUFFICES ASSUME NEW k \in 1..m PROVE s[Len(s) - m + k] = t[Len(t) - m + k]
      BY <1>1, <1>6 DEF EndAlike
    <3>1. m - k + 1 \in 1..m /\ Len(s) - (m - k + 1) + 1 = Len(s) - m + k
          /\ Len(t) - (m - k + 1) + 1 = Len(t) - m + k
      BY <1>1
    <3>2. p[m - k + 1] = q[m - k + 1]
      BY <2>2, <3>1 DEF BeginAlike
    <3> QED
      BY <2>1, <3>1, <3>2
  <2>3. ASSUME EndAlike(s, t, m) PROVE BeginAlike(p, q, m)
    <3> SUFFICES ASSUME NEW k \in 1..m PROVE p[k] = q[k]
      BY <1>4, <1>5, <1>6 DEF BeginAlike
    <3>1. m - k + 1 \in 1..m /\ Len(s) - m + (m - k + 1) = Len(s) - k + 1
          /\ Len(t) - m + (m - k + 1) = Len(t) - k + 1
      BY <1>1
    <3>2. s[Len(s) - m + (m - k + 1)] = t[Len(t) - m + (m - k + 1)]
      BY <2>3, <3>1 DEF EndAlike
    <3> QED
      BY <2>1, <3>1, <3>2
  <2> QED
    BY <2>2, <2>3
<1>7. /\ BeginAlike(p, q, y)
      /\ \A m \in Nat : BeginAlike(p, q, m) => m <= y
  BY <1>2, <1>4, <1>5, SharedIsMost
<1>8. y \in Nat /\ y <= Len(s) - d /\ y <= Len(t) - d
  BY <1>4, <1>5, <1>7 DEF BeginAlike
<1>9. EndAlike(s, t, y)
  BY <1>6, <1>7, <1>8
<1>10. \A m \in Nat : EndAlike(s, t, m) /\ m <= Len(s) - d /\ m <= Len(t) - d => m <= y
  BY <1>6, <1>7
<1> QED
  BY <1>8, <1>9, <1>10 DEF d, y

-----------------------------------------------------------------------------
\* The marks that are not on letters first+1..last, each where its letter is when "next"
\* is written over these.
Followed(line, next, first, last) ==
    LET kept == MarksAt(line.marks, Positions(line) \ (first..(last - 1)))
    IN  [k \in DOMAIN kept |->
           IF kept[k].position < first THEN kept[k]
           ELSE Mark(Len(next) - (Len(line.lyrics) - kept[k].position), kept[k].chord)]

\* Where letters are replaced, the marks around them are marks of the new line.
LEMMA MarksAroundKeeps ==
    ASSUME NEW line \in Lines, NEW next \in AnyText,
           NEW start \in Nat, NEW end \in Nat,
           start <= end, end <= Len(line.lyrics), start + Len(line.lyrics) - end <= Len(next)
    PROVE  /\ MarksAround(line, start, end, next) = Followed(line, next, start, end)
           /\ MarksAround(line, start, end, next) \in MarksOf(Len(next))
<1> DEFINE kept == MarksAt(line.marks, Positions(line) \ (start..(end - 1)))
           n == Len(line.lyrics)
           m == Len(next)
           moved == MarksAround(line, start, end, next)
           Around(mark) == IF mark.position < end THEN mark
                           ELSE [mark EXCEPT !.position = @ + m - n]
           Follow(mark) == IF mark.position < start THEN mark
                           ELSE Mark(m - (n - mark.position), mark.chord)
<1>1. n \in Nat /\ m \in Nat /\ line.marks \in MarksOf(n)
  BY LineParts DEF AnyText
<1>2. moved = [k \in DOMAIN kept |-> Around(kept[k])]
  BY DEF MarksAround
<1>3. /\ kept \in MarksOf(n)
      /\ \A k \in DOMAIN kept : kept[k].position \in Positions(line) \ (start..(end - 1))
  BY <1>1, MarksAtKeeps
<1> HIDE DEF kept, moved, n, m
<1>4. /\ kept \in Seq(AnyMark) /\ DOMAIN kept = 1..Len(kept) /\ Len(kept) \in Nat
      /\ \A k \in DOMAIN kept : /\ kept[k] \in AnyMark /\ kept[k].position \in 0..n
                                /\ kept[k].position < start \/ kept[k].position >= end
      /\ \A j, k \in DOMAIN kept : j < k => kept[j].position <= kept[k].position
  <2>1. kept \in Seq(AnyMark)
    BY <1>3 DEF MarksOf
  <2>2. \A k \in DOMAIN kept : kept[k].position \in 0..n
    BY <1>3 DEF MarksOf
  <2> QED
    BY <1>3, <2>1, <2>2 DEF MarksOf
<1>5. ASSUME NEW mark \in AnyMark, mark.position \in 0..n,
             mark.position < start \/ mark.position >= end
      PROVE  /\ Around(mark) = Follow(mark)
             /\ Around(mark) \in AnyMark
             /\ Around(mark).position \in 0..m
             /\ Around(mark).position =
                   IF mark.position < start THEN mark.position ELSE mark.position + m - n
  <2>0. start <= end /\ end <= n /\ start + n - end <= m
    BY DEF n, m
  <2>1. CASE mark.position < start
    <3>1. mark.position < end /\ mark.position \in 0..m
      BY <1>1, <1>5, <2>0, <2>1
    <3> QED
      BY <2>1, <3>1
  <2>2. CASE mark.position >= end
    <3>1. /\ ~(mark.position < end) /\ ~(mark.position < start)
          /\ mark.position + m - n \in 0..m
          /\ mark.position + m - n = m - (n - mark.position)
      BY <1>1, <1>5, <2>0, <2>2
    <3> DEFINE new == mark.position + m - n
    <3>2. new \in Nat
      BY <1>1, <3>1
    <3> HIDE DEF new
    <3>3. /\ [mark EXCEPT !.position = new] = Mark(new, mark.chord)
          /\ Mark(new, mark.chord) \in AnyMark
          /\ Mark(new, mark.chord).position = new
      BY <1>5, <3>2 DEF AnyMark, Mark
    <3>4. Around(mark) = [mark EXCEPT !.position = new] /\ Follow(mark) = Mark(new, mark.chord)
      <4>1. m - (n - mark.position) = new
        BY <3>1 DEF new
      <4>2. Follow(mark) = Mark(m - (n - mark.position), mark.chord)
        BY <3>1
      <4>3. Around(mark) = [mark EXCEPT !.position = mark.position + m - n]
        BY <3>1
      <4> QED
        BY <4>1, <4>2, <4>3 DEF new
    <3> HIDE DEF Around, Follow
    <3>5. (IF mark.position < start THEN mark.position ELSE mark.position + m - n) = new
      BY <3>1 DEF new
    <3> QED
      BY <3>1, <3>3, <3>4, <3>5 DEF new
  <2> QED
    BY <1>5, <2>1, <2>2
<1> DEFINE Pos(k) == moved[k].position
<1>6. /\ moved = [k \in DOMAIN kept |-> Follow(kept[k])]
      /\ moved \in Seq(AnyMark) /\ DOMAIN moved = DOMAIN kept
      /\ \A k \in DOMAIN kept :
            /\ Pos(k) \in 0..m
            /\ Pos(k) = IF kept[k].position < start THEN kept[k].position
                        ELSE kept[k].position + m - n
  <2> HIDE DEF Around, Follow
  <2>1. \A k \in DOMAIN kept :
            /\ Around(kept[k]) = Follow(kept[k]) /\ Around(kept[k]) \in AnyMark
            /\ Around(kept[k]).position \in 0..m
            /\ Around(kept[k]).position =
                  IF kept[k].position < start THEN kept[k].position
                  ELSE kept[k].position + m - n
    BY <1>4, <1>5
  <2>2. moved = [k \in DOMAIN kept |-> Follow(kept[k])]
    BY <1>2, <2>1
  <2>3. moved = [k \in 1..Len(kept) |-> Around(kept[k])]
    BY <1>2, <1>4
  <2>4. moved \in Seq(AnyMark)
    BY <1>4, <2>1, <2>3
  <2> QED
    BY <1>2, <2>1, <2>2, <2>4
<1>7. ASSUME NEW j \in DOMAIN kept, NEW k \in DOMAIN kept, j < k
      PROVE  Pos(j) <= Pos(k)
  <2>1. /\ kept[j].position <= kept[k].position
        /\ kept[j].position \in 0..n /\ kept[k].position \in 0..n
        /\ kept[j].position < start \/ kept[j].position >= end
        /\ kept[k].position < start \/ kept[k].position >= end
    BY <1>4, <1>7
  <2>2. /\ Pos(j) = IF kept[j].position < start THEN kept[j].position
                    ELSE kept[j].position + m - n
        /\ Pos(k) = IF kept[k].position < start THEN kept[k].position
                    ELSE kept[k].position + m - n
    BY <1>6
  <2>3. start <= end /\ end <= n /\ start + n - end <= m
    BY DEF n, m
  <2> HIDE DEF Pos
  <2> QED
    BY <1>1, <2>1, <2>2, <2>3
<1>8. moved \in MarksOf(m)
  BY <1>6, <1>7 DEF MarksOf
<1> QED
  BY <1>6, <1>8 DEF kept, moved, n, m, Followed

LEMMA Replacement ==
    ASSUME NEW S, NEW s \in Seq(S), NEW t \in Seq(S),
           NEW first \in 0..Len(s), NEW last \in 0..Len(s)
    PROVE  IsReplacement(s, t, first, last) <=>
              /\ first <= last /\ first + Len(s) - last <= Len(t)
              /\ BeginAlike(s, t, first) /\ EndAlike(s, t, Len(s) - last)
<1>1. Len(s) \in Nat /\ Len(t) \in Nat
  OBVIOUS
<1> SUFFICES ASSUME first <= last, first + Len(s) - last <= Len(t)
             PROVE  /\ SubSeq(s, 1, first) = SubSeq(t, 1, first) <=> BeginAlike(s, t, first)
                    /\ SubSeq(s, last + 1, Len(s))
                          = SubSeq(t, Len(t) - (Len(s) - last) + 1, Len(t))
                       <=> EndAlike(s, t, Len(s) - last)
  BY DEF IsReplacement
<1>2. SubSeq(s, 1, first) = SubSeq(t, 1, first) <=> BeginAlike(s, t, first)
  <2>1. first \in Nat /\ first <= Len(s) /\ first <= Len(t)
    BY <1>1
  <2> QED
    BY <2>1, SubSeqAlike
<1> DEFINE m == Len(s) - last
           p == SubSeq(s, last + 1, Len(s))
           q == SubSeq(t, Len(t) - (Len(s) - last) + 1, Len(t))
<1>3. /\ m \in Nat /\ m <= Len(s) /\ m <= Len(t) /\ last = Len(s) - m
  BY <1>1
<1>4. p \in Seq(S) /\ Len(p) = m /\ \A k \in 1..m : p[k] = s[Len(s) - m + k]
  BY <1>1
<1>5. q \in Seq(S) /\ Len(q) = m /\ \A k \in 1..m : q[k] = t[Len(t) - m + k]
  <2>1. q = SubSeq(t, Len(t) - m + 1, Len(t))
    OBVIOUS
  <2> HIDE DEF m, q
  <2> QED
    BY <1>1, <1>3, <2>1
<1> HIDE DEF m, p, q
<1>6. p = q <=> \A k \in 1..m : p[k] = q[k]
  <2>1. ASSUME \A k \in 1..m : p[k] = q[k] PROVE p = q
    BY <1>4, <1>5, <2>1, SeqEqual
  <2> QED
    BY <2>1
<1>7. p = q <=> EndAlike(s, t, m)
  BY <1>3, <1>4, <1>5, <1>6 DEF EndAlike
<1> QED
  BY <1>2, <1>7 DEF m, p, q

\* What is found to have been replaced is as little as can have been.
LEMMA FewestReplaced ==
    ASSUME NEW S, NEW s \in Seq(S), NEW t \in Seq(S)
    PROVE  LET start == Shared(s, t)
               end == Len(s) - SharedEnd(s, t)
           IN  /\ start \in 0..Len(s) /\ end \in 0..Len(s)
               /\ start <= end /\ start + Len(s) - end <= Len(t)
               /\ IsReplacement(s, t, start, end)
               /\ \A first, last \in 0..Len(s) :
                     IsReplacement(s, t, first, last) => end - start <= last - first
<1> DEFINE d == Shared(s, t)
           y == SharedEnd(s, t)
<1>1. /\ BeginAlike(s, t, d)
      /\ \A k \in Nat : BeginAlike(s, t, k) => k <= d
  BY SharedIsMost
<1>2. /\ EndAlike(s, t, y) /\ y <= Len(s) - d /\ y <= Len(t) - d
      /\ \A k \in Nat : EndAlike(s, t, k) /\ k <= Len(s) - d /\ k <= Len(t) - d => k <= y
  BY SharedEndIsMost
<1> HIDE DEF d, y
<1>3. /\ Len(s) \in Nat /\ Len(t) \in Nat /\ d \in Nat /\ y \in Nat
      /\ d <= Len(s) /\ d <= Len(t)
  BY <1>1, <1>2 DEF BeginAlike, EndAlike
<1>4. /\ d \in 0..Len(s) /\ Len(s) - y \in 0..Len(s) /\ d <= Len(s) - y
      /\ d + Len(s) - (Len(s) - y) <= Len(t) /\ Len(s) - (Len(s) - y) = y
  BY <1>2, <1>3
<1>5. IsReplacement(s, t, d, Len(s) - y)
  BY <1>1, <1>2, <1>4, Replacement
<1>6. ASSUME NEW first \in 0..Len(s), NEW last \in 0..Len(s),
             IsReplacement(s, t, first, last)
      PROVE  (Len(s) - y) - d <= last - first
  <2>1. /\ first <= last /\ first + Len(s) - last <= Len(t)
        /\ BeginAlike(s, t, first) /\ EndAlike(s, t, Len(s) - last)
    BY <1>6, Replacement
  <2>2. first <= d
    BY <1>1, <2>1
  <2> DEFINE m == Len(s) - last
  <2>3. m \in Nat /\ first + m <= Len(s) /\ first + m <= Len(t) /\ EndAlike(s, t, m)
    BY <1>3, <2>1
  <2>4. first + m <= d + y
    <3>1. CASE m <= Len(s) - d /\ m <= Len(t) - d
      <4>1. m <= y
        BY <1>2, <2>3, <3>1
      <4> QED
        BY <1>3, <2>2, <2>3, <4>1
    <3>2. CASE ~(m <= Len(s) - d /\ m <= Len(t) - d)
      <4> DEFINE z == IF Len(s) <= Len(t) THEN Len(s) - d ELSE Len(t) - d
      <4>1. z \in Nat /\ z <= m /\ z <= Len(s) - d /\ z <= Len(t) - d
            /\ z <= Len(s) /\ z <= Len(t) /\ first + m <= d + z
        BY <1>3, <2>3, <3>2
      <4> HIDE DEF z, m
      <4>2. EndAlike(s, t, z)
        <5> SUFFICES ASSUME NEW k \in 1..z PROVE s[Len(s) - z + k] = t[Len(t) - z + k]
          BY <4>1 DEF EndAlike
        <5>1. /\ (m - z) + k \in 1..m
              /\ Len(s) - m + ((m - z) + k) = Len(s) - z + k
              /\ Len(t) - m + ((m - z) + k) = Len(t) - z + k
          BY <1>3, <2>3, <4>1
        <5>2. s[Len(s) - m + ((m - z) + k)] = t[Len(t) - m + ((m - z) + k)]
          BY <2>3, <5>1 DEF EndAlike
        <5> QED
          BY <5>1, <5>2
      <4>3. z <= y
        BY <1>2, <4>1, <4>2
      <4> QED
        BY <1>3, <2>3, <4>1, <4>3
    <3> QED
      BY <3>1, <3>2
  <2> QED
    BY <1>3, <2>4
<1> QED
  BY <1>4, <1>5, <1>6 DEF d, y

LEMMA MovedMarksKeep ==
    ASSUME NEW line \in Lines, NEW next \in AnyText
    PROVE  MovedMarks(line, next) \in MarksOf(Len(next))
<1> DEFINE start == Shared(line.lyrics, next)
           end == Len(line.lyrics) - SharedEnd(line.lyrics, next)
<1>1. line.lyrics \in AnyText
  BY LineParts
<1>2. /\ start \in 0..Len(line.lyrics) /\ end \in 0..Len(line.lyrics)
      /\ start <= end /\ start + Len(line.lyrics) - end <= Len(next)
  BY <1>1, FewestReplaced DEF AnyText
<1>3. MovedMarks(line, next) = MarksAround(line, start, end, next)
  BY DEF MovedMarks
<1> HIDE DEF start, end
<1>4. start \in Nat /\ end \in Nat /\ end <= Len(line.lyrics)
  BY <1>2
<1> QED
  BY <1>2, <1>3, <1>4, MarksAroundKeeps

\* Chords follow their letters, on any line and for any text.
LEMMA MarksFollow ==
    ASSUME NEW line \in Lines, NEW next \in AnyText
    PROVE  LET n == Len(line.lyrics)
               ways == {w \in (0..n) \X (0..n) : IsReplacement(line.lyrics, next, w[1], w[2])}
           IN  \E w \in ways :
                 /\ \A v \in ways : w[2] - w[1] <= v[2] - v[1]
                 /\ MovedMarks(line, next) =
                      LET kept == MarksAt(line.marks, Positions(line) \ (w[1]..(w[2] - 1)))
                      IN  [k \in DOMAIN kept |->
                             IF kept[k].position < w[1] THEN kept[k]
                             ELSE Mark(Len(next) - (n - kept[k].position), kept[k].chord)]
<1> DEFINE n == Len(line.lyrics)
           ways == {w \in (0..n) \X (0..n) : IsReplacement(line.lyrics, next, w[1], w[2])}
           start == Shared(line.lyrics, next)
           end == n - SharedEnd(line.lyrics, next)
<1>1. line.lyrics \in AnyText
  BY LineParts
<1>2. /\ start \in 0..n /\ end \in 0..n
      /\ start <= end /\ start + n - end <= Len(next)
      /\ IsReplacement(line.lyrics, next, start, end)
      /\ \A first, last \in 0..n :
            IsReplacement(line.lyrics, next, first, last) => end - start <= last - first
  BY <1>1, FewestReplaced DEF AnyText
<1>3. MovedMarks(line, next) = MarksAround(line, start, end, next)
  BY DEF MovedMarks
<1> HIDE DEF start, end
<1>4. start \in Nat /\ end \in Nat /\ end <= n
  BY <1>2
<1>5. MovedMarks(line, next) = Followed(line, next, start, end)
  BY <1>2, <1>3, <1>4, MarksAroundKeeps
<1> DEFINE w == <<start, end>>
<1>6. w \in ways /\ w[1] = start /\ w[2] = end
  BY <1>2
<1>7. \A v \in ways : w[2] - w[1] <= v[2] - v[1]
  BY <1>2
<1>8. MovedMarks(line, next) = Followed(line, next, w[1], w[2])
  BY <1>5, <1>6
<1> HIDE DEF w, ways
<1>9. \E u \in ways : /\ \A v \in ways : u[2] - u[1] <= v[2] - v[1]
                      /\ MovedMarks(line, next) = Followed(line, next, u[1], u[2])
  BY <1>6, <1>7, <1>8
<1> QED
  BY <1>9 DEF ways, Followed

-----------------------------------------------------------------------------
(***************************************************************************)
(* The operations on sheets make sheets of sheets.                         *)
(***************************************************************************)
LEMMA SheetParts ==
    ASSUME NEW sheet \in AllSheets, NEW i \in DOMAIN sheet
    PROVE  /\ sheet \in Seq(Lines) /\ Len(sheet) \in Nat \ {0} /\ DOMAIN sheet = 1..Len(sheet)
           /\ sheet[i] \in Lines
  BY EmptySeq DEF AllSheets

LEMMA LineReplaced ==
    ASSUME NEW sheet \in AllSheets, NEW i \in DOMAIN sheet, NEW line \in Lines
    PROVE  [sheet EXCEPT ![i] = line] \in AllSheets
<1>1. /\ sheet \in Seq(Lines) /\ Len(sheet) \in Nat \ {0} /\ DOMAIN sheet = 1..Len(sheet)
  BY SheetParts
<1> DEFINE new == [sheet EXCEPT ![i] = line]
<1>2. new \in Seq(Lines) /\ Len(new) = Len(sheet)
  BY <1>1
<1>3. new # <<>>
  BY <1>1, <1>2
<1> QED
  BY <1>2, <1>3 DEF AllSheets

LEMMA MarksReplaced ==
    ASSUME NEW sheet \in AllSheets, NEW i \in DOMAIN sheet,
           NEW marks \in MarksOf(Len(sheet[i].lyrics))
    PROVE  [sheet EXCEPT ![i].marks = marks] \in AllSheets
<1>1. [sheet[i] EXCEPT !.marks = marks] \in Lines
  BY SheetParts, OtherMarks
<1>2. [sheet EXCEPT ![i].marks = marks] = [sheet EXCEPT ![i] = [sheet[i] EXCEPT !.marks = marks]]
  OBVIOUS
<1> QED
  BY <1>1, <1>2, LineReplaced

LEMMA InsertKeepsSheet ==
    ASSUME NEW sheet \in AllSheets, NEW i \in DOMAIN sheet,
           NEW position \in Positions(sheet[i]), NEW chord \in ChordNames
    PROVE  InsertChord(sheet, i, position, chord) \in AllSheets
<1> DEFINE marks == sheet[i].marks
           before == Cardinality({k \in DOMAIN marks : marks[k].position <= position})
           new == InsertAt(marks, before + 1, Mark(position, chord))
<1>1. sheet[i] \in Lines
  BY SheetParts
<1>2. /\ Len(sheet[i].lyrics) \in Nat /\ marks \in MarksOf(Len(sheet[i].lyrics))
      /\ position \in 0..Len(sheet[i].lyrics)
  BY <1>1, LineParts DEF Positions
<1>3. new \in MarksOf(Len(sheet[i].lyrics))
  <2> HIDE DEF marks
  <2> QED
    BY <1>2, InsertKeepsMarks
<1> HIDE DEF new
<1>4. [sheet EXCEPT ![i].marks = new] \in AllSheets
  BY <1>3, MarksReplaced
<1>5. InsertChord(sheet, i, position, chord) \in {sheet, [sheet EXCEPT ![i].marks = new]}
  BY DEF InsertChord, new
<1> QED
  BY <1>4, <1>5

LEMMA RemoveKeepsSheet ==
    ASSUME NEW sheet \in AllSheets, NEW i \in DOMAIN sheet, NEW k \in DOMAIN sheet[i].marks
    PROVE  /\ RemoveChord(sheet, i, k) \in AllSheets
           /\ DOMAIN RemoveChord(sheet, i, k) = DOMAIN sheet
           /\ \A j \in DOMAIN sheet : RemoveChord(sheet, i, k)[j].lyrics = sheet[j].lyrics
<1> DEFINE marks == sheet[i].marks
           new == RemoveAt(marks, k)
<1>1. sheet[i] \in Lines /\ sheet \in Seq(Lines)
  BY SheetParts
<1>2. Len(sheet[i].lyrics) \in Nat /\ marks \in MarksOf(Len(sheet[i].lyrics))
  BY <1>1, LineParts
<1>3. new \in MarksOf(Len(sheet[i].lyrics))
  <2>1. k \in DOMAIN marks
    OBVIOUS
  <2> HIDE DEF marks
  <2> QED
    BY <1>2, <2>1, RemoveKeepsMarks
<1> HIDE DEF new
<1>4. RemoveChord(sheet, i, k) = [sheet EXCEPT ![i].marks = new]
  BY DEF RemoveChord, new
<1>5. [sheet EXCEPT ![i].marks = new] = [sheet EXCEPT ![i] = [sheet[i] EXCEPT !.marks = new]]
  OBVIOUS
<1>6. [sheet[i] EXCEPT !.marks = new].lyrics = sheet[i].lyrics
  BY <1>1 DEF Lines
<1>7. \A j \in DOMAIN sheet :
         RemoveChord(sheet, i, k)[j] = IF j = i THEN [sheet[i] EXCEPT !.marks = new] ELSE sheet[j]
  BY <1>4, <1>5
<1>8. DOMAIN RemoveChord(sheet, i, k) = DOMAIN sheet
  BY <1>4, <1>5
<1>9. [sheet EXCEPT ![i].marks = new] \in AllSheets
  BY <1>3, MarksReplaced
<1> QED
  BY <1>4, <1>6, <1>7, <1>8, <1>9

LEMMA ChangeKeepsSheet ==
    ASSUME NEW sheet \in AllSheets, NEW i \in DOMAIN sheet, NEW k \in DOMAIN sheet[i].marks,
           NEW chord \in ChordNames
    PROVE  ChangeChord(sheet, i, k, chord) \in AllSheets
<1> DEFINE marks == sheet[i].marks
           new == [marks EXCEPT ![k].chord = chord]
<1>1. sheet[i] \in Lines
  BY SheetParts
<1>2. Len(sheet[i].lyrics) \in Nat /\ marks \in MarksOf(Len(sheet[i].lyrics))
  BY <1>1, LineParts
<1>3. new \in MarksOf(Len(sheet[i].lyrics))
  <2>1. k \in DOMAIN marks
    OBVIOUS
  <2> HIDE DEF marks
  <2> QED
    BY <1>2, <2>1, ChangeKeepsMarks
<1>4. ChangeChord(sheet, i, k, chord) = [sheet EXCEPT ![i].marks = new]
  BY DEF ChangeChord
<1> HIDE DEF new
<1>5. [sheet EXCEPT ![i].marks = new] \in AllSheets
  BY <1>3, MarksReplaced
<1> QED
  BY <1>4, <1>5

LEMMA MoveKeepsSheet ==
    ASSUME NEW sheet \in AllSheets, NEW p, p.line \in DOMAIN sheet,
           p.mark \in DOMAIN sheet[p.line].marks,
           NEW i \in DOMAIN sheet, NEW position \in Positions(sheet[i])
    PROVE  MoveChord(sheet, p, i, position) \in AllSheets
<1> DEFINE mark == sheet[p.line].marks[p.mark]
           rest == RemoveChord(sheet, p.line, p.mark)
<1>1. mark.chord \in ChordNames
  <2>1. sheet[p.line] \in Lines
    BY SheetParts
  <2>2. sheet[p.line].marks \in Seq(AnyMark)
    BY <2>1, LineParts DEF MarksOf
  <2>3. mark \in AnyMark
    BY <2>2
  <2> QED
    BY <2>3 DEF AnyMark
<1>2. /\ rest \in AllSheets /\ i \in DOMAIN rest /\ rest[i].lyrics = sheet[i].lyrics
  BY RemoveKeepsSheet
<1>3. position \in Positions(rest[i])
  BY <1>2 DEF Positions
<1>4. MoveChord(sheet, p, i, position) \in {sheet, InsertChord(rest, i, position, mark.chord)}
  BY DEF MoveChord
<1> HIDE DEF rest, mark
<1> QED
  BY <1>1, <1>2, <1>3, <1>4, InsertKeepsSheet

LEMMA EmptyLine == Empty \in Lines
<1>1. <<>> \in AnyText /\ <<>> \in MarksOf(Len(<<>>))
  BY DEF AnyText, MarksOf
<1> QED
  BY <1>1, PlainLine DEF Empty

LEMMA LineRemoved ==
    ASSUME NEW sheet \in AllSheets, NEW i \in DOMAIN sheet
    PROVE  RemoveEditorLine(sheet, i) \in AllSheets
<1>1. sheet \in Seq(Lines) /\ Len(sheet) \in Nat \ {0} /\ i \in 1..Len(sheet)
  BY SheetParts
<1>2. CASE Len(sheet) = 1
  <2>1. <<Empty>> \in Seq(Lines) /\ <<Empty>> # <<>>
    BY EmptyLine
  <2> QED
    BY <1>2, <2>1 DEF RemoveEditorLine, AllSheets
<1>3. CASE Len(sheet) # 1
  <2>1. RemoveAt(sheet, i) \in Seq(Lines) /\ Len(RemoveAt(sheet, i)) = Len(sheet) - 1
    BY <1>1, RemoveAtProperties
  <2>2. RemoveAt(sheet, i) # <<>>
    BY <1>1, <1>3, <2>1
  <2> QED
    BY <1>3, <2>1, <2>2 DEF RemoveEditorLine, AllSheets
<1> QED
  BY <1>2, <1>3

LEMMA FirstBreak ==
    ASSUME NEW lyrics \in AnyText, Break \in Range(lyrics)
    PROVE  SelectInSeq(lyrics, LAMBDA letter : letter = Break) \in 1..Len(lyrics)
<1> DEFINE I == {k \in 1..Len(lyrics) : lyrics[k] = Break}
<1>1. I # {} /\ I \in SUBSET Nat
  <2>1. Len(lyrics) \in Nat /\ DOMAIN lyrics = 1..Len(lyrics)
    BY DEF AnyText
  <2> QED
    BY <2>1 DEF Range
<1>2. SelectInSeq(lyrics, LAMBDA letter : letter = Break) = Min(I)
  BY <1>1 DEF SelectInSeq
<1>3. \E x \in I : \A y \in I : x <= y
  BY <1>1, Least
<1>4. Min(I) \in I
  BY <1>3 DEF Min
<1> QED
  BY <1>2, <1>4

LEMMA BrokenKeeps ==
    ASSUME NEW lyrics \in AnyText, NEW marks \in MarksOf(Len(lyrics))
    PROVE  Broken(lyrics, marks) \in AllSheets
<1>1. CASE Break \notin Range(lyrics)
  <2>1. Plain(lyrics, marks) \in Lines
    BY PlainLine
  <2>2. <<Plain(lyrics, marks)>> \in Seq(Lines) /\ <<Plain(lyrics, marks)>> # <<>>
    BY <2>1
  <2> QED
    BY <1>1, <2>2 DEF Broken, AllSheets
<1>2. CASE Break \in Range(lyrics)
  <2> DEFINE place == SelectInSeq(lyrics, LAMBDA letter : letter = Break)
             n == Len(lyrics)
             head == SubSeq(lyrics, 1, place - 1)
             tail == SubSeq(lyrics, place + 1, Len(lyrics))
             first == MarksAt(marks, 0..(place - 1))
             second == MarksAt(marks, place..Len(lyrics))
             shifted == [k \in DOMAIN second |-> [second[k] EXCEPT !.position = @ - place]]
  <2>1. place \in 1..n
    BY <1>2, FirstBreak
  <2>2. Broken(lyrics, marks) = <<Plain(head, first), Plain(tail, shifted)>>
    BY <1>2 DEF Broken
  <2> HIDE DEF place
  <2>3. n \in Nat
    BY DEF AnyText
  <2>4. head \in AnyText /\ Len(head) = place - 1 /\ tail \in AnyText /\ Len(tail) = n - place
    BY <2>1, <2>3 DEF AnyText
  <2> HIDE DEF head, tail
  <2>5. /\ first \in MarksOf(n) /\ \A k \in DOMAIN first : first[k].position \in 0..(place - 1)
        /\ second \in MarksOf(n) /\ \A k \in DOMAIN second : second[k].position \in place..n
    BY <2>3, MarksAtKeeps
  <2> HIDE DEF first, second
  <2>6. first \in MarksOf(place - 1)
    BY <2>5 DEF MarksOf
  <2>7. shifted \in MarksOf(n - place)
    <3>1. /\ second \in Seq(AnyMark) /\ DOMAIN second = 1..Len(second) /\ Len(second) \in Nat
          /\ \A j, k \in DOMAIN second : j < k => second[j].position <= second[k].position
      BY <2>5 DEF MarksOf
    <3>2. ASSUME NEW k \in DOMAIN second
          PROVE  /\ shifted[k] \in AnyMark
                 /\ shifted[k].position = second[k].position - place
                 /\ shifted[k].position \in 0..(n - place)
      <4>1. second[k] \in AnyMark /\ second[k].position \in place..n
        BY <2>5, <3>1
      <4> DEFINE at == second[k].position - place
      <4>2. at \in 0..(n - place)
        BY <2>1, <2>3, <4>1
      <4>3. shifted[k] = [second[k] EXCEPT !.position = at]
        OBVIOUS
      <4> HIDE DEF at, shifted
      <4>4. shifted[k] \in AnyMark /\ shifted[k].position = at
        BY <2>1, <2>3, <4>1, <4>2, <4>3 DEF AnyMark
      <4> QED
        BY <4>2, <4>4 DEF at
    <3>3. DOMAIN shifted = DOMAIN second /\ shifted \in Seq(AnyMark)
      <4>1. shifted = [k \in 1..Len(second) |-> shifted[k]]
        BY <3>1
      <4> HIDE DEF shifted
      <4> QED
        BY <3>1, <3>2, <4>1
    <3> HIDE DEF shifted
    <3>4. ASSUME NEW j \in DOMAIN second, NEW k \in DOMAIN second, j < k
          PROVE  shifted[j].position <= shifted[k].position
      <4>1. second[j].position \in place..n /\ second[k].position \in place..n
            /\ second[j].position <= second[k].position
        BY <2>5, <3>1, <3>4
      <4> QED
        BY <2>1, <3>2, <4>1
    <3> QED
      BY <3>2, <3>3, <3>4 DEF MarksOf
  <2> HIDE DEF shifted
  <2>8. Plain(head, first) \in Lines /\ Plain(tail, shifted) \in Lines
    BY <2>4, <2>6, <2>7, PlainLine
  <2>9. /\ <<Plain(head, first), Plain(tail, shifted)>> \in Seq(Lines)
        /\ <<Plain(head, first), Plain(tail, shifted)>> # <<>>
    BY <2>8
  <2> QED
    BY <2>2, <2>9 DEF AllSheets
<1> QED
  BY <1>1, <1>2

LEMMA LyricsReplaced ==
    ASSUME NEW sheet \in AllSheets, NEW i \in DOMAIN sheet, NEW next \in AnyText
    PROVE  ReplaceLineLyrics(sheet, i, next) \in AllSheets
<1> DEFINE lines == Broken(next, MovedMarks(sheet[i], next))
           head == SubSeq(sheet, 1, i - 1)
           tail == SubSeq(sheet, i + 1, Len(sheet))
<1>1. /\ sheet \in Seq(Lines) /\ Len(sheet) \in Nat /\ i \in 1..Len(sheet)
      /\ sheet[i] \in Lines
  BY SheetParts
<1>2. lines \in Seq(Lines) /\ lines # <<>>
  BY <1>1, MovedMarksKeep, BrokenKeeps DEF AllSheets
<1>3. head \in Seq(Lines) /\ tail \in Seq(Lines)
  BY <1>1
<1>4. ReplaceLineLyrics(sheet, i, next) = (head \o lines) \o tail
  BY DEF ReplaceLineLyrics
<1> HIDE DEF lines, head, tail
<1>5. /\ head \o lines \in Seq(Lines) /\ Len(head \o lines) = Len(head) + Len(lines)
  BY <1>2, <1>3, ConcatProperties
<1>6. /\ (head \o lines) \o tail \in Seq(Lines)
      /\ Len((head \o lines) \o tail) = Len(head \o lines) + Len(tail)
  BY <1>3, <1>5, ConcatProperties
<1>7. Len(lines) > 0 /\ Len(head) \in Nat /\ Len(tail) \in Nat /\ Len(lines) \in Nat
  BY <1>2, <1>3, EmptySeq
<1>8. (head \o lines) \o tail # <<>>
  BY <1>5, <1>6, <1>7
<1> QED
  BY <1>4, <1>6, <1>8 DEF AllSheets

-----------------------------------------------------------------------------
(***************************************************************************)
(* The editor. The invariant says of all the sheets that can come back     *)
(* what it says of the one shown, for undoing and redoing show them as     *)
(* they were; and the history has its limit.                               *)
(***************************************************************************)
\* Every sheet shown or to come back is one, and the history has its limit.
EditorShape ==
    /\ value \in AllSheets
    /\ history \in [past: Seq(AllSheets), future: Seq(AllSheets)]
    /\ Len(history.past) + Len(history.future) <= HistoryLimit
    /\ pick \in SUBSET [line: Nat, mark: Nat, moving: BOOLEAN]
    /\ \A p \in pick : p.line \in EditableLines(value) /\ p.mark \in DOMAIN value[p.line].marks
    /\ edits \in 0..MaxEdits /\ outside \in 0..MaxOutside

LEMMA EditorInitShape == EditorInit => EditorShape
<1> SUFFICES ASSUME EditorInit PROVE EditorShape
  OBVIOUS
<1>1. value \in AllSheets /\ HistoryLimit \in Nat /\ MaxEdits \in Nat /\ MaxOutside \in Nat
  BY EditorAssumption DEF EditorInit
<1>2. /\ history \in [past: Seq(AllSheets), future: Seq(AllSheets)]
      /\ Len(history.past) + Len(history.future) = 0
  BY DEF EditorInit
<1> QED
  BY <1>1, <1>2 DEF EditorInit, EditorShape

\* Going on to a sheet with nothing picked on it.
LEMMA ShownShape ==
    ASSUME value' \in AllSheets, pick' = {},
           history' \in [past: Seq(AllSheets), future: Seq(AllSheets)],
           Len(history'.past) + Len(history'.future) <= HistoryLimit,
           edits' \in 0..MaxEdits, outside' \in 0..MaxOutside
    PROVE  EditorShape'
  BY DEF EditorShape

LEMMA CommitShape ==
    ASSUME EditorShape, NEW next \in AllSheets, Commit(next)
    PROVE  EditorShape'
<1> DEFINE p == history.past
           q == Append(p, value)
           past == SubSeq(q, IF Len(p) < HistoryLimit THEN 1 ELSE 2, Len(p) + 1)
<1>1. /\ history' = [past |-> past, future |-> <<>>]
      /\ value' = next /\ pick' = {} /\ edits' = edits + 1 /\ edits < MaxEdits
      /\ outside' = outside
  BY DEF Commit, Push
<1>2. /\ HistoryLimit \in Nat /\ MaxEdits \in Nat /\ MaxOutside \in Nat
      /\ p \in Seq(AllSheets) /\ Len(p) \in Nat /\ Len(p) <= HistoryLimit
      /\ value \in AllSheets
      /\ edits \in 0..MaxEdits /\ outside \in 0..MaxOutside
  <2>1. p \in Seq(AllSheets) /\ history.future \in Seq(AllSheets)
    BY DEF EditorShape
  <2>2. Len(p) \in Nat /\ Len(history.future) \in Nat
    BY <2>1
  <2> QED
    BY <2>1, <2>2, EditorAssumption DEF EditorShape
<1> HIDE DEF p
<1>3. q \in Seq(AllSheets) /\ Len(q) = Len(p) + 1
  BY <1>2, AppendProperties
<1> HIDE DEF q
<1>4. past \in Seq(AllSheets) /\ Len(past) <= HistoryLimit /\ Len(past) \in Nat
  <2>1. CASE Len(p) < HistoryLimit
    <3>1. past = SubSeq(q, 1, Len(p) + 1)
      BY <2>1
    <3> QED
      BY <1>2, <1>3, <2>1, <3>1
  <2>2. CASE ~(Len(p) < HistoryLimit)
    <3>1. past = SubSeq(q, 2, Len(p) + 1) /\ Len(p) = HistoryLimit
      BY <1>2, <2>2
    <3> QED
      BY <1>2, <1>3, <3>1
  <2> QED
    BY <2>1, <2>2
<1> HIDE DEF past
<1>5. <<>> \in Seq(AllSheets) /\ Len(<<>>) = 0
  OBVIOUS
<1>6. /\ history' \in [past: Seq(AllSheets), future: Seq(AllSheets)]
      /\ Len(history'.past) + Len(history'.future) <= HistoryLimit
  BY <1>1, <1>4, <1>5
<1>7. edits' \in 0..MaxEdits /\ outside' \in 0..MaxOutside /\ value' \in AllSheets
  BY <1>1, <1>2
<1> QED
  BY <1>1, <1>6, <1>7, ShownShape

LEMMA UndoShape == EditorShape /\ (UndoEdit \/ RedoEdit) => EditorShape'
<1> DEFINE p == history.past
           f == history.future
<1> SUFFICES ASSUME EditorShape, UndoEdit \/ RedoEdit PROVE EditorShape'
  OBVIOUS
<1>1. /\ p \in Seq(AllSheets) /\ f \in Seq(AllSheets) /\ value \in AllSheets
      /\ Len(p) + Len(f) <= HistoryLimit /\ HistoryLimit \in Nat
      /\ edits \in 0..MaxEdits /\ outside \in 0..MaxOutside
  BY EditorAssumption DEF EditorShape
<1>2. CASE UndoEdit
  <2>1. /\ p # <<>> /\ value' = Last(p) /\ pick' = {} /\ UNCHANGED <<edits, outside>>
        /\ history' = [past |-> Front(p), future |-> Append(f, value)]
    BY <1>2 DEF UndoEdit
  <2> HIDE DEF p, f
  <2>2. /\ Front(p) \in Seq(AllSheets) /\ Last(p) \in AllSheets /\ Len(Front(p)) = Len(p) - 1
    BY <1>1, <2>1, FrontAndLast
  <2>3. Append(f, value) \in Seq(AllSheets) /\ Len(Append(f, value)) = Len(f) + 1
    BY <1>1, AppendProperties
  <2>4. Len(Front(p)) + Len(Append(f, value)) <= HistoryLimit
    BY <1>1, <2>2, <2>3
  <2>5. /\ history' \in [past: Seq(AllSheets), future: Seq(AllSheets)]
        /\ Len(history'.past) + Len(history'.future) <= HistoryLimit
    BY <2>1, <2>2, <2>3, <2>4
  <2>6. value' \in AllSheets /\ edits' \in 0..MaxEdits /\ outside' \in 0..MaxOutside
    BY <1>1, <2>1, <2>2
  <2> QED
    BY <2>1, <2>5, <2>6, ShownShape
<1>3. CASE RedoEdit
  <2>1. /\ f # <<>> /\ value' = Last(f) /\ pick' = {} /\ UNCHANGED <<edits, outside>>
        /\ history' = [past |-> Append(p, value), future |-> Front(f)]
    BY <1>3 DEF RedoEdit
  <2> HIDE DEF p, f
  <2>2. /\ Front(f) \in Seq(AllSheets) /\ Last(f) \in AllSheets /\ Len(Front(f)) = Len(f) - 1
    BY <1>1, <2>1, FrontAndLast
  <2>3. Append(p, value) \in Seq(AllSheets) /\ Len(Append(p, value)) = Len(p) + 1
    BY <1>1, AppendProperties
  <2>4. Len(Append(p, value)) + Len(Front(f)) <= HistoryLimit
    BY <1>1, <2>2, <2>3
  <2>5. /\ history' \in [past: Seq(AllSheets), future: Seq(AllSheets)]
        /\ Len(history'.past) + Len(history'.future) <= HistoryLimit
    BY <2>1, <2>2, <2>3, <2>4
  <2>6. value' \in AllSheets /\ edits' \in 0..MaxEdits /\ outside' \in 0..MaxOutside
    BY <1>1, <2>1, <2>2
  <2> QED
    BY <2>1, <2>5, <2>6, ShownShape
<1> QED
  BY <1>2, <1>3

LEMMA OutsideShape ==
    ASSUME EditorShape, NEW sheet \in Sheets, ValueFromForm(sheet)
    PROVE  EditorShape'
<1>1. sheet \in AllSheets /\ HistoryLimit \in Nat /\ MaxOutside \in Nat
  BY EditorAssumption
<1>2. /\ history' = [past |-> <<>>, future |-> <<>>] /\ pick' = {} /\ value' = sheet
      /\ edits' = edits /\ outside' = outside + 1 /\ outside < MaxOutside
  BY DEF ValueFromForm
<1>3. /\ history' \in [past: Seq(AllSheets), future: Seq(AllSheets)]
      /\ Len(history'.past) + Len(history'.future) <= HistoryLimit
  BY <1>1, <1>2
<1>4. edits' \in 0..MaxEdits /\ outside' \in 0..MaxOutside
  BY <1>1, <1>2 DEF EditorShape
<1> QED
  BY <1>1, <1>2, <1>3, <1>4, ShownShape

\* Clicking a chord, and the buttons beside it.
LEMMA PickShape ==
    ASSUME EditorShape,
           \/ StartMoving \/ Unpick
           \/ \E i \in DOMAIN value : \E k \in DOMAIN value[i].marks : SelectMark(i, k)
    PROVE  EditorShape'
<1> USE DEF EditorShape
<1>1. CASE StartMoving
  <2>1. PICK p \in pick : pick' = {[p EXCEPT !.moving = TRUE]}
    BY <1>1 DEF StartMoving
  <2>2. p \in [line: Nat, mark: Nat, moving: BOOLEAN]
    OBVIOUS
  <2> DEFINE q == [p EXCEPT !.moving = TRUE]
  <2>3. q \in [line: Nat, mark: Nat, moving: BOOLEAN] /\ q.line = p.line /\ q.mark = p.mark
    BY <2>2
  <2> HIDE DEF q
  <2>4. pick' = {q} /\ UNCHANGED <<value, history, edits, outside>>
    BY <1>1, <2>1 DEF StartMoving, q
  <2> QED
    BY <2>3, <2>4 DEF EditableLines
<1>2. CASE Unpick
  BY <1>2 DEF Unpick
<1>3. ASSUME NEW i \in DOMAIN value, NEW k \in DOMAIN value[i].marks, SelectMark(i, k)
      PROVE  EditorShape'
  <2> DEFINE q == [line |-> i, mark |-> k, moving |-> FALSE]
  <2>1. pick' = {q} /\ i \in EditableLines(value) /\ UNCHANGED <<value, history, edits, outside>>
    BY <1>3 DEF SelectMark
  <2>2. i \in Nat /\ k \in Nat
    <3>1. value \in AllSheets /\ value[i] \in Lines
      BY SheetParts
    <3>2. value[i].marks \in Seq(AnyMark)
      BY <3>1, LineParts DEF MarksOf
    <3>3. DOMAIN value = 1..Len(value) /\ Len(value) \in Nat
      BY <3>1, SheetParts
    <3> QED
      BY <3>2, <3>3
  <2>3. q \in [line: Nat, mark: Nat, moving: BOOLEAN] /\ q.line = i /\ q.mark = k
    BY <2>2
  <2> HIDE DEF q
  <2> QED
    BY <2>1, <2>3 DEF EditableLines
<1> QED
  BY <1>1, <1>2, <1>3

LEMMA PlaceShape ==
    ASSUME EditorShape, NEW i \in DOMAIN value, NEW position \in Positions(value[i]),
           NEW chord \in ChordNames, ChoosePosition(i, position, chord)
    PROVE  EditorShape'
<1> DEFINE p == CHOOSE p \in pick : TRUE
           next == IF \E q \in pick : q.moving THEN MoveChord(value, p, i, position)
                   ELSE InsertChord(value, i, position, chord)
<1>1. Commit(next)
  BY DEF ChoosePosition
<1>2. value \in AllSheets
  BY DEF EditorShape
<1>3. CASE \E q \in pick : q.moving
  <2>1. p \in pick
    BY <1>3
  <2> HIDE DEF p
  <2>2. p.line \in DOMAIN value /\ p.mark \in DOMAIN value[p.line].marks
    BY <2>1 DEF EditorShape, EditableLines
  <2>3. MoveChord(value, p, i, position) \in AllSheets
    BY <1>2, <2>2, MoveKeepsSheet
  <2>4. Commit(MoveChord(value, p, i, position))
    BY <1>1, <1>3
  <2> QED
    BY <2>3, <2>4, CommitShape
<1>4. CASE ~\E q \in pick : q.moving
  <2>1. InsertChord(value, i, position, chord) \in AllSheets
    BY <1>2, InsertKeepsSheet
  <2>2. Commit(InsertChord(value, i, position, chord))
    BY <1>1, <1>4
  <2> QED
    BY <2>1, <2>2, CommitShape
<1> QED
  BY <1>3, <1>4

LEMMA PickedShape ==
    ASSUME EditorShape, DropChord \/ \E chord \in ChordNames : EditChord(chord)
    PROVE  EditorShape'
<1>1. value \in AllSheets
  BY DEF EditorShape
<1>2. \A p \in pick : p.line \in DOMAIN value /\ p.mark \in DOMAIN value[p.line].marks
  BY DEF EditorShape, EditableLines
<1>3. CASE DropChord
  <2>1. PICK p \in pick : Commit(RemoveChord(value, p.line, p.mark))
    BY <1>3 DEF DropChord
  <2>2. RemoveChord(value, p.line, p.mark) \in AllSheets
    BY <1>1, <1>2, RemoveKeepsSheet
  <2> QED
    BY <2>1, <2>2, CommitShape
<1>4. ASSUME NEW chord \in ChordNames, EditChord(chord) PROVE EditorShape'
  <2>1. PICK p \in pick : Commit(ChangeChord(value, p.line, p.mark, chord))
    BY <1>4 DEF EditChord
  <2>2. ChangeChord(value, p.line, p.mark, chord) \in AllSheets
    BY <1>1, <1>2, ChangeKeepsSheet
  <2> QED
    BY <2>1, <2>2, CommitShape
<1> QED
  BY <1>3, <1>4

LEMMA EditorNextShape == EditorShape /\ [EditorNext]_editorVars => EditorShape'
<1> SUFFICES ASSUME EditorShape, [EditorNext]_editorVars PROVE EditorShape'
  OBVIOUS
<1>1. value \in AllSheets
  BY DEF EditorShape
<1>2. CASE UndoEdit \/ RedoEdit
  BY <1>2, UndoShape
<1>3. CASE StartMoving \/ Unpick
  BY <1>3, PickShape
<1>4. CASE DropChord
  BY <1>4, PickedShape
<1>5. CASE AddLine
  <2>1. Append(value, Empty) \in AllSheets
    <3>1. value \in Seq(Lines)
      BY <1>1 DEF AllSheets
    <3>2. Append(value, Empty) \in Seq(Lines) /\ Append(value, Empty) # <<>>
      BY <3>1, EmptyLine, AppendProperties
    <3> QED
      BY <3>2 DEF AllSheets
  <2> QED
    BY <1>5, <2>1, CommitShape DEF AddLine
<1>6. ASSUME NEW sheet \in Sheets, ValueFromForm(sheet) \/ TypeSheet(sheet) PROVE EditorShape'
  <2>1. sheet \in AllSheets
    BY EditorAssumption
  <2> QED
    BY <1>6, <2>1, OutsideShape, CommitShape DEF TypeSheet
<1>7. ASSUME NEW chord \in ChordNames, EditChord(chord) PROVE EditorShape'
  BY <1>7, PickedShape
<1>8. ASSUME NEW i \in DOMAIN value, RemoveLine(i) PROVE EditorShape'
  <2>1. RemoveEditorLine(value, i) \in AllSheets
    BY <1>1, LineRemoved
  <2> QED
    BY <1>8, <2>1, CommitShape DEF RemoveLine
<1>9. ASSUME NEW i \in DOMAIN value, NEW k \in DOMAIN value[i].marks, SelectMark(i, k)
      PROVE  EditorShape'
  BY <1>9, PickShape
<1>10. ASSUME NEW i \in DOMAIN value, NEW text \in Texts, EditLyrics(i, text)
       PROVE  EditorShape'
  <2>1. text \in AnyText
    BY EditorAssumption DEF AnyText
  <2>2. ReplaceLineLyrics(value, i, text) \in AllSheets
    BY <1>1, <2>1, LyricsReplaced
  <2> QED
    BY <1>10, <2>2, CommitShape DEF EditLyrics
<1>11. ASSUME NEW i \in DOMAIN value, NEW position \in Positions(value[i]),
              NEW chord \in ChordNames, ChoosePosition(i, position, chord)
       PROVE  EditorShape'
  BY <1>11, PlaceShape
<1>12. CASE UNCHANGED editorVars
  BY <1>12 DEF editorVars, EditorShape, EditableLines
<1> QED
  BY <1>2, <1>3, <1>4, <1>5, <1>6, <1>7, <1>8, <1>9, <1>10, <1>11, <1>12 DEF EditorNext

LEMMA ShapeIsType == EditorShape => EditorTypeOK
<1> SUFFICES ASSUME EditorShape PROVE EditorTypeOK
  OBVIOUS
<1>1. MaxEdits \in Nat /\ MaxOutside \in Nat
  BY EditorAssumption
<1> QED
  BY <1>1 DEF EditorShape, EditorTypeOK

LEMMA EditorInductive == EditorSpec => []EditorShape
  BY EditorInitShape, EditorNextShape, PTL DEF EditorSpec

\* The sheet and its history have their types, and a picked chord is one of the sheet.
THEOREM EditorTypes == EditorSpec => []EditorTypeOK
  BY EditorInductive, ShapeIsType, PTL

\* For any sheet and any text that is typed for one of its lines, of any length, the chords
\* on the letters that were replaced, the fewest possible, are lost, and every other chord
\* stays with its letter (replaceLineLyrics, ChordsFollowTheirLetters).
THEOREM ChordsFollow == EditorSpec => []ChordsFollowTheirLetters
<1>1. EditorShape => ChordsFollowTheirLetters
  <2> SUFFICES ASSUME EditorShape, NEW i \in EditableLines(value), NEW next \in Texts
               PROVE  LET line == value[i]
                          n == Len(line.lyrics)
                          ways == {w \in (0..n) \X (0..n) :
                                      IsReplacement(line.lyrics, next, w[1], w[2])}
                      IN  \E w \in ways :
                            /\ \A v \in ways : w[2] - w[1] <= v[2] - v[1]
                            /\ MovedMarks(line, next) =
                                 LET kept == MarksAt(line.marks,
                                                     Positions(line) \ (w[1]..(w[2] - 1)))
                                 IN  [k \in DOMAIN kept |->
                                        IF kept[k].position < w[1] THEN kept[k]
                                        ELSE Mark(Len(next) - (n - kept[k].position),
                                                  kept[k].chord)]
    BY DEF ChordsFollowTheirLetters
  <2>1. value[i] \in Lines
    BY SheetParts DEF EditorShape, EditableLines
  <2>2. next \in AnyText
    BY EditorAssumption DEF AnyText
  <2> QED
    BY <2>1, <2>2, MarksFollow
<1> QED
  BY <1>1, EditorInductive, PTL

-----------------------------------------------------------------------------
(***************************************************************************)
(* The chord editor implements VersionStrip. Undoing and redoing move the  *)
(* shown sheet along the strip, by what reversing and appending do to each *)
(* other; an edit cuts the strip off behind the sheet shown, and at its    *)
(* start when it is too long.                                              *)
(***************************************************************************)
StripOf(past, shown, future) == past \o <<shown>> \o Reverse(future)

\* The sheets that can come back, and the one shown, are of some set; the two stacks
\* are sequences.
EditorInv == \E S : value \in S /\ history \in [past: Seq(S), future: Seq(S)]

-----------------------------------------------------------------------------
LEMMA ReverseAppend ==
    ASSUME NEW S, NEW s \in Seq(S), NEW e \in S
    PROVE  Reverse(Append(s, e)) = <<e>> \o Reverse(s)
<1> DEFINE n == Len(s)
           t == Append(s, e)
           r == Reverse(s)
           rt == Reverse(t)
           u == <<e>> \o r
<1>1. n \in Nat
  OBVIOUS
<1>2. r \in Seq(S) /\ Len(r) = n /\ \A i \in 1..n : r[i] = s[n - i + 1]
  BY ReverseProperties
<1>3. /\ t \in Seq(S) /\ Len(t) = n + 1 /\ t[n + 1] = e
      /\ \A i \in 1..n : t[i] = s[i]
  BY AppendProperties
<1> HIDE DEF t
<1>4. rt \in Seq(S) /\ Len(rt) = n + 1 /\ \A i \in 1..(n + 1) : rt[i] = t[(n + 1) - i + 1]
  <2>1. t \in Seq(S)
    BY <1>3
  <2>2. rt \in Seq(S) /\ Len(rt) = Len(t) /\ \A i \in 1..Len(t) : rt[i] = t[Len(t) - i + 1]
    BY <2>1, ReverseProperties
  <2> QED
    BY <1>3, <2>2
<1> HIDE DEF r, rt
<1>5. <<e>> \in Seq(S) /\ Len(<<e>>) = 1 /\ <<e>>[1] = e
  OBVIOUS
<1>6. /\ u \in Seq(S) /\ Len(u) = 1 + n
      /\ \A i \in 1..(1 + n) : u[i] = IF i <= 1 THEN <<e>>[i] ELSE r[i - 1]
  BY <1>2, <1>5, ConcatProperties
<1> HIDE DEF u
<1>7. ASSUME NEW i \in 1..(n + 1) PROVE rt[i] = u[i]
  <2>1. rt[i] = t[(n + 1) - i + 1] /\ u[i] = IF i <= 1 THEN <<e>>[i] ELSE r[i - 1]
    BY <1>1, <1>4, <1>6
  <2> HIDE DEF n
  <2>2. CASE i = 1
    <3>1. (n + 1) - i + 1 = n + 1
      BY <1>1, <2>2
    <3> QED
      BY <1>3, <1>5, <2>1, <2>2, <3>1
  <2>3. CASE i # 1
    <3>1. i - 1 \in 1..n /\ (n + 1) - i + 1 \in 1..n /\ ~(i <= 1)
          /\ n - (i - 1) + 1 = (n + 1) - i + 1
      BY <1>1, <2>3
    <3>2. rt[i] = s[(n + 1) - i + 1]
      BY <1>3, <2>1, <3>1
    <3>3. r[i - 1] = s[n - (i - 1) + 1]
      BY <1>2, <3>1
    <3> QED
      BY <2>1, <3>1, <3>2, <3>3
  <2> QED
    BY <2>2, <2>3
<1>8. rt = u
  <2>1. Len(rt) = Len(u)
    BY <1>1, <1>4, <1>6
  <2> QED
    BY <1>4, <1>6, <1>7, <2>1, SeqEqual
<1> QED
  BY <1>8 DEF rt, u, r, t

\* Undoing and redoing leave the strip alone.
LEMMA Undoes ==
    ASSUME NEW S, NEW p \in Seq(S), NEW f \in Seq(S), NEW v \in S, p # <<>>
    PROVE  StripOf(Front(p), Last(p), Append(f, v)) = StripOf(p, v, f)
<1>1. /\ Front(p) \in Seq(S) /\ Last(p) \in S
      /\ p = Front(p) \o <<Last(p)>>
  BY FrontAndLast, AppendIsConcat
<1>2. Reverse(Append(f, v)) = <<v>> \o Reverse(f) /\ Reverse(f) \in Seq(S) /\ <<v>> \in Seq(S)
  BY ReverseAppend, ReverseProperties
<1>3. p \o (<<v>> \o Reverse(f)) = (p \o <<v>>) \o Reverse(f)
  BY <1>2, ConcatAssociative
<1> QED
  BY <1>1, <1>2, <1>3 DEF StripOf

LEMMA Redoes ==
    ASSUME NEW S, NEW p \in Seq(S), NEW f \in Seq(S), NEW v \in S, f # <<>>
    PROVE  StripOf(Append(p, v), Last(f), Front(f)) = StripOf(p, v, f)
<1>1. Front(f) \in Seq(S) /\ Last(f) \in S /\ f = Append(Front(f), Last(f))
  BY FrontAndLast
<1>2. /\ Reverse(f) = <<Last(f)>> \o Reverse(Front(f)) /\ Reverse(Front(f)) \in Seq(S)
      /\ <<Last(f)>> \in Seq(S)
  <2> DEFINE t == Front(f)
             e == Last(f)
  <2>1. t \in Seq(S) /\ e \in S /\ f = Append(t, e)
    BY <1>1
  <2> HIDE DEF t, e
  <2>2. Reverse(f) = <<e>> \o Reverse(t) /\ <<e>> \in Seq(S)
    BY <2>1, ReverseAppend
  <2>3. Reverse(t) \in Seq(S)
    BY <2>1, ReverseProperties
  <2> QED
    BY <2>2, <2>3 DEF t, e
<1>3. Append(p, v) = p \o <<v>> /\ p \o <<v>> \in Seq(S)
  BY AppendIsConcat, AppendProperties
<1>4. (p \o <<v>>) \o (<<Last(f)>> \o Reverse(Front(f)))
        = ((p \o <<v>>) \o <<Last(f)>>) \o Reverse(Front(f))
  BY <1>2, <1>3, ConcatAssociative
<1> QED
  BY <1>2, <1>3, <1>4 DEF StripOf

LEMMA NothingReversed == Reverse(<<>>) = <<>>
  BY DEF Reverse

\* The end of the strip when nothing is undone.
LEMMA NoFuture ==
    ASSUME NEW S, NEW p \in Seq(S), NEW v \in S
    PROVE  StripOf(p, v, <<>>) = Append(p, v)
<1>1. Append(p, v) = p \o <<v>> /\ p \o <<v>> \in Seq(S)
  BY AppendIsConcat, AppendProperties
<1> QED
  BY <1>1, NothingReversed, ConcatEmptySeq DEF StripOf

LEMMA StripLength ==
    ASSUME NEW S, NEW p \in Seq(S), NEW f \in Seq(S), NEW v \in S
    PROVE  /\ Len(StripOf(p, v, f)) = Len(p) + 1 + Len(f)
           /\ StripOf(p, v, f)[Len(p) + 1] = v
           /\ SubSeq(StripOf(p, v, f), 1, Len(p) + 1) = Append(p, v)
<1> DEFINE a == Append(p, v)
           r == Reverse(f)
<1>1. r \in Seq(S) /\ Len(r) = Len(f)
  BY ReverseProperties
<1>2. a \in Seq(S) /\ Len(a) = Len(p) + 1 /\ a[Len(p) + 1] = v /\ a = p \o <<v>>
  BY AppendProperties, AppendIsConcat
<1>3. StripOf(p, v, f) = a \o r
  BY <1>2 DEF StripOf
<1>4. Len(p) \in Nat /\ Len(f) \in Nat
  OBVIOUS
<1> HIDE DEF a, r
<1>5. Len(a \o r) = Len(a) + Len(r) /\ \A i \in 1..Len(a) : (a \o r)[i] = a[i]
  <2>1. r \in Seq(S) /\ a \in Seq(S)
    BY <1>1, <1>2
  <2> QED
    BY <2>1, ConcatProperties
<1>6. (a \o r)[Len(p) + 1] = v
  BY <1>1, <1>2, <1>4, <1>5
<1>7. SubSeq(a \o r, 1, Len(a)) = a
  <2>1. 1 \in 1..Len(a) /\ Len(a) \in 1..Len(a)
    BY <1>2, <1>4
  <2> QED
    BY <1>1, <1>2, <2>1, SubSeqOfConcat1, SubSeqFull
<1> QED
  BY <1>1, <1>2, <1>3, <1>5, <1>6, <1>7 DEF a

\* The past after an edit, as the editor keeps it, and the strip after it, as promised.
PastAfter(p, v) ==
    SubSeq(Append(p, v), IF Len(p) < HistoryLimit THEN 1 ELSE 2, Len(p) + 1)

StripAfter(p, v, f, n) ==
    LET all == Append(SubSeq(StripOf(p, v, f), 1, Len(p) + 1), n)
    IN  IF Len(all) > HistoryLimit + 1 THEN Tail(all) ELSE all

\* An edit puts its sheet behind the one shown.
LEMMA Pushes ==
    ASSUME NEW S, NEW p \in Seq(S), NEW f \in Seq(S), NEW v \in S, NEW n \in S
    PROVE  /\ PastAfter(p, v) \in Seq(S)
           /\ StripOf(PastAfter(p, v), n, <<>>) = StripAfter(p, v, f, n)
<1> DEFINE a == Append(p, v)
           q == PastAfter(p, v)
<1>1. Len(p) \in Nat /\ HistoryLimit \in Nat
  BY EditorAssumption
<1>2. a \in Seq(S) /\ Len(a) = Len(p) + 1 /\ a # <<>>
  BY AppendProperties
<1>3. SubSeq(StripOf(p, v, f), 1, Len(p) + 1) = a
  BY StripLength
<1> HIDE DEF a
<1>4. Append(a, n) \in Seq(S) /\ Len(Append(a, n)) = Len(p) + 2
  BY <1>1, <1>2, AppendProperties
<1>5. CASE Len(p) < HistoryLimit
  <2>1. q = a
    BY <1>2, <1>5, SubSeqFull DEF a, PastAfter
  <2>2. ~(Len(Append(a, n)) > HistoryLimit + 1)
    BY <1>1, <1>4, <1>5
  <2>3. StripOf(q, n, <<>>) = Append(a, n)
    BY <1>2, <2>1, NoFuture
  <2> QED
    BY <1>2, <1>3, <2>1, <2>2, <2>3 DEF StripAfter
<1>6. CASE ~(Len(p) < HistoryLimit)
  <2>1. q = Tail(a) /\ Tail(a) \in Seq(S)
    BY <1>2, <1>6, TailIsSubSeq, HeadTailProperties DEF a, PastAfter
  <2>2. Len(Append(a, n)) > HistoryLimit + 1
    BY <1>1, <1>4, <1>6
  <2>3. StripOf(q, n, <<>>) = Append(Tail(a), n)
    BY <2>1, NoFuture
  <2>4. Tail(Append(a, n)) = Append(Tail(a), n)
    BY <1>2, HeadTailAppend
  <2> QED
    BY <1>3, <2>1, <2>2, <2>3, <2>4 DEF StripAfter
<1> QED
  BY <1>5, <1>6

-----------------------------------------------------------------------------
\* The strip and the place on it, in a state.
LEMMA StripHere ==
    /\ Strip!Init <=> /\ Len(StripOf(history.past, value, history.future)) = 1
                      /\ Len(history.past) + 1 = 1 /\ outside = 0
    /\ Strip!stripVars = <<StripOf(history.past, value, history.future),
                           Len(history.past) + 1, outside>>
  BY DEF Strip!Init, Strip!stripVars, StripOf

LEMMA EditorInvInit == EditorInit => EditorInv
<1> SUFFICES ASSUME EditorInit PROVE EditorInv
  OBVIOUS
<1>1. value \in {value} /\ history \in [past: Seq({value}), future: Seq({value})]
  BY DEF EditorInit
<1> QED
  BY <1>1 DEF EditorInv

LEMMA StripInit == EditorInit => Strip!Init
<1> SUFFICES ASSUME EditorInit PROVE Strip!Init
  OBVIOUS
<1>1. history.past = <<>> /\ history.future = <<>> /\ outside = 0
  BY DEF EditorInit
<1>2. value \in {value} /\ <<>> \in Seq({value})
  OBVIOUS
<1>3. Len(StripOf(<<>>, value, <<>>)) = Len(<<>>) + 1 + Len(<<>>)
  BY <1>2, StripLength
<1> QED
  BY <1>1, <1>3, StripHere

-----------------------------------------------------------------------------
Stacks(S) == value \in S /\ history \in [past: Seq(S), future: Seq(S)]

LEMMA CommitStep ==
    ASSUME EditorInv, NEW next, Commit(next)
    PROVE  EditorInv' /\ Strip!Edit
<1> DEFINE p == history.past
           f == history.future
           q == PastAfter(p, value)
<1>1. PICK T : Stacks(T)
  BY DEF EditorInv, Stacks
<1>2. PICK S : next \in S /\ value \in S /\ p \in Seq(S) /\ f \in Seq(S)
  <2>1. p \in Seq(T \cup {next}) /\ f \in Seq(T \cup {next})
    BY <1>1 DEF Stacks
  <2> QED
    BY <1>1, <2>1 DEF Stacks
<1>3. /\ value' = next /\ next # value /\ outside' = outside
      /\ history' = [past |-> q, future |-> <<>>]
  BY DEF Commit, Push, PastAfter
<1>4. q \in Seq(S) /\ StripOf(q, next, <<>>) = StripAfter(p, value, f, next)
  BY <1>2, Pushes
<1> HIDE DEF q
<1>5. history'.past = q /\ history'.future = <<>>
  BY <1>3
<1>6. EditorInv'
  <2>1. value' \in S /\ history' \in [past: Seq(S), future: Seq(S)]
    BY <1>2, <1>3, <1>4
  <2> QED
    BY <2>1 DEF EditorInv
<1>7. /\ StripOf(p, value, f)[Len(p) + 1] = value
      /\ Len(StripOf(q, next, <<>>)) = Len(q) + 1
      /\ StripOf(q, next, <<>>)[Len(q) + 1] = next
  <2>1. <<>> \in Seq(S) /\ Len(<<>>) = 0 /\ Len(q) \in Nat
    BY <1>4
  <2>2. Len(StripOf(q, next, <<>>)) = Len(q) + 1 + Len(<<>>)
        /\ StripOf(q, next, <<>>)[Len(q) + 1] = next
    BY <1>2, <1>4, <2>1, StripLength
  <2> QED
    BY <1>2, <2>1, <2>2, StripLength
<1>8. Strip!Edit
  <2> DEFINE old == StripOf(p, value, f)
             new == StripOf(q, next, <<>>)
  <2>1. p \o <<value>> \o Reverse(f) = old
    BY DEF StripOf
  <2>2. (p \o <<value>> \o Reverse(f))' = new
    BY <1>3, <1>5 DEF StripOf
  <2>3. (Len(p) + 1)' = Len(new)
    BY <1>5, <1>7
  <2>4. new[Len(new)] = next
    BY <1>7
  <2> HIDE DEF old, new, p, f
  <2> QED
    BY <1>3, <1>4, <1>7, <2>1, <2>2, <2>3, <2>4 DEF Strip!Edit, Strip!With, StripAfter, p, f, old, new
<1> QED
  BY <1>6, <1>8

LEMMA UndoStep ==
    ASSUME EditorInv, UndoEdit
    PROVE  EditorInv' /\ Strip!Undo
<1> DEFINE p == history.past
           f == history.future
<1>1. PICK S : value \in S /\ p \in Seq(S) /\ f \in Seq(S)
  BY DEF EditorInv
<1>2. /\ p # <<>> /\ value' = Last(p) /\ outside' = outside
      /\ history' = [past |-> Front(p), future |-> Append(f, value)]
  BY DEF UndoEdit
<1>3. history'.past = Front(p) /\ history'.future = Append(f, value)
  BY <1>2
<1> HIDE DEF p, f
<1>4. /\ Front(p) \in Seq(S) /\ Last(p) \in S /\ Len(Front(p)) = Len(p) - 1
      /\ Append(f, value) \in Seq(S)
  BY <1>1, <1>2, FrontAndLast, AppendProperties
<1>5. EditorInv'
  <2>1. value' \in S /\ history' \in [past: Seq(S), future: Seq(S)]
    BY <1>2, <1>4
  <2> QED
    BY <2>1 DEF EditorInv
<1>6. StripOf(Front(p), Last(p), Append(f, value)) = StripOf(p, value, f)
  BY <1>1, <1>2, Undoes
<1>7. Len(p) \in Nat /\ Len(Front(p)) \in Nat
  BY <1>1, <1>4
<1>8. Strip!Undo
  <2>1. p \o <<value>> \o Reverse(f) = StripOf(p, value, f)
    BY DEF StripOf
  <2>2. (p \o <<value>> \o Reverse(f))' = StripOf(Front(p), Last(p), Append(f, value))
    BY <1>2, <1>3 DEF StripOf, p, f
  <2>3. (Len(p) + 1)' = (Len(p) + 1) - 1 /\ Len(p) + 1 > 1
    BY <1>3, <1>4, <1>7 DEF p
  <2> QED
    BY <1>2, <1>6, <2>1, <2>2, <2>3 DEF Strip!Undo, p, f
<1> QED
  BY <1>5, <1>8

LEMMA RedoStep ==
    ASSUME EditorInv, RedoEdit
    PROVE  EditorInv' /\ Strip!Redo
<1> DEFINE p == history.past
           f == history.future
<1>1. PICK S : value \in S /\ p \in Seq(S) /\ f \in Seq(S)
  BY DEF EditorInv
<1>2. /\ f # <<>> /\ value' = Last(f) /\ outside' = outside
      /\ history' = [past |-> Append(p, value), future |-> Front(f)]
  BY DEF RedoEdit
<1>3. history'.past = Append(p, value) /\ history'.future = Front(f)
  BY <1>2
<1> HIDE DEF p, f
<1>4. /\ Front(f) \in Seq(S) /\ Last(f) \in S
      /\ Append(p, value) \in Seq(S) /\ Len(Append(p, value)) = Len(p) + 1
  BY <1>1, <1>2, FrontAndLast, AppendProperties
<1>5. EditorInv'
  <2>1. value' \in S /\ history' \in [past: Seq(S), future: Seq(S)]
    BY <1>2, <1>4
  <2> QED
    BY <2>1 DEF EditorInv
<1>6. StripOf(Append(p, value), Last(f), Front(f)) = StripOf(p, value, f)
  BY <1>1, <1>2, Redoes
<1>7. Len(p) \in Nat /\ Len(f) \in Nat \ {0} /\ Len(StripOf(p, value, f)) = Len(p) + 1 + Len(f)
  BY <1>1, <1>2, EmptySeq, StripLength
<1>8. Strip!Redo
  <2>1. p \o <<value>> \o Reverse(f) = StripOf(p, value, f)
    BY DEF StripOf
  <2>2. (p \o <<value>> \o Reverse(f))' = StripOf(Append(p, value), Last(f), Front(f))
    BY <1>2, <1>3 DEF StripOf, p, f
  <2>3. (Len(p) + 1)' = (Len(p) + 1) + 1 /\ Len(p) + 1 < Len(StripOf(p, value, f))
    BY <1>3, <1>4, <1>7 DEF p
  <2> QED
    BY <1>2, <1>6, <2>1, <2>2, <2>3 DEF Strip!Redo, p, f
<1> QED
  BY <1>5, <1>8

LEMMA OutsideStep ==
    ASSUME EditorInv, NEW sheet, ValueFromForm(sheet)
    PROVE  EditorInv' /\ Strip!FromOutside
<1> DEFINE p == history.past
           f == history.future
<1>1. PICK S : value \in S /\ p \in Seq(S) /\ f \in Seq(S)
  BY DEF EditorInv
<1>2. /\ sheet # value /\ value' = sheet /\ outside' = outside + 1
      /\ history' = [past |-> <<>>, future |-> <<>>]
  BY DEF ValueFromForm
<1>3. history'.past = <<>> /\ history'.future = <<>>
  BY <1>2
<1> HIDE DEF p, f
<1>4. sheet \in {sheet} /\ <<>> \in Seq({sheet}) /\ Len(<<>>) = 0
  OBVIOUS
<1>5. EditorInv'
  <2>1. value' \in {sheet} /\ history' \in [past: Seq({sheet}), future: Seq({sheet})]
    BY <1>2, <1>4
  <2> QED
    BY <2>1 DEF EditorInv
<1>6. Len(StripOf(<<>>, sheet, <<>>)) = 1 /\ StripOf(<<>>, sheet, <<>>)[1] = sheet
  <2>1. /\ Len(StripOf(<<>>, sheet, <<>>)) = Len(<<>>) + 1 + Len(<<>>)
        /\ StripOf(<<>>, sheet, <<>>)[Len(<<>>) + 1] = sheet
    BY <1>4, StripLength
  <2>2. Len(<<>>) + 1 = 1 /\ Len(<<>>) + 1 + Len(<<>>) = 1
    BY <1>4
  <2> QED
    BY <2>1, <2>2
<1>7. StripOf(p, value, f)[Len(p) + 1] = value
  BY <1>1, StripLength
<1>8. Strip!FromOutside
  <2>1. p \o <<value>> \o Reverse(f) = StripOf(p, value, f)
    BY DEF StripOf
  <2>2. (p \o <<value>> \o Reverse(f))' = StripOf(<<>>, sheet, <<>>)
    BY <1>2, <1>3 DEF StripOf, p, f
  <2>3. (Len(p) + 1)' = 1
    BY <1>3, <1>4 DEF p
  <2> QED
    BY <1>2, <1>6, <1>7, <2>1, <2>2, <2>3 DEF Strip!FromOutside, p, f
<1> QED
  BY <1>5, <1>8

-----------------------------------------------------------------------------
\* Every edit of the sheet is a commit; the other actions leave the strip alone.
LEMMA EditorMoves ==
    ASSUME EditorInv, EditorNext
    PROVE  EditorInv' /\ (Strip!Next \/ UNCHANGED <<value, history, outside>>)
<1>1. ASSUME NEW next, Commit(next) PROVE EditorInv' /\ Strip!Next
  BY <1>1, CommitStep DEF Strip!Next
<1>2. CASE UndoEdit
  BY <1>2, UndoStep DEF Strip!Next
<1>3. CASE RedoEdit
  BY <1>3, RedoStep DEF Strip!Next
<1>4. ASSUME UNCHANGED <<value, history, outside>> PROVE EditorInv'
  BY <1>4 DEF EditorInv
<1>5. CASE StartMoving \/ Unpick
  BY <1>4, <1>5 DEF StartMoving, Unpick
<1>6. CASE DropChord
  BY <1>1, <1>6 DEF DropChord
<1>7. CASE AddLine
  BY <1>1, <1>7 DEF AddLine
<1>8. ASSUME NEW sheet \in Sheets, ValueFromForm(sheet) PROVE EditorInv' /\ Strip!Next
  BY <1>8, OutsideStep DEF Strip!Next
<1>9. ASSUME NEW sheet \in Sheets, TypeSheet(sheet) PROVE EditorInv' /\ Strip!Next
  BY <1>1, <1>9 DEF TypeSheet
<1>10. ASSUME NEW name, EditChord(name) PROVE EditorInv' /\ Strip!Next
  BY <1>1, <1>10 DEF EditChord
<1>11. ASSUME NEW i, RemoveLine(i) PROVE EditorInv' /\ Strip!Next
  BY <1>1, <1>11 DEF RemoveLine
<1>12. ASSUME NEW i, NEW k, SelectMark(i, k)
       PROVE  EditorInv' /\ UNCHANGED <<value, history, outside>>
  BY <1>4, <1>12 DEF SelectMark
<1>13. ASSUME NEW i, NEW text, EditLyrics(i, text) PROVE EditorInv' /\ Strip!Next
  BY <1>1, <1>13 DEF EditLyrics
<1>14. ASSUME NEW i, NEW position, NEW name, ChoosePosition(i, position, name)
       PROVE  EditorInv' /\ Strip!Next
  BY <1>1, <1>14 DEF ChoosePosition
<1> QED
  BY <1>2, <1>3, <1>5, <1>6, <1>7, <1>8, <1>9, <1>10, <1>11, <1>12, <1>13, <1>14
  DEF EditorNext

\* Whatever mix of edits, undoing, redoing and sheets from the form, with any limit to
\* the history, the editor keeps one strip of versions and shows one of them
\* (VisualChordEditor, StripSpec).
THEOREM EditorIsStrip == EditorSpec => StripSpec
<1>1. EditorInv /\ [EditorNext]_editorVars => EditorInv' /\ [Strip!Next]_Strip!stripVars
  <2> SUFFICES ASSUME EditorInv, [EditorNext]_editorVars
               PROVE  EditorInv' /\ [Strip!Next]_Strip!stripVars
    OBVIOUS
  <2>1. ASSUME UNCHANGED <<value, history, outside>>
        PROVE  EditorInv' /\ UNCHANGED Strip!stripVars
    BY <2>1 DEF EditorInv, Strip!stripVars
  <2>2. CASE EditorNext
    BY <2>1, <2>2, EditorMoves
  <2>3. CASE UNCHANGED editorVars
    BY <2>1, <2>3 DEF editorVars
  <2> QED
    BY <2>2, <2>3
<1> QED
  BY <1>1, EditorInvInit, StripInit, PTL DEF EditorSpec, StripSpec, Strip!Spec
=============================================================================
