------------------------------ MODULE AppProofs ------------------------------
(***************************************************************************)
(* Proofs about what the app keeps and shows: NotificationList (the inbox  *)
(* has no gaps and no doubles), FormExit, SongPage, SongLibrary and        *)
(* ScheduleStore; and, with those of its session and of the chord editor,  *)
(* the types of MCClientSafety, which composes them.                       *)
(***************************************************************************)
EXTENDS MCClientSafety, SessionClientProofs, EditorProofs

-----------------------------------------------------------------------------
(***************************************************************************)
(* The inbox of the app, for any number of notifications and any size of   *)
(* pages. Without a sign-out between them at most one page is under way,   *)
(* and it goes on where the list ends; so the list reaches without a gap   *)
(* from the newest it was loaded with to the cursor. Merging rows by their *)
(* id keeps each once and loses none: what the code's map does to a        *)
(* sequence of rows is shown by taking the least place at which it would   *)
(* fail.                                                                   *)
(***************************************************************************)
LEMMA AppendOnce ==
    ASSUME NEW S, NEW s \in Seq(S), NEW n \in S, IsInjective(s), ~Contains(s, n)
    PROVE  /\ IsInjective(Append(s, n))
           /\ \A m \in S : Contains(Append(s, n), m) <=> m = n \/ Contains(s, m)
  BY DEF IsInjective, Contains

LEMMA ConsOnce ==
    ASSUME NEW S, NEW s \in Seq(S), NEW n \in S, IsInjective(s), ~Contains(s, n)
    PROVE  /\ <<n>> \o s \in Seq(S)
           /\ IsInjective(<<n>> \o s)
           /\ \A m \in S : Contains(s, m) => Contains(<<n>> \o s, m)
<1>1. <<n>> \in Seq(S) /\ Len(<<n>>) = 1 /\ <<n>>[1] = n
  OBVIOUS
<1> DEFINE t == <<n>> \o s
<1>2. /\ t \in Seq(S) /\ Len(t) = 1 + Len(s) /\ DOMAIN t = 1..Len(t)
      /\ \A i \in 1..Len(t) : t[i] = IF i = 1 THEN n ELSE s[i - 1]
  BY <1>1, ConcatProperties
<1>3. IsInjective(t)
  BY DEF IsInjective, Contains
<1> HIDE DEF t
<1>4. ASSUME NEW m \in S, Contains(s, m) PROVE Contains(t, m)
  <2>1. PICK i \in 1..Len(s) : s[i] = m
    BY <1>4 DEF Contains
  <2>2. i + 1 \in 1..Len(t) /\ t[i + 1] = m
    BY <1>2, <2>1
  <2> QED
    BY <2>2 DEF Contains
<1> QED
  BY <1>2, <1>3, <1>4 DEF t

KeptRow(xs, f, k) ==
    IF k = 0 THEN <<>>
    ELSE IF Contains(f[k - 1], xs[k]) THEN f[k - 1]
    ELSE Append(f[k - 1], xs[k])

KeepsRows(xs, f, n) == \A k \in 0..n : f[k] = KeptRow(xs, f, k)

RowsKeepable(S, xs, n) == \E f \in [0..n -> Seq(S)] : KeepsRows(xs, f, n)

LEMMA KeptExists ==
    ASSUME NEW S, NEW xs \in Seq(S), NEW n \in 0..Len(xs)
    PROVE  RowsKeepable(S, xs, n)
<1> DEFINE Bad == {m \in 0..Len(xs) : ~RowsKeepable(S, xs, m)}
<1> SUFFICES ASSUME Bad # {} PROVE FALSE
  OBVIOUS
<1>1. PICK m \in Bad : \A q \in Bad : m <= q
  <2>1. Bad \in SUBSET Nat
    OBVIOUS
  <2> QED
    BY <2>1, Least
<1>2. CASE m = 0
  <2> DEFINE f == [k \in 0..0 |-> <<>>]
  <2>1. f \in [0..0 -> Seq(S)]
    BY EmptySeq
  <2>2. KeepsRows(xs, f, 0)
    BY DEF KeptRow, KeepsRows
  <2> QED
    BY <1>1, <1>2, <2>1, <2>2 DEF RowsKeepable
<1>3. CASE m # 0
  <2>1. m - 1 \in 0..Len(xs) /\ ~(m <= m - 1)
    BY <1>1, <1>3
  <2>2. RowsKeepable(S, xs, m - 1)
    BY <1>1, <2>1
  <2>3. PICK f \in [0..(m - 1) -> Seq(S)] : KeepsRows(xs, f, m - 1)
    BY <2>2 DEF RowsKeepable
  <2> DEFINE g == [k \in 0..m |-> IF k = m THEN KeptRow(xs, f, m) ELSE f[k]]
  <2>4. xs[m] \in S
    BY <1>1, <1>3, ElementOfSeq
  <2>5. KeptRow(xs, f, m) \in Seq(S)
    BY <1>1, <1>3, <2>3, <2>4 DEF KeptRow
  <2>6. g \in [0..m -> Seq(S)]
    BY <1>1, <2>3, <2>5
  <2>7. \A k \in 0..m : g[k] = KeptRow(xs, g, k)
    <3> SUFFICES ASSUME NEW k \in 0..m PROVE g[k] = KeptRow(xs, g, k)
      OBVIOUS
    <3>1. CASE k = m
      <4>1. g[k - 1] = f[k - 1]
        BY <1>1, <1>3, <3>1
      <4> QED
        BY <3>1, <4>1 DEF KeptRow
    <3>2. CASE k # m
      <4>1. k \in 0..(m - 1) /\ (k # 0 => k - 1 \in 0..m /\ k - 1 # m)
        BY <1>1, <3>2
      <4>2. f[k] = KeptRow(xs, f, k)
        BY <2>3, <4>1 DEF KeepsRows
      <4> QED
        BY <3>2, <4>1, <4>2 DEF KeptRow
    <3> QED
      BY <3>1, <3>2
  <2> QED
    BY <1>1, <2>6, <2>7 DEF RowsKeepable, KeepsRows
<1> QED
  BY <1>2, <1>3

LEMMA ByIdIsKept ==
    ASSUME NEW S, NEW xs \in Seq(S)
    PROVE  \E f \in [0..Len(xs) -> Seq(S)] :
              KeepsRows(xs, f, Len(xs)) /\ ById(xs) = f[Len(xs)]
<1> DEFINE Body(f) == [k \in 0..Len(xs) |->
                         IF k = 0 THEN <<>>
                         ELSE IF Contains(f[k - 1], xs[k]) THEN f[k - 1]
                         ELSE Append(f[k - 1], xs[k])]
           kept == CHOOSE f : f = Body(f)
<1>1. ById(xs) = kept[Len(xs)]
  BY DEF ById
<1>2. PICK f \in [0..Len(xs) -> Seq(S)] : KeepsRows(xs, f, Len(xs))
  <2>1. Len(xs) \in 0..Len(xs)
    OBVIOUS
  <2> QED
    BY <2>1, KeptExists DEF RowsKeepable
<1>3. f = Body(f)
  BY <1>2 DEF KeptRow, KeepsRows
<1>4. kept = Body(kept)
  BY <1>3
<1> HIDE DEF kept
<1>5. KeepsRows(xs, kept, Len(xs)) /\ DOMAIN kept = 0..Len(xs)
  BY <1>4 DEF KeptRow, KeepsRows
<1> DEFINE Bad == {m \in 0..Len(xs) : kept[m] \notin Seq(S)}
<1>6. Bad = {}
  <2> SUFFICES ASSUME Bad # {} PROVE FALSE
    OBVIOUS
  <2>1. PICK m \in Bad : \A q \in Bad : m <= q
    <3>1. Bad \in SUBSET Nat
      OBVIOUS
    <3> QED
      BY <3>1, Least
  <2>2. kept[m] = KeptRow(xs, kept, m)
    BY <1>5, <2>1 DEF KeepsRows
  <2>3. m # 0
    BY <2>1, <2>2, EmptySeq DEF KeptRow
  <2>4. m - 1 \in 0..Len(xs) /\ ~(m <= m - 1)
    BY <2>1, <2>3
  <2>5. kept[m - 1] \in Seq(S)
    BY <2>1, <2>4
  <2>6. xs[m] \in S
    BY <2>1, <2>3, ElementOfSeq
  <2>7. kept[m] \in {kept[m - 1], Append(kept[m - 1], xs[m])}
    BY <2>2, <2>3 DEF KeptRow
  <2>8. Append(kept[m - 1], xs[m]) \in Seq(S)
    BY <2>5, <2>6
  <2> QED
    BY <2>1, <2>5, <2>7, <2>8
<1>7. kept \in [0..Len(xs) -> Seq(S)]
  <2>1. kept = [k \in 0..Len(xs) |-> kept[k]]
    BY <1>4
  <2>2. \A k \in 0..Len(xs) : kept[k] \in Seq(S)
    BY <1>6
  <2> QED
    BY <2>1, <2>2
<1> QED
  BY <1>1, <1>5, <1>7

\* What a Map by id keeps: everything, each thing once.
LEMMA ByIdKeeps ==
    ASSUME NEW S, NEW xs \in Seq(S)
    PROVE  /\ ById(xs) \in Seq(S)
           /\ IsInjective(ById(xs))
           /\ \A i \in 1..Len(xs) : Contains(ById(xs), xs[i])
<1>1. PICK f \in [0..Len(xs) -> Seq(S)] :
          KeepsRows(xs, f, Len(xs)) /\ ById(xs) = f[Len(xs)]
  BY ByIdIsKept
<1> DEFINE Fine(m) == /\ IsInjective(f[m])
                      /\ \A i \in 1..m : Contains(f[m], xs[i])
           Bad == {m \in 0..Len(xs) : ~Fine(m)}
<1>2. Bad = {}
  <2> SUFFICES ASSUME Bad # {} PROVE FALSE
    OBVIOUS
  <2> HIDE DEF Fine
  <2>1. PICK m \in Bad : \A q \in Bad : m <= q
    <3>1. Bad \in SUBSET Nat
      OBVIOUS
    <3> QED
      BY <3>1, Least
  <2>2. f[m] = KeptRow(xs, f, m)
    BY <1>1, <2>1 DEF KeepsRows
  <2>3. m # 0
    <3> SUFFICES ASSUME m = 0 PROVE Fine(m)
      BY <2>1
    <3>1. f[m] = <<>>
      BY <2>2 DEF KeptRow
    <3> QED
      BY <3>1 DEF Fine, IsInjective
  <2>4. m - 1 \in 0..Len(xs) /\ ~(m <= m - 1) /\ m \in 1..Len(xs)
    BY <2>1, <2>3
  <2>5. Fine(m - 1)
    BY <2>1, <2>4
  <2>6. xs[m] \in S
    BY <2>4, ElementOfSeq
  <2>7. f[m - 1] \in Seq(S)
    BY <1>1, <2>4
  <2>8. \A i \in 1..m : i = m \/ i \in 1..(m - 1)
    BY <2>4
  <2>9. CASE Contains(f[m - 1], xs[m])
    <3>1. f[m] = f[m - 1]
      BY <2>2, <2>3, <2>9 DEF KeptRow
    <3> QED
      BY <2>1, <2>5, <2>8, <2>9, <3>1 DEF Fine
  <2>10. CASE ~Contains(f[m - 1], xs[m])
    <3>1. f[m] = Append(f[m - 1], xs[m])
      BY <2>2, <2>3, <2>10 DEF KeptRow
    <3>2. IsInjective(f[m])
      BY <2>5, <2>6, <2>7, <2>10, <3>1, AppendOnce DEF Fine
    <3>3. \A x \in S : Contains(f[m], x) <=> x = xs[m] \/ Contains(f[m - 1], x)
      BY <2>5, <2>6, <2>7, <2>10, <3>1, AppendOnce DEF Fine
    <3>4. \A i \in 1..m : xs[i] \in S
      BY <2>4, ElementOfSeq
    <3>5. \A i \in 1..m : Contains(f[m], xs[i])
      BY <2>5, <2>8, <3>3, <3>4 DEF Fine
    <3> QED
      BY <2>1, <3>2, <3>5 DEF Fine
  <2> QED
    BY <2>9, <2>10
<1>3. Len(xs) \in 0..Len(xs)
  OBVIOUS
<1>4. Fine(Len(xs))
  BY <1>2, <1>3
<1> QED
  BY <1>1, <1>3, <1>4

LEMMA MergeKeepsAll ==
    ASSUME NEW S, NEW old \in Seq(S), NEW page \in Seq(S)
    PROVE  /\ Merge(old, page) \in Seq(S)
           /\ IsInjective(Merge(old, page))
           /\ \A n \in S : Contains(old, n) \/ Contains(page, n) => Contains(Merge(old, page), n)
<1> DEFINE xs == old \o page
<1>1. /\ xs \in Seq(S) /\ Len(xs) = Len(old) + Len(page)
      /\ \A i \in 1..Len(old) : i \in 1..Len(xs) /\ xs[i] = old[i]
      /\ \A i \in 1..Len(page) : /\ i + Len(old) \in 1..Len(xs)
                                 /\ xs[i + Len(old)] = page[i]
  BY ConcatProperties
<1>2. \A n \in S : Contains(old, n) \/ Contains(page, n)
                      => \E i \in 1..Len(xs) : xs[i] = n
  BY <1>1 DEF Contains
<1> HIDE DEF xs
<1>3. /\ ById(xs) \in Seq(S) /\ IsInjective(ById(xs))
      /\ \A i \in 1..Len(xs) : Contains(ById(xs), xs[i])
  BY <1>1, ByIdKeeps
<1>4. Merge(old, page) = ById(xs)
  BY DEF Merge, xs
<1> QED
  BY <1>2, <1>3, <1>4

-----------------------------------------------------------------------------
Notes == 1..MaxNotes

InboxLoads == [append: BOOLEAN, below: 0..MaxNotes, page: Seq(Notes), next: 0..MaxNotes,
              at: 0..MaxNotes, answered: BOOLEAN]

\* What remains to be shown from n on is loaded with the cursor c.
Reaches(s, c, m) == \A n \in 1..m : c = 0 \/ n >= c => Contains(s, n)

\* A request that was answered carries everything below where it began, down to the
\* next cursor.
PageIsWhole(r) ==
    /\ r.append => r.below # 0
    /\ ~r.append => r.below = 0
    /\ r.answered => /\ IsInjective(r.page)
                     /\ Reaches(r.page, r.next, IF r.append THEN r.below - 1 ELSE r.at)

WholeLoads == {r \in InboxLoads : PageIsWhole(r)}

ListShape ==
    /\ newest \in 0..MaxNotes /\ cursor \in 0..MaxNotes /\ since \in 0..MaxNotes
    /\ list \in Seq(Notes) /\ IsInjective(list)
    /\ loading \in BOOLEAN /\ crossed \in BOOLEAN
    /\ loads \in Seq(WholeLoads) /\ Len(loads) <= MaxLoads

\* Without a sign-out in between there is one request at a time, which goes on where
\* the list ends.
OneLoad ==
    ~crossed =>
        /\ Len(loads) <= 1
        /\ loading = (Len(loads) # 0)
        /\ \A i \in DOMAIN loads : loads[i].append => loads[i].below = cursor
        /\ Reaches(list, cursor, since)

InboxInv == ListShape /\ OneLoad

LEMMA PageReaches ==
    ASSUME NEW below \in 0..MaxNotes, newest \in 0..MaxNotes
    PROVE  /\ Page(below).rows \in Seq(Notes)
           /\ IsInjective(Page(below).rows)
           /\ Page(below).next \in 0..MaxNotes
           /\ Reaches(Page(below).rows, Page(below).next,
                      IF below = 0 THEN newest ELSE below - 1)
<1> DEFINE older == IF below = 0 THEN newest ELSE below - 1
           size == IF older < PageSize THEN older ELSE PageSize
           xs == [i \in 1..size |-> older + 1 - i]
           next == IF older > PageSize THEN older + 1 - size ELSE 0
<1>1. Page(below).rows = xs /\ Page(below).next = next
  BY DEF Page
<1>2. /\ older \in 0..MaxNotes
      /\ PageSize \in Nat \ {0} /\ MaxNotes \in Nat
  BY ListAssumption
<1> HIDE DEF older
<1>3. size \in Nat /\ size <= older
  BY <1>2
<1>4. next \in 0..MaxNotes /\ (next # 0 => next = older + 1 - size) /\ (next = 0 => size = older)
  BY <1>2
<1> HIDE DEF size, next
<1>5. xs \in Seq(Notes)
  <2>1. \A i \in 1..size : older + 1 - i \in Notes
    BY <1>2, <1>3 DEF Notes
  <2> QED
    BY <1>3, <2>1
<1>6. Len(xs) = size /\ DOMAIN xs = 1..size
  BY <1>3
<1>7. IsInjective(xs)
  BY <1>2, <1>3, <1>6 DEF IsInjective
<1>8. Reaches(xs, next, older)
  <2> SUFFICES ASSUME NEW n \in 1..older, next = 0 \/ n >= next PROVE Contains(xs, n)
    BY DEF Reaches
  <2>1. older + 1 - n \in 1..size
    BY <1>2, <1>3, <1>4
  <2>2. xs[older + 1 - n] = n
    BY <1>2, <2>1
  <2> QED
    BY <1>6, <2>1, <2>2 DEF Contains
<1> QED
  BY <1>1, <1>4, <1>5, <1>7, <1>8 DEF older

LEMMA RemoveOne ==
    ASSUME NEW S, NEW s \in Seq(S), NEW i \in 1..Len(s)
    PROVE  RemoveAt(s, i) \in Seq(S) /\ Len(RemoveAt(s, i)) = Len(s) - 1
<1> DEFINE before == SubSeq(s, 1, i - 1)
           after == SubSeq(s, i + 1, Len(s))
<1>1. before \in Seq(S) /\ Len(before) = i - 1
  OBVIOUS
<1>2. after \in Seq(S) /\ Len(after) = Len(s) - i
  OBVIOUS
<1>3. RemoveAt(s, i) = before \o after
  BY DEF RemoveAt
<1> HIDE DEF before, after
<1>4. before \o after \in Seq(S) /\ Len(before \o after) = Len(before) + Len(after)
  BY <1>1, <1>2, ConcatProperties
<1> QED
  BY <1>1, <1>2, <1>3, <1>4

LEMMA ReachesMore ==
    ASSUME NEW s, NEW t, NEW c, NEW m \in Nat, Reaches(s, c, m),
           \A n \in 1..m : Contains(s, n) => Contains(t, n)
    PROVE  Reaches(t, c, m)
  BY DEF Reaches

LEMMA ListInitInv == ListInit => InboxInv
<1> SUFFICES ASSUME ListInit PROVE InboxInv
  OBVIOUS
<1>1. <<>> \in Seq(Notes) /\ <<>> \in Seq(WholeLoads) /\ Len(<<>>) = 0 /\ IsInjective(<<>>)
  BY EmptySeq DEF IsInjective
<1>2. MaxNotes \in Nat /\ MaxLoads \in Nat
  BY ListAssumption
<1>3. list = <<>> /\ loads = <<>> /\ newest = 0 /\ cursor = 0 /\ since = 0
  BY DEF ListInit
<1>4. loading = FALSE /\ crossed = FALSE
  BY Zenon DEF ListInit
<1>5. ListShape
  <2>1. loading \in BOOLEAN /\ crossed \in BOOLEAN
    BY <1>4
  <2> QED
    BY <1>1, <1>2, <1>3, <2>1 DEF ListShape
<1>6. Len(loads) <= 1 /\ Len(loads) = 0 /\ DOMAIN loads = {}
  BY <1>1, <1>3
<1>7. Reaches(list, cursor, since)
  BY <1>3 DEF Reaches
<1> QED
  BY <1>4, <1>5, <1>6, <1>7 DEF InboxInv, OneLoad

LEMMA ListNextInv == InboxInv /\ [ListNext]_listVars => InboxInv'
<1> SUFFICES ASSUME InboxInv, [ListNext]_listVars PROVE InboxInv'
  OBVIOUS
<1> USE ListAssumption
<1>1. CASE UNCHANGED listVars
  BY <1>1 DEF listVars, InboxInv, ListShape, OneLoad
<1>2. CASE NotificationCreated
  <2>1. newest' \in 0..MaxNotes
    BY <1>2 DEF NotificationCreated, InboxInv, ListShape
  <2> QED
    BY <1>2, <2>1 DEF NotificationCreated, InboxInv, ListShape, OneLoad
<1>3. ASSUME NEW append \in BOOLEAN, Load(append) PROVE InboxInv'
  <2>1. Asked(append) \in WholeLoads
    <3> DEFINE b == IF append THEN cursor ELSE 0
    <3>1. b \in 0..MaxNotes /\ (append => b # 0) /\ (~append => b = 0)
      BY <1>3 DEF Load, InboxInv, ListShape
    <3>2. <<>> \in Seq(Notes)
      BY EmptySeq
    <3> HIDE DEF b
    <3> DEFINE r == [append |-> append, below |-> b, page |-> <<>>, next |-> 0,
                     at |-> 0, answered |-> FALSE]
    <3>3. r \in InboxLoads
      BY <3>1, <3>2 DEF InboxLoads
    <3>4. PageIsWhole(r)
      BY <3>1 DEF PageIsWhole
    <3>5. r \in WholeLoads
      BY <3>3, <3>4 DEF WholeLoads
    <3> QED
      BY <3>5 DEF Asked, b
  <2>2. loads' = Append(loads, Asked(append))
    BY <1>3 DEF Load
  <2>3. loads' \in Seq(WholeLoads) /\ Len(loads') = Len(loads) + 1
    BY <2>1, <2>2, AppendProperties DEF InboxInv, ListShape
  <2>4. ListShape'
    BY <1>3, <2>3 DEF Load, InboxInv, ListShape
  <2>5. OneLoad'
    <3> SUFFICES ASSUME ~crossed' PROVE OneLoad'
      BY DEF OneLoad
    <3>1. ~crossed /\ ~loading /\ Len(loads) = 0
      BY <1>3, Zenon DEF Load, InboxInv, OneLoad
    <3>2. Reaches(list, cursor, since)'
      BY <1>3, <3>1 DEF Load, InboxInv, OneLoad
    <3>3. Len(loads') = 1 /\ loads'[1] = Asked(append)
      BY <2>2, <2>3, <3>1 DEF InboxInv, ListShape
    <3>4. \A i \in DOMAIN loads' : i = 1
      <4>1. DOMAIN loads' = 1..Len(loads')
        BY <2>3, LenProperties
      <4> QED
        BY <3>3, <4>1
    <3>5. Asked(append).append = append /\ (append => Asked(append).below = cursor)
      BY DEF Asked
    <3>6. \A i \in DOMAIN loads' : loads'[i].append => loads'[i].below = cursor'
      BY <1>3, <3>3, <3>4, <3>5 DEF Load
    <3>7. loading' = (Len(loads') # 0)
      <4>1. loading' = TRUE
        BY <1>3, Zenon DEF Load
      <4>2. Len(loads') # 0
        BY <3>3
      <4> QED
        BY <4>1, <4>2
    <3>8. Len(loads') <= 1
      BY <3>3
    <3> QED
      BY <3>2, <3>6, <3>7, <3>8 DEF OneLoad
  <2> QED
    BY <2>4, <2>5 DEF InboxInv
<1>4. ASSUME NEW i \in 1..MaxLoads, AnswerList(i) PROVE InboxInv'
  <2> DEFINE r == loads[i]
             p == Page(r.below)
             q == [r EXCEPT !.page = p.rows, !.next = p.next, !.at = newest, !.answered = TRUE]
  <2>1. i \in 1..Len(loads) /\ r \in WholeLoads
    BY <1>4, ElementOfSeq DEF AnswerList, InboxInv, ListShape
  <2>2. r \in InboxLoads /\ (r.append => r.below # 0) /\ (~r.append => r.below = 0)
    BY <2>1 DEF WholeLoads, PageIsWhole
  <2>3. r.below \in 0..MaxNotes /\ newest \in 0..MaxNotes
    BY <2>2 DEF InboxLoads, InboxInv, ListShape
  <2>4. /\ p.rows \in Seq(Notes) /\ IsInjective(p.rows) /\ p.next \in 0..MaxNotes
        /\ Reaches(p.rows, p.next, IF r.below = 0 THEN newest ELSE r.below - 1)
    BY <2>3, PageReaches
  <2> HIDE DEF p
  <2>5. q \in InboxLoads
    BY <2>2, <2>3, <2>4 DEF InboxLoads
  <2>6. /\ q.append = r.append /\ q.below = r.below /\ q.page = p.rows
        /\ q.next = p.next /\ q.at = newest
    BY <2>2 DEF InboxLoads
  <2>7. PageIsWhole(q)
    BY <2>2, <2>4, <2>6 DEF PageIsWhole
  <2>8. q \in WholeLoads
    BY <2>5, <2>7 DEF WholeLoads
  <2>9. loads' = [loads EXCEPT ![i] = q]
    BY <1>4 DEF AnswerList, p
  <2> HIDE DEF q, r
  <2>10. /\ loads' \in Seq(WholeLoads) /\ Len(loads') = Len(loads)
         /\ \A j \in 1..Len(loads) : loads'[j] = IF j = i THEN q ELSE loads[j]
    BY <2>1, <2>8, <2>9, ExceptSeq DEF InboxInv, ListShape
  <2>11. \A j \in DOMAIN loads' : /\ j \in DOMAIN loads
                                  /\ loads'[j].append = loads[j].append
                                  /\ loads'[j].below = loads[j].below
    BY <2>6, <2>10 DEF r, InboxInv, ListShape
  <2> QED
    BY <1>4, <2>10, <2>11 DEF AnswerList, InboxInv, ListShape, OneLoad
<1>5. ASSUME NEW i \in 1..MaxLoads, ApplyPage(i) PROVE InboxInv'
  <2> DEFINE r == loads[i]
  <2>1. i \in 1..Len(loads) /\ r \in WholeLoads
    BY <1>5, ElementOfSeq DEF ApplyPage, InboxInv, ListShape
  <2>2. r \in InboxLoads /\ r.answered /\ PageIsWhole(r)
    BY <1>5, <2>1 DEF WholeLoads, ApplyPage
  <2>3. /\ r.page \in Seq(Notes) /\ IsInjective(r.page)
        /\ r.next \in 0..MaxNotes /\ r.at \in 0..MaxNotes
        /\ Reaches(r.page, r.next, IF r.append THEN r.below - 1 ELSE r.at)
    BY <2>2 DEF InboxLoads, PageIsWhole
  <2>4. loads' \in Seq(WholeLoads) /\ Len(loads') = Len(loads) - 1
    BY <1>5, <2>1, RemoveOne DEF ApplyPage, InboxInv, ListShape
  <2>5. /\ list' = IF r.append THEN Merge(list, r.page) ELSE r.page
        /\ cursor' = r.next /\ since' = IF r.append THEN since ELSE r.at
        /\ newest' = newest
    BY <1>5 DEF ApplyPage
  <2>6. loading' = FALSE /\ crossed' = crossed
    BY <1>5, Zenon DEF ApplyPage
  <2>7. /\ Merge(list, r.page) \in Seq(Notes) /\ IsInjective(Merge(list, r.page))
        /\ \A n \in Notes : Contains(list, n) \/ Contains(r.page, n)
                              => Contains(Merge(list, r.page), n)
    BY <2>3, MergeKeepsAll DEF InboxInv, ListShape
  <2>8. list' \in Seq(Notes) /\ IsInjective(list')
    BY <2>3, <2>5, <2>7
  <2>9. ListShape'
    <3>1. loading' \in BOOLEAN /\ crossed' \in BOOLEAN
      BY <2>6 DEF InboxInv, ListShape
    <3>2. Len(loads') <= MaxLoads
      BY <2>4 DEF InboxInv, ListShape
    <3>3. cursor' \in 0..MaxNotes /\ since' \in 0..MaxNotes /\ newest' \in 0..MaxNotes
      BY <2>3, <2>5 DEF InboxInv, ListShape
    <3> QED
      BY <2>4, <2>8, <3>1, <3>2, <3>3 DEF ListShape
  <2>10. OneLoad'
    <3> SUFFICES ASSUME ~crossed' PROVE OneLoad'
      BY DEF OneLoad
    <3>1. ~crossed /\ Len(loads) <= 1 /\ (r.append => r.below = cursor)
      BY <2>1, <2>6 DEF InboxInv, OneLoad, ListShape
    <3>2. Len(loads') = 0 /\ Len(loads') <= 1 /\ DOMAIN loads' = {}
      BY <2>1, <2>4, <3>1 DEF InboxInv, ListShape
    <3>3. Reaches(list', cursor', since')
      <4>1. CASE ~r.append
        BY <2>3, <2>5, <4>1
      <4>2. CASE r.append
        <5> SUFFICES ASSUME NEW n \in 1..since, r.next = 0 \/ n >= r.next
                     PROVE  Contains(Merge(list, r.page), n)
          BY <2>5, <4>2 DEF Reaches
        <5>1. n \in Notes
          BY DEF Notes, InboxInv, ListShape
        <5>2. r.below # 0 /\ r.below = cursor /\ cursor \in 0..MaxNotes
          BY <2>2, <3>1, <4>2 DEF PageIsWhole, InboxInv, ListShape
        <5>3. CASE n >= cursor
          BY <2>7, <3>1, <5>1, <5>3 DEF InboxInv, OneLoad, Reaches
        <5>4. CASE ~(n >= cursor)
          <6>1. n \in 1..(r.below - 1)
            BY <5>2, <5>4, <5>1 DEF Notes
          <6>2. Contains(r.page, n)
            BY <2>3, <4>2, <6>1 DEF Reaches
          <6> QED
            BY <2>7, <5>1, <6>2
        <5> QED
          BY <5>3, <5>4
      <4> QED
        BY <4>1, <4>2
    <3> QED
      BY <2>6, <3>2, <3>3 DEF OneLoad
  <2> QED
    BY <2>9, <2>10 DEF InboxInv
<1>6. ASSUME NEW i \in 1..MaxLoads, LoadFails(i) PROVE InboxInv'
  <2>1. i \in 1..Len(loads)
    BY <1>6 DEF LoadFails, InboxInv, ListShape
  <2>2. loads' \in Seq(WholeLoads) /\ Len(loads') = Len(loads) - 1
    BY <1>6, <2>1, RemoveOne DEF LoadFails, InboxInv, ListShape
  <2>3. loading' = FALSE /\ crossed' = crossed
    BY <1>6, Zenon DEF LoadFails
  <2>4. ListShape'
    <3>1. loading' \in BOOLEAN /\ crossed' \in BOOLEAN
      BY <2>3 DEF InboxInv, ListShape
    <3>2. Len(loads') <= MaxLoads
      BY <2>2 DEF InboxInv, ListShape
    <3> QED
      BY <1>6, <2>2, <3>1, <3>2 DEF LoadFails, InboxInv, ListShape
  <2>5. OneLoad'
    <3> SUFFICES ASSUME ~crossed' PROVE OneLoad'
      BY DEF OneLoad
    <3>1. ~crossed /\ Len(loads) <= 1
      BY <2>3 DEF InboxInv, OneLoad
    <3>2. Len(loads') = 0 /\ Len(loads') <= 1 /\ DOMAIN loads' = {}
      BY <2>1, <2>2, <3>1 DEF InboxInv, ListShape
    <3>3. Reaches(list, cursor, since)'
      BY <1>6, <3>1 DEF LoadFails, InboxInv, OneLoad
    <3> QED
      BY <2>3, <3>2, <3>3 DEF OneLoad
  <2> QED
    BY <2>4, <2>5 DEF InboxInv
<1>7. ASSUME NEW n \in 1..MaxNotes, OnMessage(n) PROVE InboxInv'
  <2>1. CASE Contains(list, n)
    <3>1. list' = list
      BY <1>7, <2>1 DEF OnMessage
    <3> QED
      BY <1>7, <3>1 DEF OnMessage, InboxInv, ListShape, OneLoad
  <2>2. CASE ~Contains(list, n)
    <3>1. list' = <<n>> \o list
      BY <1>7, <2>2 DEF OnMessage
    <3>2. list \in Seq(Notes) /\ IsInjective(list) /\ n \in Notes
      BY DEF InboxInv, ListShape, Notes
    <3>3. list' \in Seq(Notes) /\ IsInjective(list')
      BY <2>2, <3>1, <3>2, ConsOnce
    <3>4. \A m \in Notes : Contains(list, m) => Contains(list', m)
      BY <2>2, <3>1, <3>2, ConsOnce
    <3>5. ListShape'
      BY <1>7, <3>3 DEF OnMessage, InboxInv, ListShape
    <3>6. OneLoad'
      <4> SUFFICES ASSUME ~crossed' PROVE OneLoad'
        BY DEF OneLoad
      <4>1. ~crossed
        BY <1>7 DEF OnMessage
      <4>2. Reaches(list, cursor, since) /\ since \in 0..MaxNotes
        BY <4>1 DEF InboxInv, OneLoad, ListShape
      <4>3. Reaches(list', cursor, since)
        BY <3>4, <4>2 DEF Reaches, Notes
      <4> QED
        BY <1>7, <4>1, <4>3 DEF OnMessage, InboxInv, OneLoad
    <3> QED
      BY <3>5, <3>6 DEF InboxInv
  <2> QED
    BY <2>1, <2>2
<1>8. CASE Reset
  <2>1. list' = <<>> /\ cursor' = 0 /\ since' = 0 /\ loads' = loads /\ newest' = newest
    BY <1>8 DEF Reset
  <2>2. loading' = FALSE /\ crossed' = (crossed \/ loads # <<>>)
    BY <1>8, Zenon DEF Reset
  <2>3. <<>> \in Seq(Notes) /\ IsInjective(<<>>)
    BY EmptySeq DEF IsInjective
  <2>4. crossed' \in BOOLEAN /\ loading' \in BOOLEAN
    BY <2>2
  <2>5. ListShape'
    BY <2>1, <2>3, <2>4 DEF InboxInv, ListShape
  <2>6. OneLoad'
    <3> SUFFICES ASSUME ~crossed' PROVE OneLoad'
      BY DEF OneLoad
    <3>1. ~crossed /\ loads = <<>>
      BY <2>2
    <3>2. Len(loads') = 0 /\ Len(loads') <= 1 /\ DOMAIN loads' = {}
      BY <2>1, <3>1
    <3>3. Reaches(list', cursor', since')
      BY <2>1 DEF Reaches
    <3> QED
      BY <2>2, <3>2, <3>3 DEF OneLoad
  <2> QED
    BY <2>5, <2>6 DEF InboxInv
<1> QED
  BY <1>1, <1>2, <1>3, <1>4, <1>5, <1>6, <1>7, <1>8 DEF ListNext

\* The variables of the inbox have their types; rows in the list are distinct.
THEOREM ListTypes == ListSpec => []ListTypeOK
<1>1. InboxInv => ListTypeOK
  <2> SUFFICES ASSUME InboxInv PROVE ListTypeOK
    OBVIOUS
  <2>1. {loading, crossed} \subseteq BOOLEAN
    BY Zenon DEF InboxInv, ListShape
  <2> QED
    BY <2>1 DEF InboxInv, ListShape, ListTypeOK, Notes
<1> QED
  BY ListInitInv, ListNextInv, <1>1, PTL DEF ListSpec

\* For any number of notifications and any page size, without a sign-out in between the
\* inbox shows every notification it has reached once and leaves out none
\* (notificationStore, InboxShownOnce).
THEOREM ShownOnce == ListSpec => []InboxShownOnce
<1>1. InboxInv => InboxShownOnce
  BY DEF InboxInv, ListShape, OneLoad, Reaches, InboxShownOnce
<1> QED
  BY ListInitInv, ListNextInv, <1>1, PTL DEF ListSpec

-----------------------------------------------------------------------------
(***************************************************************************)
(* Forms. Leave to go without a question is not given while there are      *)
(* changes on the screen, unless they were made during the save that gave  *)
(* it; and what is being kept or discarded is what the covered form holds. *)
(***************************************************************************)
\* What is being kept or discarded is what the covered form holds.
AskedAboutTheForm ==
    task.doing \in {"keep", "discard"} => form.pending /\ task.value = form.value

\* Leave to go without a question, with changes on the screen, was given by a save that
\* they were made during.
LeaveHidesLateChanges == Dirty /\ form.allowed => late

FormInv ==
    /\ FormTypeOK /\ (form.pending => form.focused)
    /\ AskedAboutTheForm /\ LeaveHidesLateChanges

FormExits ==
    (form.focused /\ ~form'.focused) =>
          \/ form.baseline = NoValue \/ form.value = form.baseline
          \/ task.doing \in {"save", "discard"} /\ task' = NoTask
          \/ draft'.stored = form.value
          \/ late

LEMMA FormInitInv == FormInit => FormInv
<1> SUFFICES ASSUME FormInit PROVE FormInv
  OBVIOUS
<1>1. FormTypeOK
  <2>1. PICK v \in FormValues :
            form = [focused |-> FALSE, value |-> v, baseline |-> NoValue, initial |-> NoValue,
                    allowed |-> FALSE, pending |-> FALSE]
    BY DEF FormInit
  <2>2. form \in [focused: BOOLEAN, value: FormValues, baseline: FormValues \cup {NoValue},
                  initial: FormValues \cup {NoValue}, allowed: BOOLEAN, pending: BOOLEAN]
    BY <2>1
  <2>3. draft \in [stored: FormValues \cup {NoValue}, found: FormValues \cup {NoValue},
                   reading: BOOLEAN]
    BY DEF FormInit
  <2>4. /\ task \in [doing: {"none", "save", "keep", "discard"}, value: FormValues \cup {NoValue}]
        /\ late \in BOOLEAN
    BY Zenon DEF FormInit, NoTask
  <2> QED
    BY <2>2, <2>3, <2>4 DEF FormTypeOK
<1>2. /\ ~form.focused /\ ~form.pending /\ task.doing = "none"
  BY DEF FormInit, NoTask
<1> QED
  BY <1>1, <1>2 DEF FormInv, AskedAboutTheForm, LeaveHidesLateChanges, Dirty

LEMMA FormStep ==
    ASSUME FormInv, [FormNext]_formVars PROVE FormInv' /\ FormExits
<1> USE FormAssumption DEF FormInv, FormTypeOK, AskedAboutTheForm, LeaveHidesLateChanges,
        Dirty, Dialog, FormExits, NoTask
<1>1. CASE Focus
  BY <1>1 DEF Focus
<1>2. CASE Ready
  BY <1>2 DEF Ready
<1>3. CASE DraftRead
  BY <1>3 DEF DraftRead
<1>4. CASE RequestFormNavigation
  BY <1>4 DEF RequestFormNavigation, Left, DraftLeft
<1>5. CASE StayHere
  BY <1>5 DEF StayHere
<1>6. ASSUME NEW v \in FormValues, Edit(v) PROVE FormInv' /\ FormExits
  BY <1>6 DEF Edit, Holding
<1>7. CASE StartFormSave
  BY <1>7 DEF StartFormSave
<1>8. CASE FormSaveFails
  BY <1>8 DEF FormSaveFails
<1>9. CASE CompleteAway
  BY <1>9 DEF CompleteAway
<1>10. ASSUME NEW stays \in BOOLEAN, Complete(stays) PROVE FormInv' /\ FormExits
  BY <1>10 DEF Complete, Left, DraftLeft
<1>11. ASSUME NEW keep \in BOOLEAN, ChooseToLeave(keep) PROVE FormInv' /\ FormExits
  BY <1>11 DEF ChooseToLeave
<1>12. CASE Leave
  BY <1>12 DEF Leave, Left, DraftLeft
<1>13. CASE LeaveFails
  BY <1>13 DEF LeaveFails
<1>14. CASE RecoverDraft
  BY <1>14 DEF RecoverDraft, Holding
<1>15. CASE DiscardDraft
  BY <1>15 DEF DiscardDraft
<1>16. CASE UNCHANGED formVars
  BY <1>16 DEF formVars
<1> QED
  BY <1>1, <1>2, <1>3, <1>4, <1>5, <1>6, <1>7, <1>8, <1>9, <1>10, <1>11, <1>12, <1>13,
     <1>14, <1>15, <1>16 DEF FormNext

LEMMA FormInductive == FormSpec => []FormInv
  BY FormInitInv, FormStep, PTL DEF FormSpec

\* The variables of every form have their types.
THEOREM FormTypes == FormSpec => []FormTypeOK
<1>1. FormInv => FormTypeOK
  BY DEF FormInv
<1> QED
  BY <1>1, FormInductive, PTL

\* Whatever is awaited while the user goes on, changes leave the screen without having
\* been saved or kept as a draft only when the user chose so, or when they were made
\* during the save (useFormExit, EditsAreLostByChoice).
THEOREM EditsLostByChoice == FormSpec => EditsAreLostByChoice
<1>1. FormInv /\ [FormNext]_formVars => [FormExits]_formVars
  BY FormStep
<1> QED
  BY <1>1, FormInductive, PTL DEF FormSpec, EditsAreLostByChoice, FormExits

-----------------------------------------------------------------------------
(***************************************************************************)
(* The page of a song. One save of a key at a time is under way, and the   *)
(* offset shown is that of the active song; so the page stops being true   *)
(* only when a save for another song comes late.                           *)
(***************************************************************************)
MaybeSong == PageSongs \cup {NoSong}
Details == [shown: [song: MaybeSong, tone: Int], requested: MaybeSong,
            loading: BOOLEAN, failed: BOOLEAN]
SongLoads == [song: PageSongs, opened: Int, tone: Int]
KeySaves == [song: PageSongs, done: BOOLEAN, tone: 0..(Tones - 1)]
Chords == [active: MaybeSong, original: Int, offset: Offsets, offsets: [PageSongs -> Offsets]]

PageShape ==
    /\ catalog \in [PageSongs -> 0..(Tones - 1)]
    /\ route \in MaybeSong
    /\ detail \in Details
    /\ songLoads \subseteq SongLoads
    /\ keySave \subseteq KeySaves
    /\ chord \in Chords
    /\ opened \in 0..MaxOpened

\* The offset shown is that of the active song, and none before a song was opened.
OffsetOfActive == chord.offset = IF chord.active = NoSong THEN 0 ELSE chord.offsets[chord.active]

OneKeySave == keySave = {} \/ \E k \in KeySaves : keySave = {k}

PageInv == PageShape /\ OffsetOfActive /\ OneKeySave

Stranding ==
    /\ opened' # opened => PageIsTrue'
    /\ PageIsTrue /\ ~PageIsTrue' => \E k \in keySave : KeySaved(k) /\ k.song # route

-----------------------------------------------------------------------------
LEMMA PageInitInv == PageInit => PageInv
<1> SUFFICES ASSUME PageInit PROVE PageInv
  OBVIOUS
<1> USE PageAssumption
<1>1. 0 \in Offsets /\ 0 \in 0..(Tones - 1)
  BY DEF Offsets
<1>2. chord \in Chords
  BY <1>1 DEF PageInit, Chords, MaybeSong
<1>3. detail \in Details
  BY DEF PageInit, Details, MaybeSong, NoDetail
<1>4. PageShape
  BY <1>1, <1>2, <1>3 DEF PageInit, PageShape, MaybeSong
<1>5. OffsetOfActive /\ OneKeySave
  BY DEF PageInit, OffsetOfActive, OneKeySave
<1> QED
  BY <1>4, <1>5 DEF PageInv

\* The page comes to show a song: its own offset goes with it.
LEMMA InitializedInv ==
    ASSUME PageInv, NEW song \in PageSongs, NEW tone \in Int,
           chord' = Initialized(song, tone)
    PROVE  chord' \in Chords /\ OffsetOfActive'
<1>1. chord \in Chords /\ chord.offsets[song] \in Offsets
  BY DEF PageInv, PageShape, Chords
<1>2. chord' \in Chords /\ chord'.active = song /\ chord'.offset = chord'.offsets[song]
  BY <1>1 DEF Initialized, Chords, MaybeSong
<1> QED
  BY <1>2, PageAssumption DEF OffsetOfActive

LEMMA SetOffsetInv ==
    ASSUME PageInv, NEW offset \in Offsets, SetOffset(offset), chord.active # NoSong
    PROVE  chord' \in Chords /\ OffsetOfActive'
<1>1. chord.active \in PageSongs /\ chord \in Chords
  BY DEF PageInv, PageShape, Chords, MaybeSong
<1>2. /\ chord' \in Chords /\ chord'.active = chord.active
      /\ chord'.offset = offset /\ chord'.offsets[chord.active] = offset
  BY <1>1 DEF SetOffset, Chords
<1> QED
  BY <1>2 DEF OffsetOfActive

\* Nothing that the page is judged by changes, but an answered load.
LEMMA PageStays ==
    ASSUME UNCHANGED <<route, detail, opened>>,
           \A l \in songLoads : \E m \in songLoads' : m.song = l.song
    PROVE  Stranding
  BY DEF Stranding, PageIsTrue, PageState

\* A page whose own song was asked for and is being loaded.
LEMMA PageOpened ==
    ASSUME NEW song \in PageSongs, route' = song, detail'.requested = song,
           detail'.loading = TRUE, \E l \in songLoads' : l.song = song
    PROVE  PageIsTrue'
<1>1. PageState' \in {"ready", "loading"}
  BY DEF PageState
<1> QED
  BY <1>1 DEF PageIsTrue

LEMMA PageStep ==
    ASSUME PageInv, [PageNext]_pageVars
    PROVE  PageInv' /\ Stranding
<1> DEFINE Done == PageInv' /\ Stranding
<1> SUFFICES Done
  OBVIOUS
<1>1. /\ catalog \in [PageSongs -> 0..(Tones - 1)] /\ route \in MaybeSong
      /\ detail \in Details /\ songLoads \subseteq SongLoads /\ keySave \subseteq KeySaves
      /\ chord \in Chords /\ opened \in 0..MaxOpened
  BY DEF PageInv, PageShape
<1>2. ASSUME NEW s \in PageSongs, NEW tone \in 0..(Tones - 1), OpenSong(s, tone) PROVE Done
  <2> DEFINE l == [song |-> s, opened |-> opened, tone |-> -1]
  <2>1. l \in SongLoads /\ l \in songLoads' /\ songLoads' \subseteq SongLoads
    BY <1>1, <1>2 DEF OpenSong, SongLoads
  <2>2. /\ detail' \in Details /\ route' \in MaybeSong /\ opened' \in 0..MaxOpened
    BY <1>1, <1>2, PageAssumption DEF OpenSong, Details, MaybeSong
  <2>3. chord' \in Chords /\ OffsetOfActive'
    BY <1>2, PageAssumption, InitializedInv DEF OpenSong
  <2>4. PageInv'
    BY <1>1, <1>2, <2>1, <2>2, <2>3 DEF OpenSong, PageInv, PageShape, OneKeySave
  <2>5. PageIsTrue'
    BY <1>2, <2>1, PageOpened DEF OpenSong
  <2> QED
    BY <2>4, <2>5 DEF Stranding
<1>3. ASSUME NEW s \in PageSongs, NEW tone \in 0..(Tones - 1), FollowLink(s, tone) PROVE Done
  <2> DEFINE l == [song |-> s, opened |-> opened, tone |-> -1]
  <2>1. l \in SongLoads /\ l \in songLoads' /\ songLoads' \subseteq SongLoads
    BY <1>1, <1>3 DEF FollowLink, SongLoads
  <2>2. PICK cached \in {detail.shown, NoDetail, [song |-> s, tone |-> tone]} :
            /\ detail' = [shown |-> cached, requested |-> s, loading |-> TRUE,
                          failed |-> FALSE]
            /\ chord' = ShownOn(cached.song, s, cached.tone)
    BY <1>3 DEF FollowLink
  <2>3. cached \in [song: MaybeSong, tone: Int]
    BY <1>1, PageAssumption DEF Details, NoDetail, MaybeSong
  <2>4. detail' \in Details /\ route' \in MaybeSong /\ opened' \in 0..MaxOpened
    BY <1>1, <1>3, <2>2, <2>3, PageAssumption DEF FollowLink, Details, MaybeSong
  <2>5. chord' \in Chords /\ OffsetOfActive'
    <3>1. CASE cached.song = s
      BY <2>2, <2>3, <3>1, InitializedInv DEF ShownOn
    <3>2. CASE cached.song # s
      BY <2>2, <3>2 DEF ShownOn, PageInv, PageShape, OffsetOfActive
    <3> QED
      BY <3>1, <3>2
  <2>6. PageInv'
    BY <1>1, <1>3, <2>1, <2>4, <2>5 DEF FollowLink, PageInv, PageShape, OneKeySave
  <2>7. PageIsTrue'
    BY <1>3, <2>1, <2>2, PageOpened DEF FollowLink
  <2> QED
    BY <2>6, <2>7 DEF Stranding
<1>4. CASE LeavePage
  <2>1. PageInv'
    BY <1>4 DEF LeavePage, PageInv, PageShape, OffsetOfActive, OneKeySave, MaybeSong
  <2>2. PageIsTrue' /\ opened' = opened
    BY <1>4 DEF LeavePage, PageIsTrue
  <2> QED
    BY <2>1, <2>2 DEF Stranding
<1>5. CASE ResetTranspose
  <2>1. chord' \in Chords /\ OffsetOfActive'
    BY <1>5, SetOffsetInv, PageAssumption DEF ResetTranspose, Offsets
  <2>2. PageInv'
    BY <1>1, <1>5, <2>1 DEF ResetTranspose, PageInv, PageShape, OneKeySave
  <2> QED
    BY <2>2, <1>5, PageStays DEF ResetTranspose
<1>6. ASSUME NEW delta \in {-1, 1}, Transpose(delta) PROVE Done
  <2>1. chord' \in Chords /\ OffsetOfActive'
    BY <1>6, SetOffsetInv DEF Transpose
  <2>2. PageInv'
    BY <1>1, <1>6, <2>1 DEF Transpose, PageInv, PageShape, OneKeySave
  <2> QED
    BY <2>2, <1>6, PageStays DEF Transpose
<1>7. CASE SaveDefaultKey
  <2> DEFINE k == [song |-> route, done |-> FALSE,
                   tone |-> Transposed(chord.original, chord.offset)]
  <2>1. Transposed(chord.original, chord.offset) \in 0..(Tones - 1)
    <3>1. chord.original + chord.offset + Tones \in Int
      BY <1>1, PageAssumption DEF Chords, Offsets
    <3> QED
      BY <3>1, PageAssumption DEF Transposed
  <2>2. route \in PageSongs
    BY <1>1, <1>7 DEF SaveDefaultKey, PageInv, OffsetOfActive, MaybeSong
  <2>3. k \in KeySaves /\ keySave' = {k}
    BY <1>7, <2>1, <2>2 DEF SaveDefaultKey, KeySaves
  <2>4. PageInv'
    BY <1>1, <1>7, <2>3 DEF SaveDefaultKey, PageInv, PageShape, OffsetOfActive, OneKeySave
  <2> QED
    BY <2>4, <1>7, PageStays DEF SaveDefaultKey
<1>8. ASSUME NEW l \in songLoads, ServerGetsSong(l) PROVE Done
  <2> DEFINE m == [l EXCEPT !.tone = catalog[l.song]]
  <2>1. m \in SongLoads /\ m.song = l.song
    BY <1>1, PageAssumption DEF SongLoads
  <2>2. songLoads' = (songLoads \ {l}) \cup {m}
    BY <1>8 DEF ServerGetsSong
  <2> HIDE DEF m
  <2>3. PageInv'
    BY <1>1, <1>8, <2>1, <2>2
       DEF ServerGetsSong, PageInv, PageShape, OffsetOfActive, OneKeySave
  <2>4. \A o \in songLoads : \E n \in songLoads' : n.song = o.song
    BY <2>1, <2>2
  <2> QED
    BY <2>3, <2>4, <1>8, PageStays DEF ServerGetsSong
<1>9. ASSUME NEW l \in songLoads, SongArrives(l) PROVE Done
  <2>1. l.song \in PageSongs /\ l.tone \in Int
    BY <1>1 DEF SongLoads
  <2>2. CASE detail.requested = l.song
    <3> DEFINE shown == [song |-> l.song, tone |-> l.tone]
    <3>1. shown \in [song: MaybeSong, tone: Int] /\ shown.song = l.song
      BY <2>1 DEF MaybeSong
    <3>2. /\ detail' = [detail EXCEPT !.shown = shown, !.loading = FALSE]
          /\ chord' = ShownOn(route, l.song, l.tone)
      BY <1>9, <2>2 DEF SongArrives
    <3> HIDE DEF shown
    <3>3. /\ detail' \in Details /\ detail'.shown.song = l.song
          /\ detail'.requested = detail.requested
          /\ chord' = ShownOn(route, l.song, l.tone)
      BY <1>1, <3>1, <3>2 DEF Details
    <3>4. chord' \in Chords /\ OffsetOfActive'
      <4>1. CASE route = l.song
        BY <3>3, <2>1, <4>1, InitializedInv DEF ShownOn
      <4>2. CASE route # l.song
        BY <3>3, <4>2 DEF ShownOn, PageInv, PageShape, OffsetOfActive
      <4> QED
        BY <4>1, <4>2
    <3>5. PageInv'
      BY <1>1, <1>9, <3>3, <3>4 DEF SongArrives, PageInv, PageShape, OneKeySave
    <3>6. route' = route /\ opened' = opened
      BY <1>9 DEF SongArrives
    <3>7. PageIsTrue => PageIsTrue'
      BY <3>3, <3>6, <2>2 DEF PageIsTrue, PageState
    <3> QED
      BY <3>5, <3>6, <3>7 DEF Stranding
  <2>3. CASE detail.requested # l.song
    <3>1. PageInv'
      BY <1>1, <1>9, <2>3 DEF SongArrives, PageInv, PageShape, OffsetOfActive, OneKeySave
    <3>2. UNCHANGED <<route, detail, opened>> /\ songLoads' = songLoads \ {l}
      BY <1>9, <2>3 DEF SongArrives
    <3>3. PageIsTrue => PageIsTrue'
      BY <3>2, <2>3 DEF PageIsTrue, PageState
    <3> QED
      BY <3>1, <3>2, <3>3 DEF Stranding
  <2> QED
    BY <2>2, <2>3
<1>10. ASSUME NEW l \in songLoads, SongLoadFails(l) PROVE Done
  <2>1. UNCHANGED <<route, opened, chord, catalog, keySave>> /\ songLoads' = songLoads \ {l}
    BY <1>10 DEF SongLoadFails
  <2>2. CASE detail.requested = l.song
    <3>1. /\ detail' \in Details /\ detail'.shown = detail.shown
          /\ detail'.requested = detail.requested /\ detail'.loading = FALSE
          /\ detail'.failed = TRUE
      BY <1>1, <1>10, <2>2 DEF SongLoadFails, Details
    <3>2. PageIsTrue => PageIsTrue'
      BY <3>1, <2>1, <2>2 DEF PageIsTrue, PageState
    <3>3. PageInv'
      BY <1>1, <2>1, <3>1 DEF PageInv, PageShape, OffsetOfActive, OneKeySave
    <3> QED
      BY <2>1, <3>2, <3>3 DEF Stranding
  <2>3. CASE detail.requested # l.song
    <3>1. detail' = detail
      BY <1>10, <2>3 DEF SongLoadFails
    <3>2. PageIsTrue => PageIsTrue'
      BY <3>1, <2>1, <2>3 DEF PageIsTrue, PageState
    <3>3. PageInv'
      BY <1>1, <2>1, <3>1 DEF PageInv, PageShape, OffsetOfActive, OneKeySave
    <3> QED
      BY <2>1, <3>2, <3>3 DEF Stranding
  <2> QED
    BY <2>2, <2>3
<1>11. ASSUME NEW k \in keySave, ServerSavesKey(k) PROVE Done
  <2>1. /\ [k EXCEPT !.done = TRUE] \in KeySaves
        /\ catalog' \in [PageSongs -> 0..(Tones - 1)]
    BY <1>1, <1>11 DEF ServerSavesKey, KeySaves
  <2>2. PageInv'
    BY <1>1, <1>11, <2>1
       DEF ServerSavesKey, PageInv, PageShape, OffsetOfActive, OneKeySave
  <2> QED
    BY <2>2, <1>11, PageStays DEF ServerSavesKey
<1>12. ASSUME NEW k \in keySave, KeySaved(k) PROVE Done
  <2>1. k.song \in PageSongs /\ k.tone \in Int
    BY <1>1, PageAssumption DEF KeySaves
  <2>2. /\ detail' \in Details /\ keySave' = {}
        /\ UNCHANGED <<catalog, route, songLoads, opened>>
        /\ detail'.shown.song = k.song /\ detail'.requested = k.song
    BY <2>1, <1>12 DEF KeySaved, Details, MaybeSong
  <2>3. chord' \in Chords /\ OffsetOfActive'
    <3>1. 0 \in Offsets
      BY PageAssumption DEF Offsets
    <3>2. CASE k.song \in {route, chord.active}
      <4>1. /\ chord' \in Chords /\ chord'.active = k.song /\ chord'.offset = 0
            /\ chord'.offsets[k.song] = 0
        BY <1>1, <2>1, <3>1, <3>2, <1>12
           DEF KeySaved, AcceptDefaultKey, Chords, MaybeSong
      <4> QED
        BY <4>1 DEF OffsetOfActive
    <3>3. CASE k.song \notin {route, chord.active}
      <4>1. /\ chord' \in Chords /\ chord'.active = chord.active
            /\ chord'.offset = chord.offset
            /\ \A s \in PageSongs : s # k.song => chord'.offsets[s] = chord.offsets[s]
        BY <1>1, <2>1, <3>1, <3>3, <1>12 DEF KeySaved, AcceptDefaultKey, Chords
      <4>2. chord.active # NoSong => chord.active \in PageSongs /\ chord.active # k.song
        BY <1>1, <3>3 DEF Chords, MaybeSong
      <4> QED
        BY <4>1, <4>2 DEF OffsetOfActive, PageInv
    <3> QED
      BY <3>2, <3>3
  <2>4. PageInv'
    BY <1>1, <2>2, <2>3 DEF PageInv, PageShape, OneKeySave
  <2>5. k.song = route => PageIsTrue'
    BY <2>2 DEF PageIsTrue, PageState
  <2> QED
    BY <2>2, <2>4, <2>5, <1>12 DEF Stranding
<1>13. ASSUME NEW k \in keySave, KeySaveFails(k) PROVE Done
  <2>1. PageInv'
    BY <1>1, <1>13 DEF KeySaveFails, PageInv, PageShape, OffsetOfActive, OneKeySave
  <2> QED
    BY <2>1, <1>13, PageStays DEF KeySaveFails
<1>14. CASE UNCHANGED pageVars
  <2>1. UNCHANGED <<catalog, route, detail, songLoads, keySave, chord, opened>>
    BY <1>14 DEF pageVars
  <2>2. PageInv'
    BY <2>1 DEF PageInv, PageShape, OffsetOfActive, OneKeySave
  <2> QED
    BY <2>1, <2>2, PageStays
<1> HIDE DEF Done
<1> QED
  BY <1>2, <1>3, <1>4, <1>5, <1>6, <1>7, <1>8, <1>9, <1>10, <1>11, <1>12, <1>13, <1>14
     DEF PageNext

LEMMA PageInductive == PageSpec => []PageInv
  BY PageInitInv, PageStep, PTL DEF PageSpec

\* The variables of the page have their types; the offset shown is that of the active
\* song.
THEOREM PageTypes == PageSpec => []PageTypeOK
<1>1. PageInv => PageTypeOK
  <2> SUFFICES ASSUME PageInv PROVE PageTypeOK
    OBVIOUS
  <2>1. Cardinality(keySave) <= 1
    BY FS_EmptySet, FS_Singleton DEF PageInv, OneKeySave
  <2>2. /\ detail.requested \in PageSongs \cup {NoSong} /\ opened <= MaxOpened
        /\ chord.offset \in Offsets
    BY PageAssumption DEF PageInv, PageShape, Details, Chords, MaybeSong
  <2> QED
    BY <2>1, <2>2 DEF PageInv, PageShape, PageTypeOK, OffsetOfActive, MaybeSong
<1> QED
  BY <1>1, PageInductive, PTL

\* For any number of songs and loads, the page of a song stops showing it, or waiting
\* for it, only when a key saved for another song comes late (StrandedByLateSavesOnly).
THEOREM StrandedOnly == PageSpec => StrandedByLateSavesOnly
<1>1. PageInv /\ [PageNext]_pageVars => [Stranding]_pageVars
  BY PageStep
<1> QED
  BY <1>1, PageInductive, PTL DEF PageSpec, StrandedByLateSavesOnly, Stranding

-----------------------------------------------------------------------------
(***************************************************************************)
(* The song list. What is shown, and what an answer on its way will show,  *)
(* is current or a reload is due; and the store keeps aside of each song   *)
(* what the server has, until it hears of a change.                        *)
(***************************************************************************)
Queries == {"", "found"}
Keys == {NoKey} \cup (Queries \X Nat)
Libraries == [listed: Versions, local: Versions, query: Queries, key: Keys, changes: Nat,
              stale: BOOLEAN]
ListLoads == [query: Queries, key: Queries \X Nat, answer: {<<>>} \cup {<<a>> : a \in Versions}]
SongChanges == [song: LibrarySongs, to: 1..Deleted, done: BOOLEAN]

LibraryShape ==
    /\ stored \in Versions
    /\ library \in Libraries
    /\ listLoad = {} \/ \E r \in ListLoads : listLoad = {r}
    /\ saving = {} \/ \E m \in SongChanges : saving = {m}
    /\ handled \in Nat /\ handled <= library.changes
    /\ foreign \subseteq LibrarySongs

\* The server has made a change of s that the store has not heard of.
Unheard(s) == \E m \in saving : m.song = s /\ m.done

\* What a list for the query is to have of s.
Expected(s) == IF Matches(s, library.query) THEN Visible(stored[s]) ELSE 0

ChangesAreMade == \A m \in saving : m.done => stored[m.song] = m.to

\* What the store keeps aside of a song is what the server has.
LocalsAreStored ==
    \A s \in LibrarySongs :
        /\ library.local[s] # Deleted
        /\ library.local[s] # 0 /\ s \notin foreign /\ ~Unheard(s) => library.local[s] = stored[s]

\* An answer on its way that will be shown is current, or a reload is due.
AnswersAreCurrent ==
    \A r \in listLoad :
        /\ r.query = library.query
        /\ r.answer # <<>> /\ r.key = library.key /\ handled = library.changes =>
              \A s \in LibrarySongs \ foreign : Unheard(s) \/ r.answer[1][s] = Expected(s)

\* So is what is shown.
ListIsCurrent ==
    ~library.stale /\ handled = library.changes =>
        \A s \in LibrarySongs \ foreign : Unheard(s) \/ library.listed[s] = Expected(s)

LibraryInv ==
    /\ LibraryShape /\ ChangesAreMade /\ LocalsAreStored
    /\ AnswersAreCurrent /\ ListIsCurrent

-----------------------------------------------------------------------------
LEMMA LibraryInitInv == LibraryInit => LibraryInv
<1> SUFFICES ASSUME LibraryInit PROVE LibraryInv
  OBVIOUS
<1>1. /\ stored \in [LibrarySongs -> 0..1] /\ library.listed = NoSongs /\ library.local = NoSongs
      /\ library = [listed |-> NoSongs, local |-> NoSongs, query |-> "", key |-> NoKey,
                    changes |-> 0, stale |-> TRUE]
      /\ listLoad = {} /\ saving = {} /\ handled = 0 /\ foreign = {}
  BY DEF LibraryInit
<1>2. Deleted \in Nat /\ Deleted > 1
  BY LibraryAssumption DEF Deleted
<1>3. NoSongs \in Versions /\ stored \in Versions
  <2>1. NoSongs \in Versions
    BY <1>2 DEF NoSongs, Versions
  <2>2. stored \in [LibrarySongs -> 0..1] => stored \in Versions
    BY <1>2 DEF Versions
  <2> QED
    BY <2>1, <2>2, <1>1
<1>4. library \in Libraries /\ library.stale /\ library.changes = 0
  BY <1>1, <1>3 DEF Libraries, Queries, Keys
<1>5. \A s \in LibrarySongs : library.local[s] = 0
  BY <1>1 DEF NoSongs
<1>6. LibraryShape
  <2>1. handled = 0 /\ library.changes = 0
    BY <1>1, <1>4, Zenon
  <2>2. handled \in Nat /\ handled <= library.changes
    BY <2>1
  <2> QED
    BY <2>2, <1>1, <1>3, <1>4, Zenon DEF LibraryShape
<1>7. LocalsAreStored
  BY <1>2, <1>5 DEF LocalsAreStored
<1>8. ChangesAreMade /\ AnswersAreCurrent /\ ListIsCurrent
  BY <1>1, <1>4, Zenon DEF ChangesAreMade, AnswersAreCurrent, ListIsCurrent
<1> QED
  BY <1>6, <1>7, <1>8 DEF LibraryInv

\* A new load begins: nothing that is on its way counts any more.
LEMMA AsksInv ==
    ASSUME LibraryInv, NEW query \in Queries, Asks(query), UNCHANGED <<stored, saving, foreign>>,
           handled' \in {handled, library.changes}
    PROVE  LibraryInv'
<1> DEFINE r == [query |-> query, key |-> <<query, library.changes>>, answer |-> <<>>]
<1>1. r \in ListLoads /\ listLoad' = {r} /\ r.query = query /\ r.answer = <<>>
  BY DEF Asks, ListLoads, LibraryInv, LibraryShape, Libraries
<1>2. /\ library' \in Libraries /\ library'.query = query /\ library'.stale = TRUE
      /\ library'.local = library.local /\ library'.changes = library.changes
  <2> DEFINE key == <<query, library.changes>>
  <2>1. library \in Libraries /\ key \in Keys
    BY DEF LibraryInv, LibraryShape, Libraries, Keys
  <2>2. library' = [library EXCEPT !.query = query, !.key = key, !.stale = TRUE]
    BY DEF Asks
  <2> HIDE DEF key
  <2> QED
    BY <2>1, <2>2 DEF Libraries
<1>3. LibraryShape'
  BY <1>1, <1>2 DEF LibraryInv, LibraryShape, Libraries
<1>4. ChangesAreMade' /\ LocalsAreStored'
  BY <1>2 DEF LibraryInv, ChangesAreMade, LocalsAreStored, Unheard
<1>5. AnswersAreCurrent' /\ ListIsCurrent'
  BY <1>1, <1>2 DEF AnswersAreCurrent, ListIsCurrent
<1> QED
  BY <1>3, <1>4, <1>5 DEF LibraryInv

LEMMA ServerListsInv ==
    ASSUME LibraryInv, NEW r \in listLoad, ServerLists(r)
    PROVE  LibraryInv'
<1> DEFINE a == [s \in LibrarySongs |-> IF Matches(s, r.query) THEN Visible(stored[s]) ELSE 0]
           n == [r EXCEPT !.answer = <<a>>]
<1>1. r \in ListLoads /\ r.query = library.query
  BY DEF LibraryInv, LibraryShape, AnswersAreCurrent
<1>2. a \in Versions
  BY LibraryAssumption DEF LibraryInv, LibraryShape, Versions, Visible, Deleted
<1>3. listLoad' = {n} /\ UNCHANGED <<stored, library, saving, handled, foreign>>
  BY DEF ServerLists
<1>4. \A s \in LibrarySongs : a[s] = Expected(s)
  BY <1>1 DEF Expected
<1> HIDE DEF a
<1>5. n \in ListLoads /\ n.answer = <<a>> /\ n.query = r.query
  BY <1>1, <1>2 DEF ListLoads
<1>6. n.answer[1] = a
  BY <1>5
<1> HIDE DEF n
<1>7. AnswersAreCurrent'
  BY <1>1, <1>3, <1>4, <1>5, <1>6 DEF AnswersAreCurrent, Expected
<1>8. LibraryShape' /\ ChangesAreMade' /\ LocalsAreStored' /\ ListIsCurrent'
  BY <1>3, <1>5 DEF LibraryInv, LibraryShape, ChangesAreMade, LocalsAreStored, ListIsCurrent,
                    Unheard, Expected
<1> QED
  BY <1>7, <1>8 DEF LibraryInv

LEMMA ListArrivesInv ==
    ASSUME LibraryInv, NEW r \in listLoad, ListArrives(r)
    PROVE  LibraryInv'
<1> USE DEF LibraryInv
<1>1. /\ r \in ListLoads /\ r.query = library.query /\ r.answer # <<>>
      /\ listLoad' = {} /\ UNCHANGED <<stored, saving, handled, foreign>>
  BY DEF LibraryShape, AnswersAreCurrent, ListArrives
<1>2. r.answer[1] \in Versions
  <2>1. PICK a \in Versions : r.answer = <<a>>
    BY <1>1 DEF ListLoads
  <2> QED
    BY <2>1
<1>3. CASE library.key # r.key
  BY <1>1, <1>3 DEF ListArrives, LibraryShape, ChangesAreMade, LocalsAreStored, ListIsCurrent,
                    AnswersAreCurrent, Unheard, Expected
<1>4. CASE library.key = r.key
  <2> DEFINE merged == Merged(r.answer[1], r.query)
  <2>1. merged \in Versions
    BY <1>2 DEF Merged, LibraryShape, Libraries, Versions
  <2>2. \A s \in LibrarySongs :
           merged[s] = IF library.local[s] # 0 /\ Matches(s, library.query)
                       THEN library.local[s] ELSE r.answer[1][s]
    BY <1>1 DEF Merged
  <2>3. library' = [library EXCEPT !.listed = merged, !.stale = FALSE]
    BY <1>4 DEF ListArrives
  <2> HIDE DEF merged
  <2>4. /\ library' \in Libraries /\ library'.listed = merged /\ library'.query = library.query
        /\ library'.local = library.local /\ library'.changes = library.changes
    BY <2>1, <2>3 DEF LibraryShape, Libraries
  <2>5. LibraryShape' /\ ChangesAreMade' /\ LocalsAreStored' /\ AnswersAreCurrent'
    BY <1>1, <2>4 DEF LibraryShape, ChangesAreMade, LocalsAreStored, AnswersAreCurrent, Unheard
  <2>6. ListIsCurrent'
    <3> SUFFICES ASSUME handled = library.changes, NEW s \in LibrarySongs \ foreign, ~Unheard(s)
                 PROVE  merged[s] = Expected(s)
      BY <1>1, <2>4 DEF ListIsCurrent, Unheard, Expected
    <3>1. CASE library.local[s] # 0 /\ Matches(s, library.query)
      BY <3>1, <2>2 DEF LocalsAreStored, Expected, Visible
    <3>2. CASE ~(library.local[s] # 0 /\ Matches(s, library.query))
      BY <3>2, <2>2, <1>1, <1>4 DEF AnswersAreCurrent
    <3> QED
      BY <3>1, <3>2
  <2> QED
    BY <2>5, <2>6
<1> QED
  BY <1>3, <1>4

LEMMA ListFailsInv ==
    ASSUME LibraryInv, NEW r \in listLoad, ListFails(r)
    PROVE  LibraryInv'
  BY DEF ListFails, LibraryInv, LibraryShape, ChangesAreMade, LocalsAreStored, ListIsCurrent,
         AnswersAreCurrent, Unheard, Expected

-----------------------------------------------------------------------------
LEMMA FollowsType ==
    ASSUME LibraryShape, NEW s \in LibrarySongs, NEW to, Follows(s, to)
    PROVE  to \in 1..Deleted
  BY LibraryAssumption DEF LibraryShape, Versions, Follows, Deleted

LEMMA StartChangeInv ==
    ASSUME LibraryInv, NEW s \in LibrarySongs, NEW to \in 1..Deleted, StartChange(s, to)
    PROVE  LibraryInv'
<1> DEFINE m == [song |-> s, to |-> to, done |-> FALSE]
<1>1. /\ m \in SongChanges /\ ~m.done /\ saving = {} /\ saving' = {m}
      /\ UNCHANGED <<stored, library, listLoad, handled, foreign>>
  BY DEF StartChange, SongChanges
<1> HIDE DEF m
<1>2. \A x \in LibrarySongs : ~Unheard(x)' /\ ~Unheard(x)
  BY <1>1 DEF Unheard
<1>3. LibraryShape' /\ ChangesAreMade'
  BY <1>1 DEF LibraryInv, LibraryShape, ChangesAreMade
<1>4. LocalsAreStored' /\ ListIsCurrent' /\ AnswersAreCurrent'
  BY <1>1, <1>2 DEF LibraryInv, LocalsAreStored, ListIsCurrent, AnswersAreCurrent, Expected
<1> QED
  BY <1>3, <1>4 DEF LibraryInv

\* Songs of which the store is not to know are all that changes on the server.
LEMMA ServerMoves ==
    ASSUME LibraryInv, stored' \in Versions, UNCHANGED <<library, listLoad, handled>>,
           saving' = {} \/ \E m \in SongChanges : saving' = {m},
           ChangesAreMade', foreign \subseteq foreign', foreign' \subseteq LibrarySongs,
           \A s \in LibrarySongs \ foreign' : Unheard(s)' \/ (stored'[s] = stored[s] /\ ~Unheard(s))
    PROVE  LibraryInv'
<1>1. LibraryShape'
  BY DEF LibraryInv, LibraryShape
<1>2. LocalsAreStored'
  BY DEF LibraryInv, LocalsAreStored
<1>3. \A s \in LibrarySongs \ foreign' : ~Unheard(s)' => Expected(s)' = Expected(s)
  BY DEF Expected
<1>4. ListIsCurrent'
  BY <1>3 DEF LibraryInv, ListIsCurrent
<1>5. AnswersAreCurrent'
  <2> SUFFICES ASSUME NEW r \in listLoad
               PROVE  /\ r.query = library.query
                      /\ r.answer # <<>> /\ r.key = library.key /\ handled = library.changes =>
                            \A s \in LibrarySongs \ foreign' :
                               Unheard(s)' \/ r.answer[1][s] = Expected(s)'
    BY DEF AnswersAreCurrent
  <2> QED
    BY <1>3 DEF LibraryInv, AnswersAreCurrent
<1> QED
  BY <1>1, <1>2, <1>4, <1>5 DEF LibraryInv

LEMMA ServerChangesInv ==
    ASSUME LibraryInv, NEW m \in saving, ServerChanges(m)
    PROVE  LibraryInv'
<1> DEFINE n == [m EXCEPT !.done = TRUE]
<1>1. m \in SongChanges /\ saving = {m} /\ ~m.done
  BY DEF LibraryInv, LibraryShape, ServerChanges
<1>2. n \in SongChanges /\ n.song = m.song /\ n.to = m.to /\ n.done
  BY <1>1 DEF SongChanges
<1>3. /\ stored' = [stored EXCEPT ![m.song] = m.to] /\ saving' = {n}
      /\ UNCHANGED <<library, listLoad, handled, foreign>>
  BY DEF ServerChanges
<1> HIDE DEF n
<1>4. stored' \in Versions /\ \A s \in LibrarySongs : s # m.song => stored'[s] = stored[s]
  BY <1>1, <1>3, LibraryAssumption DEF LibraryInv, LibraryShape, Versions, SongChanges, Deleted
<1>5. stored'[m.song] = m.to
  BY <1>1, <1>3 DEF LibraryInv, LibraryShape, Versions, SongChanges
<1>6. \A s \in LibrarySongs : ~Unheard(s) /\ (Unheard(s)' <=> s = m.song)
  BY <1>1, <1>2, <1>3 DEF Unheard
<1>7. ChangesAreMade'
  BY <1>2, <1>3, <1>5 DEF ChangesAreMade
<1> QED
  BY <1>2, <1>3, <1>4, <1>6, <1>7, ServerMoves DEF LibraryInv, LibraryShape

LEMMA ChangeFailsInv ==
    ASSUME LibraryInv, NEW m \in saving, ChangeFails(m)
    PROVE  LibraryInv'
<1>1. /\ m \in SongChanges /\ saving = {m} /\ saving' = {}
      /\ UNCHANGED <<stored, library, listLoad, handled>>
      /\ foreign' = IF m.done THEN foreign \cup {m.song} ELSE foreign
  BY DEF LibraryInv, LibraryShape, ChangeFails
<1>2. foreign \subseteq foreign' /\ foreign' \subseteq LibrarySongs
  BY <1>1 DEF LibraryInv, LibraryShape, SongChanges
<1>3. \A s \in LibrarySongs \ foreign' : ~Unheard(s)
  BY <1>1 DEF Unheard
<1>4. ChangesAreMade'
  BY <1>1 DEF ChangesAreMade
<1> QED
  BY <1>1, <1>2, <1>3, <1>4, ServerMoves DEF LibraryInv, LibraryShape

LEMMA OtherClientChangesInv ==
    ASSUME LibraryInv, NEW s \in LibrarySongs, NEW to \in 1..Deleted, OtherClientChanges(s, to)
    PROVE  LibraryInv'
<1>1. /\ stored' = [stored EXCEPT ![s] = to] /\ foreign' = foreign \cup {s}
      /\ UNCHANGED <<library, listLoad, saving, handled>>
      /\ \A m \in saving : m.song # s
  BY DEF OtherClientChanges
<1>2. /\ stored' \in Versions /\ \A x \in LibrarySongs : x # s => stored'[x] = stored[x]
  BY <1>1, LibraryAssumption DEF LibraryInv, LibraryShape, Versions, Deleted
<1>3. ChangesAreMade'
  BY <1>1, <1>2 DEF LibraryInv, LibraryShape, SongChanges, ChangesAreMade
<1>4. \A x \in LibrarySongs : Unheard(x)' <=> Unheard(x)
  BY <1>1 DEF Unheard
<1> QED
  BY <1>1, <1>2, <1>3, <1>4, ServerMoves DEF LibraryInv, LibraryShape

-----------------------------------------------------------------------------
LEMMA LibraryChanges ==
    ASSUME library \in Libraries, NEW listed \in Versions, NEW local \in Versions,
           NEW key \in Keys, NEW n \in Nat,
           library' = [library EXCEPT !.listed = listed, !.local = local, !.key = key, !.changes = n]
    PROVE  /\ library' \in Libraries /\ library'.changes = n
           /\ library'.query = library.query /\ library'.local = local
  BY DEF Libraries

\* The store hears of the change of m.song: it has it right, or a reload is due.
LEMMA SongHeard ==
    ASSUME LibraryInv, NEW m \in saving, m.done, saving' = {},
           UNCHANGED <<stored, listLoad, handled, foreign>>,
           library' \in Libraries, library'.changes = library.changes + 1,
           library'.query = library.query,
           \A s \in LibrarySongs \ {m.song} : library'.local[s] = library.local[s],
           library'.local[m.song] \in {0, m.to} \ {Deleted}
    PROVE  LibraryInv'
<1>1. m \in SongChanges /\ saving = {m} /\ stored[m.song] = m.to
  BY DEF LibraryInv, LibraryShape, ChangesAreMade
<1>2. LibraryShape' /\ handled # library'.changes
  BY DEF LibraryInv, LibraryShape, Libraries
<1>3. \A s \in LibrarySongs : ~Unheard(s)' /\ (s # m.song => ~Unheard(s))
  BY <1>1 DEF Unheard
<1>4. ChangesAreMade'
  BY DEF ChangesAreMade
<1>5. LocalsAreStored'
  BY <1>1, <1>3 DEF LibraryInv, LocalsAreStored
<1>6. AnswersAreCurrent' /\ ListIsCurrent'
  BY <1>2 DEF LibraryInv, AnswersAreCurrent, ListIsCurrent
<1> QED
  BY <1>2, <1>4, <1>5, <1>6 DEF LibraryInv

LEMMA SongSavedInv ==
    ASSUME LibraryInv, NEW m \in saving, SongSaved(m)
    PROVE  LibraryInv'
<1>1. m \in SongChanges /\ library \in Libraries
  BY DEF LibraryInv, LibraryShape
<1>2. m.song \in LibrarySongs /\ m.to \in 0..Deleted /\ 0 \in 0..Deleted
  BY <1>1, LibraryAssumption DEF SongChanges, Deleted
<1> DEFINE shown == IF Matches(m.song, library.query) THEN m.to ELSE 0
<1>3. library' = [library EXCEPT !.listed = [library.listed EXCEPT ![m.song] = shown],
                                 !.local = [library.local EXCEPT ![m.song] = m.to],
                                 !.key = NoKey, !.changes = library.changes + 1]
  BY <1>1 DEF SongSaved
<1>4. shown \in 0..Deleted
  BY <1>2
<1> HIDE DEF shown
<1>5. /\ [library.listed EXCEPT ![m.song] = shown] \in Versions
      /\ [library.local EXCEPT ![m.song] = m.to] \in Versions
      /\ library.changes \in Nat
  BY <1>1, <1>2, <1>4 DEF Libraries, Versions
<1>6. /\ library' \in Libraries /\ library'.changes = library.changes + 1
      /\ library'.query = library.query
      /\ library'.local = [library.local EXCEPT ![m.song] = m.to]
  <2>1. NoKey \in Keys /\ library.changes + 1 \in Nat
    BY <1>5 DEF Keys
  <2> QED
    BY <2>1, <1>1, <1>3, <1>5, LibraryChanges
<1>7. /\ \A s \in LibrarySongs \ {m.song} : library'.local[s] = library.local[s]
      /\ library'.local[m.song] = m.to
  BY <1>1, <1>2, <1>6 DEF Libraries, Versions
<1>8. /\ m.done /\ m.to # Deleted /\ saving' = {}
      /\ UNCHANGED <<stored, listLoad, handled, foreign>>
  BY DEF SongSaved
<1> QED
  BY <1>6, <1>7, <1>8, SongHeard

LEMMA SongDeletedInv ==
    ASSUME LibraryInv, NEW m \in saving, SongDeleted(m)
    PROVE  LibraryInv'
<1>1. m \in SongChanges /\ library \in Libraries
  BY DEF LibraryInv, LibraryShape
<1>2. m.song \in LibrarySongs /\ m.to \in 0..Deleted /\ 0 \in 0..Deleted /\ Deleted # 0
  BY <1>1, LibraryAssumption DEF SongChanges, Deleted
<1>3. library' = [library EXCEPT !.listed = [library.listed EXCEPT ![m.song] = 0],
                                 !.local = [library.local EXCEPT ![m.song] = 0],
                                 !.key = library.key,
                                 !.changes = library.changes + 1]
  BY <1>1 DEF SongDeleted, Libraries
<1>4. /\ [library.listed EXCEPT ![m.song] = 0] \in Versions
      /\ [library.local EXCEPT ![m.song] = 0] \in Versions
      /\ library.changes \in Nat
  BY <1>1, <1>2 DEF Libraries, Versions
<1>5. /\ library' \in Libraries /\ library'.changes = library.changes + 1
      /\ library'.query = library.query
      /\ library'.local = [library.local EXCEPT ![m.song] = 0]
  <2>1. library.key \in Keys /\ library.changes + 1 \in Nat
    BY <1>1, <1>4 DEF Libraries
  <2> QED
    BY <2>1, <1>1, <1>3, <1>4, LibraryChanges
<1>6. /\ \A s \in LibrarySongs \ {m.song} : library'.local[s] = library.local[s]
      /\ library'.local[m.song] = 0
  BY <1>1, <1>2, <1>5 DEF Libraries, Versions
<1>7. m.done /\ saving' = {} /\ UNCHANGED <<stored, listLoad, handled, foreign>>
  BY DEF SongDeleted
<1> QED
  BY <1>2, <1>5, <1>6, <1>7, SongHeard

LEMMA LibraryNextInv == LibraryInv /\ [LibraryNext]_libraryVars => LibraryInv'
<1> SUFFICES ASSUME LibraryInv, [LibraryNext]_libraryVars PROVE LibraryInv'
  OBVIOUS
<1>1. ASSUME NEW query \in Queries, LoadSongs(query) PROVE LibraryInv'
  BY <1>1, AsksInv DEF LoadSongs
<1>2. CASE ReloadAfterChange
  BY <1>2, AsksInv DEF ReloadAfterChange, LibraryInv, LibraryShape, Libraries
<1>3. ASSUME NEW r \in listLoad, ServerLists(r) \/ ListArrives(r) \/ ListFails(r)
      PROVE  LibraryInv'
  BY <1>3, ServerListsInv, ListArrivesInv, ListFailsInv
<1>4. ASSUME NEW s \in LibrarySongs, NEW to \in 1..Deleted,
             StartChange(s, to) \/ OtherClientChanges(s, to)
      PROVE  LibraryInv'
  BY <1>4, StartChangeInv, OtherClientChangesInv
<1>5. ASSUME NEW m \in saving,
             ServerChanges(m) \/ ChangeFails(m) \/ SongSaved(m) \/ SongDeleted(m)
      PROVE  LibraryInv'
  BY <1>5, ServerChangesInv, ChangeFailsInv, SongSavedInv, SongDeletedInv
<1>6. CASE UNCHANGED libraryVars
  <2>1. UNCHANGED <<stored, library, listLoad, saving, handled, foreign>>
    BY <1>6 DEF libraryVars
  <2> QED
    BY <2>1 DEF LibraryInv, LibraryShape, ChangesAreMade, LocalsAreStored, ListIsCurrent,
                AnswersAreCurrent, Unheard, Expected
<1> QED
  BY <1>1, <1>2, <1>3, <1>4, <1>5, <1>6 DEF LibraryNext, Queries

LEMMA LibraryInductive == LibrarySpec => []LibraryInv
  BY LibraryInitInv, LibraryNextInv, PTL DEF LibrarySpec

\* The variables of the song list have their types.
THEOREM LibraryTypes == LibrarySpec => []LibraryTypeOK
<1>1. LibraryInv => LibraryTypeOK
  <2> SUFFICES ASSUME LibraryInv PROVE LibraryTypeOK
    OBVIOUS
  <2>1. Cardinality(listLoad) <= 1
    <3>1. listLoad = {} \/ \E r : listLoad = {r}
      BY DEF LibraryInv, LibraryShape
    <3>2. Cardinality(listLoad) \in {0, 1}
      BY <3>1, FS_EmptySet, FS_Singleton, Zenon
    <3> QED
      BY <3>2
  <2>2. Cardinality(saving) <= 1
    <3>1. saving = {} \/ \E m : saving = {m}
      BY DEF LibraryInv, LibraryShape
    <3>2. Cardinality(saving) \in {0, 1}
      BY <3>1, FS_EmptySet, FS_Singleton, Zenon
    <3> QED
      BY <3>2
  <2> QED
    BY <2>1, <2>2 DEF LibraryInv, LibraryShape, LibraryTypeOK, Libraries
<1> QED
  BY <1>1, LibraryInductive, PTL

\* For any number of songs, versions and changes, a list with nothing in flight and no
\* reload due has of every song what the server has, but for changes made elsewhere
\* (musicStore, SettledListIsCurrent).
THEOREM SettledIsCurrent == LibrarySpec => []SettledListIsCurrent
<1>1. LibraryInv => SettledListIsCurrent
  BY DEF LibraryInv, ListIsCurrent, SettledListIsCurrent, Unheard, Expected
<1> QED
  BY <1>1, LibraryInductive, PTL

-----------------------------------------------------------------------------
(***************************************************************************)
(* The list of schedules. Loads of a list in flight have keys of their     *)
(* own, none later than the last given out, and the refreshes in flight    *)
(* are counted; so the indicators say what is in flight.                   *)
(***************************************************************************)
Stores == [key: [Lists -> 0..MaxScheduleLoads], shown: [Lists -> 0..MaxScheduleLoads],
           busy: [Lists -> BOOLEAN], loading: BOOLEAN, refreshing: BOOLEAN, requests: Nat,
           loads: SUBSET Loads]
ChangeRecords == [step: {"none", "deleting", "answering", "saving", "saved"},
                  before: [Lists -> 0..MaxScheduleLoads]]

Refreshes(s) == {r \in s.loads : r.refresh}

\* A list has loads of different keys in flight, none later than its last.
LoadsHaveKeys(s) ==
    /\ \A r \in s.loads : r.key <= s.key[r.list]
    /\ \A r, q \in s.loads : r.list = q.list /\ r.key = q.key => r = q

Counted(s) ==
    /\ IsFiniteSet(s.loads)
    /\ s.requests = Cardinality(Refreshes(s))
    /\ s.requests <= s.key["all"] + s.key["mine"]
    /\ s.refreshing <=> s.requests > 0

BusyIsLoading(s) ==
    /\ s.loading <=> \E l \in Lists : s.busy[l]
    /\ \A l \in Lists : s.busy[l] <=> \E r \in s.loads :
                                         r.list = l /\ r.key = s.key[l] /\ ~r.refresh

\* What holds of the store by itself.
Good(s) == s \in Stores /\ LoadsHaveKeys(s) /\ Counted(s) /\ BusyIsLoading(s)

StoreInv == Good(store) /\ change \in [Changes -> ChangeRecords]

-----------------------------------------------------------------------------
LEMMA OtherList == Other("all") = "mine" /\ Other("mine") = "all"
<1>1. ASSUME NEW l \in Lists PROVE Other(l) \in Lists /\ Other(l) # l
  <2>1. \E m \in Lists : m # l
    BY DEF Lists
  <2> QED
    BY <2>1 DEF Other
<1> QED
  BY <1>1 DEF Lists

LEMMA StoreInitInv == StoreInit => StoreInv
<1> SUFFICES ASSUME StoreInit PROVE StoreInv
  OBVIOUS
<1>1. /\ store.loads = {} /\ store.requests = 0 /\ store.refreshing = FALSE
      /\ store.loading = FALSE /\ \A l \in Lists : store.busy[l] = FALSE /\ store.key[l] = 0
  BY DEF StoreInit
<1>2. store \in Stores
  BY StoreAssumption DEF StoreInit, Stores
<1>3. LoadsHaveKeys(store) /\ BusyIsLoading(store)
  BY <1>1 DEF LoadsHaveKeys, BusyIsLoading
<1>4. Refreshes(store) = {}
  BY <1>1 DEF Refreshes
<1>5. Counted(store)
  BY <1>1, <1>4, FS_EmptySet DEF Counted, Lists
<1>6. NoChange \in ChangeRecords
  BY StoreAssumption DEF NoChange, ChangeRecords
<1> QED
  BY <1>2, <1>3, <1>5, <1>6 DEF StoreInit, StoreInv, Good

-----------------------------------------------------------------------------
\* The fields of the store after a load begins.
LEMMA BeganFields ==
    ASSUME NEW s \in Stores, NEW l \in Lists, NEW wished \in BOOLEAN,
           s.key[l] + 1 <= MaxScheduleLoads
    PROVE  \E refresh \in BOOLEAN :
             LET b == Began(s, l, wished)
                 n == [list |-> l, key |-> s.key[l] + 1, refresh |-> refresh]
             IN /\ b \in Stores /\ n \in Loads
                /\ b.key = [s.key EXCEPT ![l] = s.key[l] + 1]
                /\ b.busy = [s.busy EXCEPT ![l] = ~refresh]
                /\ b.loading <=> ~refresh \/ s.busy[Other(l)]
                /\ b.requests = IF refresh THEN s.requests + 1 ELSE s.requests
                /\ b.refreshing <=> refresh \/ s.refreshing
                /\ b.loads = s.loads \cup {n}
<1> DEFINE refresh == wished \/ s.shown[l] # 0
           nowLoading == ~refresh \/ s.busy[Other(l)]
           refreshing == refresh \/ s.refreshing
           nowRequests == IF refresh THEN s.requests + 1 ELSE s.requests
           n == [list |-> l, key |-> s.key[l] + 1, refresh |-> refresh]
           idle == ~refresh
<1>1. {refresh, idle, nowLoading, refreshing} \subseteq BOOLEAN
  BY OtherList, Zenon DEF Lists, Stores
<1>2. nowRequests \in Nat /\ nowRequests = IF refresh THEN s.requests + 1 ELSE s.requests
  BY DEF Stores
<1>3. s.key[l] + 1 \in 1..MaxScheduleLoads /\ s.key[l] \in Nat
  BY StoreAssumption DEF Stores
<1>4. Began(s, l, wished) =
         [s EXCEPT !.key = [s.key EXCEPT ![l] = s.key[l] + 1],
                   !.busy = [s.busy EXCEPT ![l] = idle], !.loading = nowLoading,
                   !.requests = nowRequests, !.refreshing = refreshing,
                   !.loads = s.loads \cup {n}]
  BY DEF Began
<1>5. /\ nowLoading <=> ~refresh \/ s.busy[Other(l)]
      /\ refreshing <=> refresh \/ s.refreshing
      /\ idle = ~refresh
  BY Zenon
<1> HIDE DEF refresh, nowLoading, refreshing, nowRequests, idle
<1>6. n \in Loads
  BY <1>1, <1>3 DEF Loads
<1> HIDE DEF n
<1> DEFINE b == Began(s, l, wished)
           key == [s.key EXCEPT ![l] = s.key[l] + 1]
           busy == [s.busy EXCEPT ![l] = idle]
           nowLoads == s.loads \cup {n}
<1>7. /\ key \in [Lists -> 0..MaxScheduleLoads] /\ busy \in [Lists -> BOOLEAN]
      /\ nowLoads \in SUBSET Loads
  BY <1>1, <1>3, <1>6 DEF Stores
<1>8. b = [s EXCEPT !.key = key, !.busy = busy, !.loading = nowLoading,
                    !.requests = nowRequests, !.refreshing = refreshing, !.loads = nowLoads]
  BY <1>4
<1> HIDE DEF b, key, busy, nowLoads
<1>9. /\ b \in Stores /\ b.key = key /\ b.busy = busy /\ b.loading = nowLoading
      /\ b.requests = nowRequests /\ b.refreshing = refreshing /\ b.loads = nowLoads
  BY <1>1, <1>2, <1>7, <1>8 DEF Stores
<1> QED
  BY <1>1, <1>2, <1>5, <1>6, <1>9 DEF b, key, busy, nowLoads, n

\* A load that begins keeps the store good; it has the next key of its list.
LEMMA BeganGood ==
    ASSUME NEW s, Good(s), NEW l \in Lists, NEW wished \in BOOLEAN,
           s.key[l] + 1 <= MaxScheduleLoads
    PROVE  Good(Began(s, l, wished)) /\ \A m \in Lists \ {l} : Began(s, l, wished).key[m] = s.key[m]
<1> DEFINE b == Began(s, l, wished)
<1>0. s \in Stores
  BY DEF Good
<1>1. PICK refresh \in BOOLEAN :
         LET n == [list |-> l, key |-> s.key[l] + 1, refresh |-> refresh]
         IN /\ b \in Stores /\ n \in Loads
            /\ b.key = [s.key EXCEPT ![l] = s.key[l] + 1]
            /\ b.busy = [s.busy EXCEPT ![l] = ~refresh]
            /\ b.loading <=> ~refresh \/ s.busy[Other(l)]
            /\ b.requests = IF refresh THEN s.requests + 1 ELSE s.requests
            /\ b.refreshing <=> refresh \/ s.refreshing
            /\ b.loads = s.loads \cup {n}
  BY <1>0, BeganFields
<1> DEFINE n == [list |-> l, key |-> s.key[l] + 1, refresh |-> refresh]
<1> HIDE DEF b
<1>2. /\ n.list = l /\ n.key = s.key[l] + 1 /\ n.refresh = refresh
      /\ b.loads = s.loads \cup {n}
  BY <1>1
<1>3. /\ \A m \in Lists : b.key[m] = IF m = l THEN s.key[l] + 1 ELSE s.key[m]
      /\ \A m \in Lists : b.busy[m] <=> IF m = l THEN ~refresh ELSE s.busy[m]
      /\ \A m \in Lists : s.key[m] \in Nat
  BY <1>0, <1>1 DEF Stores
<1>4. \A r \in s.loads : r.list \in Lists /\ r.key \in Nat /\ r.key <= s.key[r.list]
  BY <1>0 DEF Stores, Loads, Good, LoadsHaveKeys
<1> HIDE DEF n
<1>5. n \notin s.loads
  BY <1>2, <1>3, <1>4
<1>6. LoadsHaveKeys(b)
  <2>1. \A r \in b.loads : r.key <= b.key[r.list]
    BY <1>2, <1>3, <1>4
  <2>2. ASSUME NEW r \in b.loads, NEW q \in b.loads, r.list = q.list, r.key = q.key
        PROVE  r = q
    <3>1. CASE r \in s.loads /\ q \in s.loads
      BY <3>1, <2>2 DEF Good, LoadsHaveKeys
    <3>2. CASE r = n \/ q = n
      BY <3>2, <2>2, <1>2, <1>3, <1>4
    <3> QED
      BY <3>1, <3>2, <1>2
  <2> QED
    BY <2>1, <2>2 DEF LoadsHaveKeys
<1>7. Counted(b)
  <2>1. IsFiniteSet(b.loads)
    BY <1>2, FS_AddElement DEF Good, Counted
  <2>2. IsFiniteSet(Refreshes(s)) /\ s.requests = Cardinality(Refreshes(s))
    BY FS_Subset DEF Good, Counted, Refreshes
  <2>3. b.requests = Cardinality(Refreshes(b))
    <3>1. CASE refresh
      <4>1. Refreshes(b) = Refreshes(s) \cup {n} /\ n \notin Refreshes(s)
        BY <3>1, <1>2, <1>5 DEF Refreshes
      <4>2. Cardinality(Refreshes(b)) = Cardinality(Refreshes(s)) + 1
        BY <4>1, <2>2, FS_AddElement
      <4> QED
        BY <4>2, <2>2, <3>1, <1>1
    <3>2. CASE ~refresh
      <4>1. Refreshes(b) = Refreshes(s)
        BY <3>2, <1>2 DEF Refreshes
      <4> QED
        BY <4>1, <2>2, <3>2, <1>1
    <3> QED
      BY <3>1, <3>2
  <2>4. b.requests <= b.key["all"] + b.key["mine"]
    <3>1. s.requests <= s.key["all"] + s.key["mine"] /\ s.requests \in Nat
      BY <1>0 DEF Good, Counted, Stores
    <3>2. b.requests <= s.requests + 1
      BY <3>1, <1>1
    <3>3. b.key["all"] + b.key["mine"] = s.key["all"] + s.key["mine"] + 1
      <4>1. {s.key["all"], s.key["mine"]} \subseteq Nat
        BY <1>3 DEF Lists
      <4>2. CASE l = "all"
        BY <4>1, <4>2, <1>3 DEF Lists
      <4>3. CASE l = "mine"
        BY <4>1, <4>3, <1>3 DEF Lists
      <4> QED
        BY <4>2, <4>3 DEF Lists
    <3>4. {s.key["all"], s.key["mine"]} \subseteq Nat /\ b.requests \in Nat
      BY <1>1, <1>3 DEF Lists, Stores
    <3> QED
      BY <3>1, <3>2, <3>3, <3>4
  <2>5. b.refreshing <=> b.requests > 0
    BY <1>0, <1>1 DEF Good, Counted, Stores
  <2> QED
    BY <2>1, <2>3, <2>4, <2>5 DEF Counted
<1>8. BusyIsLoading(b)
  <2>1. b.loading <=> \E m \in Lists : b.busy[m]
    BY <1>1, <1>3, OtherList DEF Lists
  <2>2. ASSUME NEW m \in Lists
        PROVE  b.busy[m] <=> \E r \in b.loads : r.list = m /\ r.key = b.key[m] /\ ~r.refresh
    <3>1. CASE m = l
      BY <3>1, <1>2, <1>3, <1>4
    <3>2. CASE m # l
      BY <3>2, <1>2, <1>3 DEF Good, BusyIsLoading
    <3> QED
      BY <3>1, <3>2
  <2> QED
    BY <2>1, <2>2 DEF BusyIsLoading
<1>9. Good(b)
  BY <1>1, <1>6, <1>7, <1>8 DEF Good
<1> QED
  BY <1>3, <1>9 DEF b

\* The fields of the store after a load ends.
LEMMA EndsFields ==
    ASSUME NEW s \in Stores, NEW r \in s.loads, NEW shown \in 0..MaxScheduleLoads
    PROVE  LET b == Ends(s, r, shown)
               last == r.key = s.key[r.list]
           IN /\ b \in Stores /\ b.key = s.key /\ b.loads = s.loads \ {r}
              /\ b.requests = IF r.refresh /\ s.requests > 0 THEN s.requests - 1 ELSE s.requests
              /\ b.refreshing <=> b.requests > 0
              /\ b.busy = IF last THEN [s.busy EXCEPT ![r.list] = FALSE] ELSE s.busy
              /\ b.loading <=> IF last THEN s.busy[Other(r.list)] ELSE s.loading
<1> DEFINE left == IF r.refresh /\ s.requests > 0 THEN s.requests - 1 ELSE s.requests
           busy == left > 0
           c == [s EXCEPT !.loads = s.loads \ {r}, !.requests = left, !.refreshing = busy]
           b == Ends(s, r, shown)
<1>1. /\ r \in Loads /\ r.list \in Lists /\ Other(r.list) \in Lists
      /\ s.requests \in Nat /\ s.loads \ {r} \in SUBSET Loads
  BY OtherList DEF Stores, Loads, Lists
<1>2. left \in Nat
  BY <1>1
<1>4. b = IF r.key # s.key[r.list] THEN c
          ELSE [c EXCEPT !.busy[r.list] = FALSE, !.loading = s.busy[Other(r.list)],
                         !.shown[r.list] = shown]
  BY DEF Ends
<1>5. left = IF r.refresh /\ s.requests > 0 THEN s.requests - 1 ELSE s.requests
  OBVIOUS
<1> HIDE DEF left
<1>3. busy \in BOOLEAN /\ (busy <=> left > 0)
  BY <1>2, SMT
<1> HIDE DEF busy
<1>6. /\ c \in Stores /\ c.key = s.key /\ c.shown = s.shown /\ c.busy = s.busy
      /\ c.loading = s.loading /\ c.requests = left /\ c.refreshing = busy
      /\ c.loads = s.loads \ {r}
  BY <1>1, <1>2, <1>3 DEF Stores
<1> HIDE DEF c, b
<1>7. CASE r.key # s.key[r.list]
  BY <1>3, <1>4, <1>5, <1>6, <1>7 DEF b
<1>8. CASE r.key = s.key[r.list]
  <2> DEFINE free == [s.busy EXCEPT ![r.list] = FALSE]
             lists == [s.shown EXCEPT ![r.list] = shown]
             nowLoading == s.busy[Other(r.list)]
  <2>1. free \in [Lists -> BOOLEAN] /\ lists \in [Lists -> 0..MaxScheduleLoads]
        /\ nowLoading \in BOOLEAN
    BY <1>1 DEF Stores
  <2>2. b = [c EXCEPT !.busy = free, !.loading = nowLoading, !.shown = lists]
    BY <1>4, <1>6, <1>8
  <2> HIDE DEF free, lists, nowLoading
  <2>3. /\ b \in Stores /\ b.key = c.key /\ b.busy = free /\ b.loading = nowLoading
        /\ b.requests = c.requests /\ b.refreshing = c.refreshing /\ b.loads = c.loads
    BY <1>6, <2>1, <2>2 DEF Stores
  <2> QED
    BY <1>3, <1>5, <1>6, <1>8, <2>3 DEF free, nowLoading, b
<1> QED
  BY <1>7, <1>8 DEF b

\* So does one that ends: it was the only one with its key.
LEMMA EndsGood ==
    ASSUME NEW s, Good(s), NEW r \in s.loads, NEW shown \in 0..MaxScheduleLoads
    PROVE  Good(Ends(s, r, shown))
<1> DEFINE b == Ends(s, r, shown)
           last == r.key = s.key[r.list]
<1>0. s \in Stores
  BY DEF Good
<1>1. /\ b \in Stores /\ b.key = s.key /\ b.loads = s.loads \ {r}
      /\ b.requests = IF r.refresh /\ s.requests > 0 THEN s.requests - 1 ELSE s.requests
      /\ b.refreshing <=> b.requests > 0
      /\ b.busy = IF last THEN [s.busy EXCEPT ![r.list] = FALSE] ELSE s.busy
      /\ b.loading <=> IF last THEN s.busy[Other(r.list)] ELSE s.loading
  BY <1>0, EndsFields
<1> HIDE DEF b
<1>2. LoadsHaveKeys(b)
  BY <1>1 DEF Good, LoadsHaveKeys
<1>3. Counted(b)
  <2>1. /\ IsFiniteSet(s.loads) /\ s.requests = Cardinality(Refreshes(s)) /\ s.requests \in Nat
        /\ s.requests <= s.key["all"] + s.key["mine"]
        /\ {s.key["all"], s.key["mine"]} \subseteq Nat
    BY <1>0 DEF Good, Counted, Stores, Lists
  <2>2. IsFiniteSet(b.loads) /\ IsFiniteSet(Refreshes(s))
    BY <1>1, <2>1, FS_Subset DEF Refreshes
  <2>3. b.requests = Cardinality(Refreshes(b)) /\ b.requests <= s.requests
    <3>1. CASE r.refresh
      <4>1. Refreshes(b) = Refreshes(s) \ {r} /\ r \in Refreshes(s)
        BY <3>1, <1>1 DEF Refreshes
      <4>2. Cardinality(Refreshes(b)) = Cardinality(Refreshes(s)) - 1
        BY <4>1, <2>2, FS_RemoveElement
      <4>3. Refreshes(s) # {}
        BY <4>1
      <4>4. Cardinality(Refreshes(s)) # 0
        BY <4>3, <2>2, FS_EmptySet
      <4> QED
        BY <4>2, <4>4, <2>1, <3>1, <1>1
    <3>2. CASE ~r.refresh
      <4>1. Refreshes(b) = Refreshes(s)
        BY <3>2, <1>1 DEF Refreshes
      <4> QED
        BY <4>1, <2>1, <3>2, <1>1
    <3> QED
      BY <3>1, <3>2
  <2> QED
    BY <1>1, <2>1, <2>2, <2>3 DEF Counted, Stores
<1>4. BusyIsLoading(b)
  <2>0. r \in Loads /\ r.list \in Lists
    BY <1>0 DEF Stores, Loads
  <2>1. CASE last
    <3>1. \A m \in Lists : b.busy[m] <=> m # r.list /\ s.busy[m]
      BY <1>0, <1>1, <2>0, <2>1 DEF Stores
    <3>2. b.loading <=> \E m \in Lists : b.busy[m]
      BY <1>1, <2>0, <2>1, <3>1, OtherList DEF Lists
    <3>3. ASSUME NEW m \in Lists
          PROVE  b.busy[m] <=> \E q \in b.loads : q.list = m /\ q.key = b.key[m] /\ ~q.refresh
      <4>1. CASE m = r.list
        BY <4>1, <3>1, <1>1, <2>1 DEF Good, LoadsHaveKeys
      <4>2. CASE m # r.list
        BY <4>2, <3>1, <1>1 DEF Good, BusyIsLoading
      <4> QED
        BY <4>1, <4>2
    <3> QED
      BY <3>2, <3>3 DEF BusyIsLoading
  <2>2. CASE ~last
    <3>1. ASSUME NEW m \in Lists
          PROVE  b.busy[m] <=> \E q \in b.loads : q.list = m /\ q.key = b.key[m] /\ ~q.refresh
      BY <1>1, <2>2 DEF Good, BusyIsLoading
    <3> QED
      BY <1>1, <2>2, <3>1 DEF Good, BusyIsLoading
  <2> QED
    BY <2>1, <2>2
<1> QED
  BY <1>1, <1>2, <1>3, <1>4 DEF Good, b

\* What the lists show has no part in it.
LEMMA ShownGood ==
    ASSUME NEW s, Good(s), NEW shown \in [Lists -> 0..MaxScheduleLoads]
    PROVE  Good([s EXCEPT !.shown = shown])
<1> DEFINE b == [s EXCEPT !.shown = shown]
<1>1. /\ b \in Stores /\ b.key = s.key /\ b.busy = s.busy /\ b.loading = s.loading
      /\ b.requests = s.requests /\ b.refreshing = s.refreshing /\ b.loads = s.loads
  BY DEF Good, Stores
<1> HIDE DEF b
<1>2. LoadsHaveKeys(b) /\ Counted(b) /\ BusyIsLoading(b)
  BY <1>1 DEF Good, LoadsHaveKeys, Counted, Refreshes, BusyIsLoading
<1> QED
  BY <1>1, <1>2 DEF Good, b

LEMMA StoreNextInv == StoreInv /\ [StoreNext]_storeVars => StoreInv'
<1> SUFFICES ASSUME StoreInv, [StoreNext]_storeVars PROVE StoreInv'
  OBVIOUS
<1> USE DEF StoreInv
<1>0. /\ Good(store) /\ store \in Stores /\ change \in [Changes -> ChangeRecords]
      /\ NoChange \in ChangeRecords /\ \A l \in Lists : store.key[l] \in Nat
      /\ store.shown \in [Lists -> 0..MaxScheduleLoads]
  BY StoreAssumption DEF Good, Stores, NoChange, ChangeRecords
<1>1. ASSUME NEW l \in Lists, NEW wished \in BOOLEAN, LoadSchedules(l, wished) PROVE StoreInv'
  <2>1. store.key[l] + 1 <= MaxScheduleLoads
    BY <1>1 DEF LoadSchedules, MayLoad
  <2> QED
    BY <2>1, <1>0, <1>1, BeganGood DEF LoadSchedules
<1>2. ASSUME NEW r \in store.loads, LoadEnds(r) PROVE StoreInv'
  <2>1. {0, r.key, store.shown[r.list]} \subseteq 0..MaxScheduleLoads
    BY <1>0, StoreAssumption DEF Stores, Loads
  <2>2. PICK shown \in {0, r.key, store.shown[r.list]} : store' = Ends(store, r, shown)
    BY <1>2 DEF LoadEnds
  <2>3. shown \in 0..MaxScheduleLoads
    BY <2>1, <2>2
  <2>4. Good(store')
    BY <2>2, <2>3, <1>0, EndsGood
  <2> QED
    BY <2>4, <1>0, <1>2 DEF LoadEnds
<1>3. ASSUME NEW c \in Changes, NEW step \in {"deleting", "answering", "saving"},
             change' = [change EXCEPT ![c] = [step |-> step, before |-> store.shown]],
             UNCHANGED store
      PROVE  StoreInv'
  <2>1. [step |-> step, before |-> store.shown] \in ChangeRecords
    BY <1>0 DEF ChangeRecords
  <2> QED
    BY <2>1, <1>0, <1>3
<1>4. ASSUME NEW c \in Changes, StartDelete(c) \/ StartAnswer(c) \/ StartSave(c) PROVE StoreInv'
  BY <1>3, <1>4 DEF StartDelete, StartAnswer, StartSave
<1>5. ASSUME NEW c \in Changes, DeleteEnds(c) PROVE StoreInv'
  <2>1. PICK gone \in SUBSET Lists :
            store' = [store EXCEPT !.shown =
                        [l \in Lists |-> IF l \in gone THEN 0 ELSE change[c].before[l]]]
    BY <1>5 DEF DeleteEnds
  <2>2. [l \in Lists |-> IF l \in gone THEN 0 ELSE change[c].before[l]]
           \in [Lists -> 0..MaxScheduleLoads]
    BY <1>0, StoreAssumption DEF ChangeRecords
  <2>3. Good(store')
    BY <2>1, <2>2, <1>0, ShownGood
  <2> QED
    BY <2>3, <1>0, <1>5 DEF DeleteEnds
<1>6. ASSUME NEW c \in Changes, AnswerFails(c) PROVE StoreInv'
  <2>1. change[c].before \in [Lists -> 0..MaxScheduleLoads]
    BY <1>0 DEF ChangeRecords
  <2> QED
    BY <2>1, <1>0, <1>6, ShownGood DEF AnswerFails
<1>7. ASSUME NEW c \in Changes, ChangeSucceeds(c) PROVE StoreInv'
  BY <1>0, <1>7 DEF ChangeSucceeds, ChangeRecords
<1>8. ASSUME NEW c \in Changes, SaveFails(c) PROVE StoreInv'
  BY <1>0, <1>8 DEF SaveFails
<1>9. ASSUME NEW c \in Changes, Reload(c) PROVE StoreInv'
  <2>1. \A l \in Lists : store.key[l] + 1 <= MaxScheduleLoads
    BY <1>9 DEF Reload, MayLoad
  <2> DEFINE first == Began(store, "all", TRUE)
  <2>2. Good(first) /\ first.key["mine"] = store.key["mine"]
    BY <2>1, <1>0, BeganGood DEF Lists
  <2>3. store' = Began(first, "mine", TRUE) /\ change' = [change EXCEPT ![c] = NoChange]
    BY <1>9 DEF Reload
  <2> HIDE DEF first
  <2>4. Good(store')
    BY <2>1, <2>2, <2>3, BeganGood DEF Lists
  <2> QED
    BY <2>3, <2>4, <1>0
<1>10. CASE UNCHANGED storeVars
  BY <1>10 DEF storeVars
<1> QED
  BY <1>1, <1>2, <1>4, <1>5, <1>6, <1>7, <1>8, <1>9, <1>10 DEF StoreNext

LEMMA StoreInductive == StoreSpec => []StoreInv
  BY StoreInitInv, StoreNextInv, PTL DEF StoreSpec

\* The variables of the schedule store have their types.
THEOREM StoreTypes == StoreSpec => []StoreTypeOK
<1>1. StoreInv => StoreTypeOK
  <2> SUFFICES ASSUME StoreInv PROVE StoreTypeOK
    OBVIOUS
  <2>1. store \in Stores /\ change \in [Changes -> ChangeRecords]
    BY DEF StoreInv, Good
  <2>2. store.requests \in 0..(2 * MaxScheduleLoads)
    <3>1. /\ store.key["all"] \in 0..MaxScheduleLoads /\ store.key["mine"] \in 0..MaxScheduleLoads
          /\ store.requests \in Nat /\ store.requests <= store.key["all"] + store.key["mine"]
      BY <2>1 DEF StoreInv, Good, Counted, Stores, Lists
    <3> QED
      BY <3>1, StoreAssumption
  <2> QED
    BY <2>1, <2>2 DEF StoreTypeOK, Stores, ChangeRecords
<1> QED
  BY <1>1, StoreInductive, PTL

\* For any number of loads and changes that overlap, the indicators of loading and
\* refreshing are on exactly while what they stand for is in flight (scheduleStore,
\* SpinnersMatchLoads).
THEOREM SpinnersAreTrue == StoreSpec => []SpinnersMatchLoads
<1>1. StoreInv => SpinnersMatchLoads
  BY DEF StoreInv, Good, Counted, BusyIsLoading, Refreshes, SpinnersMatchLoads
<1> QED
  BY <1>1, StoreInductive, PTL

-----------------------------------------------------------------------------
(***************************************************************************)
(* MCClientSafety. A behaviour of the composition is one of each part,     *)
(* since what moves one of them leaves the others alone.                   *)
(***************************************************************************)
LEMMA AppStarts ==
    MCInit => /\ ClientInit /\ ListInit /\ StoreInit /\ LibraryInit /\ FormInit
              /\ PageInit /\ EditorInit
  BY DEF MCInit

LEMMA AppMoves ==
    [MCNext]_MCVars => /\ [ClientNext]_clientVars /\ [ListNext]_listVars
                       /\ [StoreNext]_storeVars /\ [LibraryNext]_libraryVars
                       /\ [FormNext]_formVars /\ [PageNext]_pageVars
                       /\ [EditorNext]_editorVars
  BY DEF MCNext, MCVars

\* Every part of the app in the composition behaves as its own module says, so that all of
\* the theorems above hold of it.
LEMMA AppBehaves ==
    MCSpec => /\ ListSpec /\ StoreSpec /\ LibrarySpec /\ FormSpec /\ PageSpec /\ EditorSpec
  BY AppStarts, AppMoves, PTL
  DEF MCSpec, ListSpec, StoreSpec, LibrarySpec, FormSpec, PageSpec, EditorSpec

\* What the app keeps and shows has its types; in particular calls nest no deeper than
\* four, a list has no row twice, and the history of the editor has its limit (ClientTypes).
THEOREM ClientTypesAll == MCSpec => []ClientTypes
<1>1. MCSpec => []ClientTypeOK
  BY AppStarts, AppMoves, ClientInitInv, ClientNextInv, ClientInvTypes, PTL DEF MCSpec
<1>2. ClientTypeOK /\ ListTypeOK /\ StoreTypeOK /\ LibraryTypeOK /\ FormTypeOK
         /\ PageTypeOK /\ EditorTypeOK => ClientTypes
  BY DEF ClientTypes
<1> QED
  BY <1>1, <1>2, AppBehaves, ListTypes, StoreTypes, LibraryTypes, FormTypes, PageTypes,
     EditorTypes, PTL
=============================================================================
