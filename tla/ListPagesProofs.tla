--------------------------- MODULE ListPagesProofs ---------------------------
(***************************************************************************)
(* Reading a table page after page while it changes, for any number of     *)
(* rows and writers and any bounds of a page.  Ranks are what a change     *)
(* moves: a row that leaves moves the later ones up by one, so that at     *)
(* most one passes the reader's offset; one that comes, or moves forward,  *)
(* moves the others down by one, so that at most one falls behind it.      *)
(***************************************************************************)
EXTENDS ListPages, FiniteSetTheorems, FunctionTheorems, TLAPS

-----------------------------------------------------------------------------
(* Sets.                                                                   *)

(* A set with at most one new element has grown by one at most. *)
LEMMA OneMore ==
  ASSUME NEW S, IsFiniteSet(S), NEW T, \A x, y \in T \ S : x = y
  PROVE  /\ IsFiniteSet(T) /\ Cardinality(T) \in Nat
         /\ Cardinality(T) <= Cardinality(S) + 1
<1>1. Cardinality(S) \in Nat
  BY FS_CardinalityType
<1>2. CASE T \subseteq S
  BY <1>1, <1>2, FS_Subset, FS_CardinalityType
<1>3. CASE ~(T \subseteq S)
  <2>1. PICK x \in T \ S : TRUE
    BY <1>3
  <2>2. T \in SUBSET (S \union {x})
    BY <2>1
  <2>3. /\ IsFiniteSet(S \union {x})
        /\ Cardinality(S \union {x}) = Cardinality(S) + 1
    BY <2>1, FS_AddElement
  <2>4. IsFiniteSet(T) /\ Cardinality(T) <= Cardinality(S \union {x})
    BY <2>2, <2>3, FS_Subset
  <2>5. QED
    BY <2>3, <2>4, FS_CardinalityType
<1>4. QED
  BY <1>2, <1>3

-----------------------------------------------------------------------------
(* Tables and the order of their rows.                                     *)

BeforeIn(table, k, j) ==
  \/ table[k].updated > table[j].updated
  \/ table[k].updated = table[j].updated /\ k > j

ListedIn(table) == {k \in Ids : Found(table[k])}
AheadIn(table, k) == {j \in ListedIn(table) : BeforeIn(table, j, k)}
RankIn(table, k) == Cardinality(AheadIn(table, k))

LEMMA InTable ==
  ASSUME NEW k, NEW j
  PROVE  /\ Before(k, j) <=> BeforeIn(rows, k, j)
         /\ Listed = ListedIn(rows) /\ Ahead(k) = AheadIn(rows, k)
         /\ Rank(k) = RankIn(rows, k)
         /\ Listed' = ListedIn(rows') /\ Ahead(k)' = AheadIn(rows', k)
         /\ Rank(k)' = RankIn(rows', k)
BY DEF Before, BeforeIn, Listed, ListedIn, Ahead, AheadIn, Rank, RankIn, Found

LEMMA RankFinite ==
  ASSUME NEW table, NEW k
  PROVE  /\ IsFiniteSet(ListedIn(table)) /\ IsFiniteSet(AheadIn(table, k))
         /\ RankIn(table, k) \in Nat
<1>1. AheadIn(table, k) \in SUBSET Ids /\ ListedIn(table) \in SUBSET Ids
  BY DEF AheadIn, ListedIn
<1>2. IsFiniteSet(AheadIn(table, k)) /\ IsFiniteSet(ListedIn(table))
  BY <1>1, ListAssumption, FS_Subset
<1>3. QED
  BY <1>2, FS_CardinalityType DEF RankIn

(* ORDER BY updated_at DESC, id DESC is a total order. *)
LEMMA TotalOrder ==
  ASSUME NEW table \in [Ids -> Rows], NEW i \in Ids, NEW j \in Ids, NEW k \in Ids
  PROVE  /\ i = j \/ BeforeIn(table, i, j) \/ BeforeIn(table, j, i)
         /\ ~BeforeIn(table, i, i)
         /\ ~(BeforeIn(table, i, j) /\ BeforeIn(table, j, i))
         /\ BeforeIn(table, i, j) /\ BeforeIn(table, j, k) => BeforeIn(table, i, k)
<1>1. /\ table[i].updated \in Nat /\ table[j].updated \in Nat /\ table[k].updated \in Nat
      /\ i \in Nat /\ j \in Nat /\ k \in Nat
  BY ListAssumption DEF Rows, Times
<1>2. QED
  BY <1>1 DEF BeforeIn

LEMMA RanksGrow ==
  ASSUME NEW table \in [Ids -> Rows], NEW i \in ListedIn(table), NEW k \in Ids,
         BeforeIn(table, i, k)
  PROVE  RankIn(table, i) < RankIn(table, k)
<1>1. i \in AheadIn(table, k) /\ i \in Ids
  BY DEF AheadIn, ListedIn
<1>2. AheadIn(table, i) \in SUBSET (AheadIn(table, k) \ {i})
  <2>1. ASSUME NEW j \in AheadIn(table, i) PROVE j \in AheadIn(table, k) \ {i}
    BY <1>1, TotalOrder DEF AheadIn, ListedIn
  <2>2. QED
    BY <2>1
<1>3. /\ IsFiniteSet(AheadIn(table, k) \ {i})
      /\ Cardinality(AheadIn(table, k) \ {i}) = RankIn(table, k) - 1
  BY <1>1, RankFinite, FS_RemoveElement DEF RankIn
<1>4. RankIn(table, i) <= RankIn(table, k) - 1
  BY <1>2, <1>3, FS_Subset DEF RankIn
<1>5. QED
  BY <1>4, RankFinite

LEMMA RanksDiffer ==
  ASSUME NEW table \in [Ids -> Rows], NEW i \in ListedIn(table), NEW k \in ListedIn(table),
         RankIn(table, i) = RankIn(table, k)
  PROVE  i = k
<1>1. i \in Ids /\ k \in Ids
  BY DEF ListedIn
<1>2. ~BeforeIn(table, i, k) /\ ~BeforeIn(table, k, i)
  BY <1>1, RanksGrow, RankFinite
<1>3. QED
  BY <1>1, <1>2, TotalOrder

-----------------------------------------------------------------------------
(* A page.                                                                 *)

(* A page follows the rows that are skipped, and what it leaves comes last. *)
Follows(items, A, found, order, number, limit) ==
  /\ Cardinality(A) = Smaller(Offset(number, limit), Cardinality(found))
  /\ A \X (found \ A) \subseteq order
  /\ items \subseteq found \ A
  /\ Cardinality(items) = Smaller(limit, Cardinality(found \ A))
  /\ items \X (found \ (A \union items)) \subseteq order

LEMMA PagesAtMember ==
  ASSUME NEW found, NEW order, NEW number, NEW limit,
         NEW items \in PagesAt(found, order, number, limit)
  PROVE  \E A \in SUBSET found : Follows(items, A, found, order, number, limit)
  BY DEF PagesAt, Follows

LEMMA PageMovesOn ==
  ASSUME TypeOK
  PROVE  /\ Offset(page, size) \in Nat
         /\ Offset(page + 1, size) = Offset(page, size) + size
         /\ Offset(1, size) = 0
<1>1. page - 1 \in Nat /\ size \in Nat
  BY ListAssumption DEF TypeOK
<1>2. (page - 1) * size \in Nat
  BY <1>1
<1>3. ((page + 1) - 1) * size = (page - 1) * size + size
  <2>1. \A m, n \in Nat : (m + 1) * n = m * n + n
    OBVIOUS
  <2>2. (page + 1) - 1 = (page - 1) + 1
    BY <1>1 DEF TypeOK
  <2>3. QED
    BY <1>1, <2>1, <2>2
<1>4. (1 - 1) * size = 0
  BY <1>1
<1>5. QED
  BY <1>2, <1>3, <1>4 DEF Offset

(* The page that is found holds the rows whose ranks are from its offset up
   to the next page's, and is full if a row comes later. *)
LEMMA PageRanks ==
  ASSUME TypeOK, NEW items \in PagesAt(Listed, LatestFirst, page, size)
  PROVE  /\ items \subseteq Listed /\ IsFiniteSet(items) /\ Cardinality(items) \in Nat
         /\ \A k \in items : /\ Rank(k) >= Offset(page, size)
                             /\ Rank(k) < Offset(page, size) + size
         /\ \A k \in Listed \ items : Rank(k) >= Offset(page, size) =>
              /\ Cardinality(items) = size
              /\ Rank(k) >= Offset(page, size) + size
<1> DEFINE offset == Offset(page, size)
<1>1. PICK A \in SUBSET Listed :
        /\ Cardinality(A) = Smaller(offset, Cardinality(Listed))
        /\ A \X (Listed \ A) \subseteq LatestFirst
        /\ items \subseteq Listed \ A
        /\ Cardinality(items) = Smaller(size, Cardinality(Listed \ A))
        /\ items \X (Listed \ (A \union items)) \subseteq LatestFirst
  <2>1. PICK A \in SUBSET Listed : Follows(items, A, Listed, LatestFirst, page, size)
    BY PagesAtMember
  <2>2. QED
    BY <2>1 DEF Follows
<1>2. IsFiniteSet(Listed) /\ Cardinality(Listed) \in Nat /\ Listed \subseteq Ids
  BY InTable, RankFinite, FS_CardinalityType DEF Listed
<1>3. offset \in Nat /\ size \in Nat
  BY PageMovesOn, ListAssumption DEF TypeOK
<1> HIDE DEF offset
<1>4. /\ IsFiniteSet(A) /\ Cardinality(A) \in Nat
      /\ IsFiniteSet(items) /\ Cardinality(items) \in Nat
      /\ IsFiniteSet(Listed \ A) /\ Cardinality(Listed \ A) \in Nat
  BY <1>1, <1>2, FS_Subset, FS_CardinalityType
<1>5. /\ Cardinality(A) <= offset /\ Cardinality(items) <= size
      /\ Cardinality(A) = offset \/ A = Listed
      /\ Cardinality(items) = size \/ items = Listed \ A
  <2>1. Cardinality(A) = Cardinality(Listed) => A = Listed
    BY <1>2, FS_Subset
  <2>2. Cardinality(items) = Cardinality(Listed \ A) => items = Listed \ A
    BY <1>1, <1>4, FS_Subset
  <2>3. QED
    BY <1>1, <1>2, <1>3, <1>4, <2>1, <2>2 DEF Smaller
<1>6. /\ IsFiniteSet(A \union items)
      /\ Cardinality(A \union items) = Cardinality(A) + Cardinality(items)
  <2>1. A \cap items = {}
    BY <1>1
  <2>2. Cardinality(A \cap items) = 0
    BY <2>1, FS_EmptySet
  <2>3. /\ IsFiniteSet(A \union items)
        /\ Cardinality(A \union items)
             = Cardinality(A) + Cardinality(items) - Cardinality(A \cap items)
    BY <1>4, FS_Union
  <2>4. QED
    BY <1>4, <2>2, <2>3
<1>7. \A k \in Listed : /\ IsFiniteSet(Ahead(k)) /\ Rank(k) \in Nat
                        /\ Rank(k) = Cardinality(Ahead(k))
  BY InTable, RankFinite DEF Rank
<1>8. \A k, j \in Listed : <<k, j>> \in LatestFirst /\ k # j =>
        Before(k, j) /\ ~Before(j, k)
  <2> SUFFICES ASSUME NEW k \in Listed, NEW j \in Listed, <<k, j>> \in LatestFirst, k # j
               PROVE  Before(k, j) /\ ~Before(j, k)
    OBVIOUS
  <2>1. Before(k, j)
    BY DEF LatestFirst
  <2>2. rows \in [Ids -> Rows] /\ k \in Ids /\ j \in Ids
    BY <1>2 DEF TypeOK
  <2>3. QED
    BY <2>1, <2>2, InTable, TotalOrder
<1>9. ASSUME NEW S \in SUBSET Listed, IsFiniteSet(S), Cardinality(S) \in Nat,
             S \X (Listed \ S) \subseteq LatestFirst
      PROVE  /\ \A k \in S : Rank(k) < Cardinality(S)
             /\ \A k \in Listed \ S : Rank(k) >= Cardinality(S)
  <2>1. ASSUME NEW k \in S PROVE Rank(k) < Cardinality(S)
    <3>1. ASSUME NEW j \in Listed \ S PROVE ~Before(j, k)
      BY <1>8, <1>9
    <3>2. ~Before(k, k)
      BY <1>2, InTable, TotalOrder DEF TypeOK
    <3>3. Ahead(k) \in SUBSET (S \ {k})
      BY <3>1, <3>2 DEF Ahead
    <3>4. IsFiniteSet(S \ {k}) /\ Cardinality(S \ {k}) = Cardinality(S) - 1
      BY <1>9, FS_RemoveElement
    <3>5. Rank(k) <= Cardinality(S) - 1
      BY <1>7, <3>3, <3>4, FS_Subset
    <3>6. QED
      BY <1>7, <1>9, <3>5
  <2>2. ASSUME NEW k \in Listed \ S PROVE Rank(k) >= Cardinality(S)
    <3>1. S \in SUBSET Ahead(k)
      BY <1>8, <1>9 DEF Ahead
    <3>2. QED
      BY <1>7, <1>9, <3>1, FS_Subset
  <2>3. QED
    BY <2>1, <2>2
<1>10. /\ \A k \in A : Rank(k) < Cardinality(A)
       /\ \A k \in Listed \ A : Rank(k) >= Cardinality(A)
  BY <1>1, <1>4, <1>9
<1>11. /\ \A k \in A \union items : Rank(k) < Cardinality(A \union items)
       /\ \A k \in Listed \ (A \union items) : Rank(k) >= Cardinality(A \union items)
  <2>1. (A \union items) \X (Listed \ (A \union items)) \subseteq LatestFirst
    BY <1>1
  <2>2. A \union items \in SUBSET Listed /\ Cardinality(A \union items) \in Nat
    BY <1>1, <1>4, <1>6
  <2>3. QED
    BY <1>6, <1>9, <2>1, <2>2
<1>12. ASSUME NEW k \in items PROVE Rank(k) >= offset /\ Rank(k) < offset + size
  <2>1. Cardinality(A) = offset
    BY <1>1, <1>5
  <2>2. Rank(k) < Cardinality(A) + Cardinality(items)
    BY <1>6, <1>11
  <2>3. QED
    BY <1>1, <1>3, <1>4, <1>5, <1>7, <1>10, <2>1, <2>2
<1>13. ASSUME NEW k \in Listed \ items, Rank(k) >= offset
       PROVE  Cardinality(items) = size /\ Rank(k) >= offset + size
  <2>1. k \notin A
    BY <1>3, <1>4, <1>5, <1>7, <1>10, <1>13
  <2>2. Cardinality(A) = offset /\ Cardinality(items) = size
    BY <1>5, <2>1
  <2>3. QED
    BY <1>6, <1>11, <2>1, <2>2
<1>14. QED
  BY <1>1, <1>4, <1>12, <1>13 DEF offset

-----------------------------------------------------------------------------
(* A change of one row.                                                    *)

(* A row that comes, or moves forward, moves others one place back. *)
LEMMA OneComes ==
  ASSUME NEW table \in [Ids -> Rows], NEW new \in [Ids -> Rows], NEW k \in Ids,
         \A i \in Ids \ {k} : new[i] = table[i], Found(new[k]),
         Found(table[k]) => new[k].updated >= table[k].updated
  PROVE  /\ \A i \in Ids \ {k} :
              /\ RankIn(table, i) <= RankIn(new, i) /\ RankIn(new, i) <= RankIn(table, i) + 1
              /\ RankIn(new, i) = RankIn(table, i) \/ k \in AheadIn(new, i)
         /\ Found(table[k]) => RankIn(new, k) <= RankIn(table, k)
<1>1. ASSUME NEW i \in Ids \ {k}
      PROVE  /\ RankIn(table, i) <= RankIn(new, i) /\ RankIn(new, i) <= RankIn(table, i) + 1
             /\ RankIn(new, i) = RankIn(table, i) \/ k \in AheadIn(new, i)
  <2>1. \A j \in Ids \ {k} : j \in AheadIn(new, i) <=> j \in AheadIn(table, i)
    BY DEF AheadIn, ListedIn, BeforeIn
  <2>2. k \in AheadIn(table, i) => k \in AheadIn(new, i)
    <3>1. /\ table[i].updated \in Nat /\ table[k].updated \in Nat
          /\ new[k].updated \in Nat
      BY ListAssumption DEF Rows, Times
    <3>2. QED
      BY <3>1 DEF AheadIn, ListedIn, BeforeIn
  <2>3. AheadIn(new, i) \subseteq Ids /\ AheadIn(table, i) \subseteq Ids
    BY DEF AheadIn, ListedIn
  <2>4. AheadIn(table, i) \in SUBSET AheadIn(new, i)
    BY <2>1, <2>2, <2>3
  <2>5. RankIn(table, i) <= RankIn(new, i)
    BY <2>4, RankFinite, FS_Subset DEF RankIn
  <2>6. CASE k \in AheadIn(new, i)
    <3>1. \A x, y \in AheadIn(new, i) \ AheadIn(table, i) : x = y
      BY <2>1, <2>3
    <3>2. RankIn(new, i) <= RankIn(table, i) + 1
      BY <3>1, RankFinite, OneMore DEF RankIn
    <3>3. QED
      BY <2>5, <2>6, <3>2
  <2>7. CASE k \notin AheadIn(new, i)
    <3>1. AheadIn(new, i) = AheadIn(table, i)
      BY <2>1, <2>3, <2>4, <2>7
    <3>2. QED
      BY <2>5, <3>1, RankFinite DEF RankIn
  <2>8. QED
    BY <2>6, <2>7
<1>2. ASSUME Found(table[k]) PROVE RankIn(new, k) <= RankIn(table, k)
  <2>1. AheadIn(new, k) \in SUBSET AheadIn(table, k)
    <3>1. ASSUME NEW j \in AheadIn(new, k) PROVE j \in AheadIn(table, k)
      <4>1. j \in Ids /\ j # k
        BY TotalOrder DEF AheadIn, ListedIn
      <4>2. /\ table[j].updated \in Nat /\ table[k].updated \in Nat
            /\ new[k].updated \in Nat /\ new[j] = table[j]
        BY <4>1, ListAssumption DEF Rows, Times
      <4>3. QED
        BY <1>2, <4>1, <4>2 DEF AheadIn, ListedIn, BeforeIn
    <3>2. QED
      BY <3>1
  <2>2. QED
    BY <2>1, RankFinite, FS_Subset DEF RankIn
<1>3. QED
  BY <1>1, <1>2

(* A row that leaves moves others one place forward. *)
LEMMA OneLeaves ==
  ASSUME NEW table \in [Ids -> Rows], NEW new \in [Ids -> Rows], NEW k \in Ids,
         \A i \in Ids \ {k} : new[i] = table[i], ~Found(new[k]),
         NEW i \in Ids \ {k}
  PROVE  /\ RankIn(new, i) <= RankIn(table, i) /\ RankIn(table, i) <= RankIn(new, i) + 1
         /\ RankIn(new, i) = RankIn(table, i) \/ k \in AheadIn(table, i)
<1>1. \A j \in Ids \ {k} : j \in AheadIn(new, i) <=> j \in AheadIn(table, i)
  BY DEF AheadIn, ListedIn, BeforeIn
<1>2. k \notin AheadIn(new, i)
  BY DEF AheadIn, ListedIn
<1>3. AheadIn(new, i) \subseteq Ids /\ AheadIn(table, i) \subseteq Ids
  BY DEF AheadIn, ListedIn
<1>4. AheadIn(new, i) \in SUBSET AheadIn(table, i)
  BY <1>1, <1>2, <1>3
<1>5. RankIn(new, i) <= RankIn(table, i)
  BY <1>4, RankFinite, FS_Subset DEF RankIn
<1>6. \A x, y \in AheadIn(table, i) \ AheadIn(new, i) : x = y
  BY <1>1, <1>3
<1>7. RankIn(table, i) <= RankIn(new, i) + 1
  BY <1>6, RankFinite, OneMore DEF RankIn
<1>8. CASE k \notin AheadIn(table, i)
  <2>1. AheadIn(new, i) = AheadIn(table, i)
    BY <1>1, <1>3, <1>4, <1>8
  <2>2. QED
    BY <1>5, <1>7, <2>1 DEF RankIn
<1>9. QED
  BY <1>5, <1>7, <1>8

LEMMA PassedDue ==
  ASSUME TypeOK
  PROVE  /\ IsFiniteSet(Passed) /\ Cardinality(Passed) \in Nat
         /\ IsFiniteSet(Due) /\ Cardinality(Due) \in Nat
<1>1. Passed \in SUBSET Ids /\ Due \in SUBSET Ids
  BY DEF Passed, Due, Listed
<1>2. QED
  BY <1>1, ListAssumption, FS_Subset, FS_CardinalityType

(* What a change of row k does to the others' ranks, and what may be read of
   its own row. *)
LEMMA ChangedRow ==
  ASSUME TypeOK, NEW k \in Ids, NEW row \in Rows, Changed(k, row)
  PROVE  /\ rows' \in [Ids -> Rows] /\ rows'[k] = row
         /\ \A i \in Ids \ {k} : rows'[i] = rows[i]
BY DEF Changed, TypeOK

(* A row that leaves lets at most one other past the reader's offset; it may
   come back itself only if it was not past it. *)
LEMMA ChangePassed ==
  ASSUME TypeOK, TimesOK, NEW k \in Ids, NEW row \in Rows, Changed(k, row),
         UNCHANGED <<reading, start>>, Cardinality(Passed) <= left,
         row.life = "live" => rows[k].life # "gone" /\ rows[k].updated <= row.updated
  PROVE  Cardinality(Passed') <= left'
<1>1. /\ rows' \in [Ids -> Rows] /\ rows'[k] = row
      /\ \A i \in Ids \ {k} : rows'[i] = rows[i]
  BY ChangedRow
<1>2. rows \in [Ids -> Rows] /\ left \in Nat
  <2>1. Cardinality(Writers) \in Nat
    BY ListAssumption, FS_CardinalityType
  <2>2. QED
    BY <2>1 DEF TypeOK
<1>3. /\ IsFiniteSet(Passed) /\ Cardinality(Passed) \in Nat
      /\ Passed' \subseteq Ids /\ Passed \subseteq Ids
  BY PassedDue DEF Passed
<1>4. PICK offset : offset = Offset(page, size)
  OBVIOUS
<1>5. /\ offset \in Nat /\ Offset(page, size)' = offset
      /\ shown' = shown /\ atEnd' = atEnd /\ start' = start
  BY <1>4, PageMovesOn DEF reading, Offset
<1>6. \A i \in Ids : i \in Passed' <=>
        /\ Found(start[i]) /\ shown[i] = 0
        /\ rows'[i].life = "live" /\ rows'[i].updated = start[i].updated
        /\ Found(rows'[i]) => atEnd \/ RankIn(rows', i) < offset
  BY <1>5, InTable DEF Passed, Found
<1>7. \A i \in Ids : i \in Passed <=>
        /\ Found(start[i]) /\ shown[i] = 0
        /\ rows[i].life = "live" /\ rows[i].updated = start[i].updated
        /\ Found(rows[i]) => atEnd \/ RankIn(rows, i) < offset
  BY <1>4, InTable DEF Passed, Found
<1>8. \A i \in Ids : RankIn(rows, i) \in Nat /\ RankIn(rows', i) \in Nat
  BY RankFinite
(* Row k itself. *)
<1>9. ASSUME k \in Passed', k \notin Passed
      PROVE  /\ Found(rows[k]) /\ rows[k].updated = row.updated /\ row.life = "live"
             /\ ~atEnd /\ RankIn(rows, k) >= offset
  <2>1. /\ Found(start[k]) /\ shown[k] = 0
        /\ row.life = "live" /\ row.updated = start[k].updated
    BY <1>1, <1>6, <1>9
  <2>2. rows[k].life = "live" /\ rows[k].updated >= start[k].updated
    <3>1. rows[k].life \in {"absent", "live", "gone"}
      BY <1>2 DEF Rows
    <3>2. QED
      BY <2>1, <3>1 DEF TimesOK
  <2>3. rows[k].updated = row.updated
    <3>1. rows[k].updated \in Nat /\ row.updated \in Nat
      BY <1>2, ListAssumption DEF Rows, Times
    <3>2. QED
      BY <2>1, <2>2, <3>1
  <2>4. Found(rows[k]) /\ ~(atEnd \/ RankIn(rows, k) < offset)
    BY <1>7, <1>9, <2>1, <2>2, <2>3
  <2>5. QED
    BY <1>5, <1>8, <2>1, <2>3, <2>4
<1>10. CASE Found(row)
  <2>1. row.life = "live" /\ row.matches
    BY <1>10 DEF Found
  <2>2. \A i \in Ids \ {k} : RankIn(rows, i) <= RankIn(rows', i)
    BY <1>1, <1>2, <1>10, <2>1, OneComes
  <2>3. ASSUME NEW i \in Passed', i # k PROVE i \in Passed
    BY <1>1, <1>3, <1>5, <1>6, <1>7, <1>8, <2>2, <2>3
  <2>4. ASSUME k \in Passed', k \notin Passed PROVE FALSE
    <3>1. rows[k] = row
      <4>1. /\ rows[k].life = row.life /\ rows[k].matches = row.matches
            /\ rows[k].updated = row.updated
        BY <1>2, <1>9, <1>10, <2>4 DEF Found, Rows
      <4>2. rows[k] \in Rows
        BY <1>2
      <4>3. QED
        BY <4>1, <4>2 DEF Rows
    <3>2. rows' = rows
      BY <1>2, <3>1 DEF Changed
    <3>3. QED
      BY <1>6, <1>7, <2>4, <3>2
  <2>5. Passed' \in SUBSET Passed
    BY <2>3, <2>4
  <2>6. Cardinality(Passed') <= Cardinality(Passed) /\ Cardinality(Passed') \in Nat
    BY <1>3, <2>5, FS_Subset, FS_CardinalityType
  <2>7. left' = left
    BY <1>10 DEF Changed
  <2>8. QED
    BY <1>2, <1>3, <2>6, <2>7
<1>11. CASE ~Found(row)
  <2>1. \A i \in Ids \ {k} :
          /\ RankIn(rows', i) <= RankIn(rows, i) /\ RankIn(rows, i) <= RankIn(rows', i) + 1
          /\ RankIn(rows', i) = RankIn(rows, i) \/ k \in AheadIn(rows, i)
    BY <1>1, <1>2, <1>11, OneLeaves
  <2>2. ASSUME NEW i \in Passed', i # k, i \notin Passed
        PROVE  /\ i \in ListedIn(rows) /\ RankIn(rows, i) = offset
               /\ k \in ListedIn(rows) /\ BeforeIn(rows, k, i)
    <3>1. i \in Ids /\ rows'[i] = rows[i]
      BY <1>1, <1>3, <2>2
    <3>2. Found(rows[i]) /\ RankIn(rows', i) < offset /\ RankIn(rows, i) >= offset
      BY <1>5, <1>6, <1>7, <1>8, <2>2, <3>1
    <3>3. RankIn(rows, i) = offset /\ RankIn(rows', i) # RankIn(rows, i)
      BY <1>5, <1>8, <2>1, <2>2, <3>1, <3>2
    <3>4. QED
      BY <2>1, <2>2, <3>1, <3>2, <3>3 DEF ListedIn, AheadIn
  <2>3. ASSUME NEW i \in Passed' \ Passed, NEW j \in Passed' \ Passed PROVE i = j
    <3>1. CASE i # k /\ j # k
      BY <1>2, <2>2, <2>3, <3>1, RanksDiffer
    <3>2. ASSUME NEW n \in Passed' \ Passed, n # k, k \in Passed' \ Passed PROVE FALSE
      <4>1. RankIn(rows, k) < RankIn(rows, n)
        BY <1>2, <1>3, <2>2, <3>2, RanksGrow
      <4>2. RankIn(rows, n) = offset /\ RankIn(rows, k) >= offset
        BY <1>9, <2>2, <3>2
      <4>3. QED
        BY <1>3, <1>5, <1>8, <3>2, <4>1, <4>2
    <3>3. QED
      BY <2>3, <3>1, <3>2
  <2>4. CASE Found(rows[k])
    <3>1. left' = left + 1
      BY <1>11, <2>4 DEF Changed
    <3>2. Cardinality(Passed') <= Cardinality(Passed) + 1 /\ Cardinality(Passed') \in Nat
      BY <1>3, <2>3, OneMore
    <3>3. QED
      BY <1>2, <1>3, <3>1, <3>2
  <2>5. CASE ~Found(rows[k])
    <3>1. left' = left
      BY <2>5 DEF Changed
    <3>2. Passed' \in SUBSET Passed
      BY <1>9, <2>2, <2>5 DEF ListedIn
    <3>3. Cardinality(Passed') <= Cardinality(Passed) /\ Cardinality(Passed') \in Nat
      BY <1>3, <3>2, FS_Subset, FS_CardinalityType
    <3>4. QED
      BY <1>2, <1>3, <3>1, <3>3
  <2>6. QED
    BY <2>4, <2>5
<1>12. QED
  BY <1>10, <1>11

(* A row that comes, or moves forward, lets at most one that was shown fall
   behind the reader's offset. *)
LEMMA ChangeDue ==
  ASSUME TypeOK, NEW k \in Ids, NEW row \in Rows, Changed(k, row),
         UNCHANGED reading, Cardinality(Due) + Repeats <= came, Repeats \in Nat,
         Found(row) /\ Found(rows[k]) => rows[k].updated <= row.updated
  PROVE  Cardinality(Due') + Repeats' <= came'
<1>1. /\ rows' \in [Ids -> Rows] /\ rows'[k] = row
      /\ \A i \in Ids \ {k} : rows'[i] = rows[i]
  BY ChangedRow
<1>2. rows \in [Ids -> Rows] /\ came \in Nat
  <2>1. Cardinality(Writers) \in Nat
    BY ListAssumption, FS_CardinalityType
  <2>2. QED
    BY <2>1 DEF TypeOK
<1>3. IsFiniteSet(Due) /\ Cardinality(Due) \in Nat /\ Due \subseteq Ids /\ Due' \subseteq Ids
  BY PassedDue DEF Due, Listed
<1>4. PICK offset : offset = Offset(page, size)
  OBVIOUS
<1>5. offset \in Nat /\ Offset(page, size)' = offset /\ shown' = shown /\ Repeats' = Repeats
  BY <1>4, PageMovesOn DEF reading, Offset, Repeats, Again
<1>6. \A i \in Ids :
        i \in Due' <=> i \in ListedIn(rows') /\ shown[i] > 0 /\ RankIn(rows', i) >= offset
  BY <1>5, InTable DEF Due
<1>7. \A i \in Ids :
        i \in Due <=> i \in ListedIn(rows) /\ shown[i] > 0 /\ RankIn(rows, i) >= offset
  BY <1>4, InTable DEF Due
<1>8. \A i \in Ids : RankIn(rows, i) \in Nat /\ RankIn(rows', i) \in Nat
  BY RankFinite
<1>9. \A i \in Ids \ {k} : i \in ListedIn(rows') <=> i \in ListedIn(rows)
  BY <1>1 DEF ListedIn
<1>10. CASE Found(row)
  <2>1. /\ \A i \in Ids \ {k} :
             /\ RankIn(rows, i) <= RankIn(rows', i) /\ RankIn(rows', i) <= RankIn(rows, i) + 1
             /\ RankIn(rows', i) = RankIn(rows, i) \/ k \in AheadIn(rows', i)
        /\ Found(rows[k]) => RankIn(rows', k) <= RankIn(rows, k)
    <3>1. Found(rows[k]) => rows'[k].updated >= rows[k].updated
      <4>1. rows[k].updated \in Nat /\ row.updated \in Nat
        BY <1>2, ListAssumption DEF Rows, Times
      <4>2. QED
        BY <1>1, <1>10, <4>1
    <3>2. QED
      BY <1>1, <1>2, <1>10, <3>1, OneComes
  <2>2. ASSUME NEW i \in Due', i # k, i \notin Due
        PROVE  /\ i \in ListedIn(rows') /\ RankIn(rows', i) = offset
               /\ k \in ListedIn(rows') /\ BeforeIn(rows', k, i)
    <3>1. i \in Ids
      BY <1>3, <2>2
    <3>2. i \in ListedIn(rows') /\ RankIn(rows', i) >= offset /\ RankIn(rows, i) < offset
      BY <1>5, <1>6, <1>7, <1>8, <1>9, <2>2, <3>1
    <3>3. RankIn(rows', i) = offset /\ RankIn(rows', i) # RankIn(rows, i)
      BY <1>5, <1>8, <2>1, <2>2, <3>1, <3>2
    <3>4. QED
      BY <2>1, <2>2, <3>1, <3>2, <3>3 DEF AheadIn
  <2>3. ASSUME NEW i \in Due' \ Due, NEW j \in Due' \ Due PROVE i = j
    <3>1. CASE i # k /\ j # k
      BY <1>1, <2>2, <2>3, <3>1, RanksDiffer
    <3>2. ASSUME NEW n \in Due' \ Due, n # k, k \in Due' \ Due PROVE FALSE
      <4>1. RankIn(rows', k) < RankIn(rows', n)
        BY <1>1, <1>3, <2>2, <3>2, RanksGrow
      <4>2. RankIn(rows', n) = offset /\ RankIn(rows', k) >= offset
        BY <1>6, <2>2, <3>2
      <4>3. QED
        BY <1>3, <1>5, <1>8, <3>2, <4>1, <4>2
    <3>3. QED
      BY <2>3, <3>1, <3>2
  <2>4. came' = came + 1
    BY <1>10 DEF Changed
  <2>5. Cardinality(Due') <= Cardinality(Due) + 1 /\ Cardinality(Due') \in Nat
    BY <1>3, <2>3, OneMore
  <2>6. QED
    BY <1>2, <1>3, <1>5, <2>4, <2>5
<1>11. CASE ~Found(row)
  <2>1. \A i \in Ids \ {k} : RankIn(rows', i) <= RankIn(rows, i)
    BY <1>1, <1>2, <1>11, OneLeaves
  <2>2. k \notin ListedIn(rows')
    BY <1>1, <1>11 DEF ListedIn
  <2>3. ASSUME NEW i \in Due' PROVE i \in Due
    <3>1. i \in Ids \ {k}
      BY <1>3, <1>6, <2>2
    <3>2. QED
      BY <1>5, <1>6, <1>7, <1>8, <1>9, <2>1, <2>3, <3>1
  <2>4. Cardinality(Due') <= Cardinality(Due) /\ Cardinality(Due') \in Nat
    BY <1>3, <2>3, FS_Subset, FS_CardinalityType
  <2>5. came' = came
    BY <1>11 DEF Changed
  <2>6. QED
    BY <1>2, <1>3, <1>5, <2>4, <2>5
<1>12. QED
  BY <1>10, <1>11

-----------------------------------------------------------------------------
(* The writers' steps.                                                     *)

LEMMA RowTypes ==
  /\ Absent \in Rows /\ Gone \in Rows /\ ~Found(Gone) /\ Gone.life = "gone"
  /\ Gone.updated = 0
  /\ \A matches \in BOOLEAN, time \in Times :
       /\ Live(matches, time) \in Rows /\ Live(matches, time).life = "live"
       /\ Live(matches, time).updated = time
<1>1. 0 \in Times
  BY ListAssumption DEF Times
<1>2. Absent \in Rows
  BY <1>1 DEF Absent, Rows
<1>3. Absent.updated = 0
  BY DEF Absent
<1>4. Gone \in Rows /\ Gone.life = "gone" /\ Gone.updated = 0
  BY <1>2, <1>3 DEF Gone, Rows
<1>5. ~Found(Gone)
  BY <1>4 DEF Found
<1>6. \A matches \in BOOLEAN, time \in Times :
        /\ Live(matches, time) \in Rows /\ Live(matches, time).life = "live"
        /\ Live(matches, time).updated = time
  BY DEF Live, Rows
<1>7. QED
  BY <1>2, <1>4, <1>5, <1>6

LEMMA WriteTypes ==
  ASSUME TypeOK, NEW w \in Writers
  PROVE  /\ write[w].at \in {"idle", "read", "done"}
         /\ write[w].at = "idle" <=> write[w] = Idle
         /\ write[w].at = "read" =>
              write[w].id \in Ids /\ write[w].row \in Rows /\ write[w].new \in Rows
<1>1. write[w] \in {Idle, Done} \union [at : {"read"}, id : Ids, row : Rows, new : Rows]
  BY DEF TypeOK
<1>2. QED
  BY <1>1 DEF Idle, Done

(* A writer that is done adds one to those that changed the table. *)
LEMMA ServedOneMore ==
  ASSUME TypeOK, NEW w \in Writers, write[w].at # "done",
         write' = [write EXCEPT ![w] = Done]
  PROVE  /\ Cardinality(Served) \in Nat /\ Cardinality(Served') = Cardinality(Served) + 1
<1>1. Served \in SUBSET Writers /\ IsFiniteSet(Served) /\ Cardinality(Served) \in Nat
  BY ListAssumption, FS_Subset, FS_CardinalityType DEF Served
<1>2. Served' = Served \union {w} /\ w \notin Served
  BY DEF Served, TypeOK, Done
<1>3. QED
  BY <1>1, <1>2, FS_AddElement

LEMMA ServedFinite ==
  ASSUME TypeOK
  PROVE  /\ Cardinality(Served) \in Nat /\ Cardinality(Writers) \in Nat
         /\ Cardinality(Served) <= Cardinality(Writers)
<1>1. Served \in SUBSET Writers
  BY DEF Served
<1>2. QED
  BY <1>1, ListAssumption, FS_Subset, FS_CardinalityType

(* A step that leaves the rows and the pages as they are. *)
LEMMA Untouched ==
  ASSUME TypeOK, Counted, UNCHANGED <<rows, size, page, shown, atEnd, start, left, came>>,
         Served' = Served
  PROVE  Counted'
<1>1. Passed' = Passed
  BY InTable DEF Passed, Found, Offset
<1>2. Due' = Due
  BY InTable DEF Due, Offset
<1>3. Again' = Again /\ Repeats' = Repeats
  BY DEF Again, Repeats
<1>4. QED
  BY <1>1, <1>2, <1>3 DEF Counted

(* One writer's change of one row. *)
LEMMA ChangeCounted ==
  ASSUME TypeOK, TimesOK, Counted, NEW w \in Writers, write[w].at # "done",
         write' = [write EXCEPT ![w] = Done], UNCHANGED <<reading, start>>,
         NEW k \in Ids, NEW row \in Rows, Changed(k, row),
         row.life = "live" => rows[k].life # "gone" /\ rows[k].updated <= row.updated
  PROVE  Counted'
<1>1. Cardinality(Passed') <= left'
  BY ChangePassed DEF Counted
<1>2. Repeats \in Nat
  BY FS_CardinalityType DEF Counted, Repeats
<1>3. Cardinality(Due') + Repeats' <= came'
  BY <1>2, ChangeDue DEF Counted, Found
<1>4. IsFiniteSet(Again')
  BY DEF Counted, Again, reading
<1>5. /\ Cardinality(Served) \in Nat /\ Cardinality(Served') = Cardinality(Served) + 1
      /\ left \in Nat /\ came \in Nat
  <2>1. left \in Nat /\ came \in Nat
    BY ServedFinite DEF TypeOK
  <2>2. QED
    BY <2>1, ServedOneMore
<1>6. left' \in {left, left + 1} /\ came' \in {came, came + 1}
  BY DEF Changed
<1>7. left' <= Cardinality(Served') /\ came' <= Cardinality(Served')
  BY <1>5, <1>6 DEF Counted
<1>8. QED
  BY <1>1, <1>3, <1>4, <1>7 DEF Counted

(* A write that finds the row as it was read, or no row to write. *)
LEMMA WriteCounted ==
  ASSUME TypeOK, TimesOK, Counted, NEW w \in Writers, Write(w)
  PROVE  Counted' /\ TimesOK' /\ rows' \in [Ids -> Rows]
<1>1. /\ write[w].at = "read" /\ write' = [write EXCEPT ![w] = Done]
      /\ UNCHANGED <<now, reading, start>>
  BY DEF Write
<1>2. PICK k \in Ids, row \in Rows, old \in Rows :
        k = write[w].id /\ row = write[w].new /\ old = write[w].row
  BY <1>1, WriteTypes
<1>3. /\ old.life # "gone" /\ row.life = "live"
      /\ old.updated <= row.updated /\ row.updated <= now
  BY <1>1, <1>2 DEF TimesOK
<1>4. \A v \in Writers : write'[v] = write[v] \/ write'[v].at = "done"
  BY <1>1 DEF TypeOK, Done
<1>5. CASE rows[k] = old
  <2>1. Changed(k, row)
    BY <1>2, <1>5 DEF Write
  <2>2. Counted'
    BY <1>1, <1>3, <1>5, <2>1, ChangeCounted
  <2>3. /\ rows' \in [Ids -> Rows] /\ rows'[k] = row
        /\ \A i \in Ids \ {k} : rows'[i] = rows[i]
    BY <2>1, ChangedRow
  <2>4. /\ rows[k].updated \in Nat /\ row.updated \in Nat
        /\ \A i \in Ids : start[i].updated \in Nat
    BY ListAssumption DEF TypeOK, Rows, Times
  <2>5. ASSUME NEW i \in Ids, Found(start[i])
        PROVE  /\ rows'[i].life # "absent"
               /\ rows'[i].life = "live" => rows'[i].updated >= start[i].updated
    <3>1. CASE i # k
      BY <2>3, <2>5, <3>1 DEF TimesOK
    <3>2. CASE i = k
      <4>1. old.life = "live"
        BY <1>3, <1>5, <2>5, <3>2 DEF TimesOK, Rows
      <4>2. old.updated >= start[i].updated
        BY <1>5, <2>5, <3>2, <4>1 DEF TimesOK
      <4>3. QED
        BY <1>3, <1>5, <2>3, <2>4, <3>2, <4>2
    <3>3. QED
      BY <3>1, <3>2
  <2>6. \A i \in Ids : rows'[i].updated <= now
    BY <1>3, <2>3 DEF TimesOK
  <2>7. TimesOK'
    BY <1>1, <1>4, <2>5, <2>6 DEF TimesOK, reading
  <2>8. QED
    BY <2>2, <2>3, <2>7
<1>6. CASE rows[k] # old
  <2>1. UNCHANGED <<rows, left, came>>
    BY <1>2, <1>6 DEF Write
  <2>2. Cardinality(Served') = Cardinality(Served) + 1 /\ Cardinality(Served) \in Nat
    BY <1>1, ServedOneMore
  <2>3. Passed' = Passed /\ Due' = Due /\ Again' = Again /\ Repeats' = Repeats
    BY <1>1, <2>1, InTable DEF Passed, Due, Again, Repeats, Found, Offset, reading
  <2>4. Counted'
    BY <2>1, <2>2, <2>3 DEF Counted, TypeOK
  <2>5. TimesOK'
    BY <1>1, <1>4, <2>1 DEF TimesOK
  <2>6. QED
    BY <2>1, <2>4, <2>5 DEF TypeOK
<1>7. QED
  BY <1>5, <1>6

LEMMA RemoveCounted ==
  ASSUME TypeOK, TimesOK, Counted, NEW w \in Writers, Remove(w)
  PROVE  Counted' /\ TimesOK' /\ rows' \in [Ids -> Rows]
<1>1. PICK k \in Ids : /\ write[w] = Idle /\ rows[k].life = "live"
                       /\ Changed(k, Gone)
                       /\ write' = [write EXCEPT ![w] = Done]
                       /\ UNCHANGED <<now, reading, start>>
  BY DEF Remove
<1>2. Counted'
  <2>1. write[w].at # "done"
    BY <1>1 DEF Idle
  <2>2. QED
    BY <1>1, <2>1, RowTypes, ChangeCounted
<1>3. /\ rows' \in [Ids -> Rows] /\ rows'[k] = Gone
      /\ \A i \in Ids \ {k} : rows'[i] = rows[i]
  BY <1>1, RowTypes, ChangedRow
<1>4. \A v \in Writers : write'[v] = write[v] \/ write'[v].at = "done"
  BY <1>1 DEF TypeOK, Done
<1>5. now \in Nat
  BY ListAssumption DEF TypeOK, Times
<1>6. TimesOK'
  BY <1>1, <1>3, <1>4, <1>5, RowTypes DEF TimesOK
<1>7. QED
  BY <1>2, <1>3, <1>6

(* A row that is read, or the fresh id of one to be created, with the time
   that it is going to bear. *)
LEMMA ReadCounted ==
  ASSUME TypeOK, TimesOK, Counted, NEW w \in Writers, Read(w)
  PROVE  /\ Counted' /\ TimesOK'
         /\ write' \in [Writers -> {Idle, Done}
              \union [at : {"read"}, id : Ids, row : Rows, new : Rows]]
<1>1. PICK k \in Ids, matches \in BOOLEAN :
        /\ write[w] = Idle
        /\ rows[k].life = "live" \/ k \in Fresh
        /\ write' = [write EXCEPT ![w] =
             [at |-> "read", id |-> k, row |-> rows[k], new |-> Live(matches, now)]]
        /\ UNCHANGED <<now, rows, reading, start, left, came>>
  BY DEF Read
<1>2. PICK new \in Rows : /\ new = Live(matches, now) /\ new.life = "live"
                          /\ new.updated = now
  BY RowTypes DEF TypeOK
<1>3. PICK wrote \in [at : {"read"}, id : Ids, row : Rows, new : Rows] :
        /\ wrote = [at |-> "read", id |-> k, row |-> rows[k], new |-> new]
        /\ wrote.at = "read" /\ wrote.row = rows[k] /\ wrote.new = new
  <2> DEFINE record == [at |-> "read", id |-> k, row |-> rows[k], new |-> new]
  <2>1. rows[k] \in Rows
    BY DEF TypeOK
  <2>2. /\ record \in [at : {"read"}, id : Ids, row : Rows, new : Rows]
        /\ record.at = "read" /\ record.row = rows[k] /\ record.new = new
    BY <2>1
  <2> HIDE DEF record
  <2>3. QED
    BY <2>2 DEF record
<1>4. write' = [write EXCEPT ![w] = wrote]
  BY <1>1, <1>2, <1>3
<1>5. write'[w] = wrote /\ \A v \in Writers \ {w} : write'[v] = write[v]
  BY <1>4 DEF TypeOK
<1>6. Served' = Served
  BY <1>1, <1>3, <1>5 DEF Served, Idle
<1>7. Counted'
  BY <1>1, <1>6, Untouched DEF reading
<1>8. rows[k].life # "gone"
  BY <1>1 DEF Fresh
<1>9. rows[k].updated <= now /\ now <= now
  BY ListAssumption DEF TimesOK, TypeOK, Times
<1>10. TimesOK'
  BY <1>1, <1>2, <1>3, <1>5, <1>8, <1>9 DEF TimesOK
<1>11. write' \in [Writers -> {Idle, Done}
              \union [at : {"read"}, id : Ids, row : Rows, new : Rows]]
  BY <1>3, <1>4 DEF TypeOK
<1>12. QED
  BY <1>7, <1>10, <1>11

-----------------------------------------------------------------------------
(* The reader's steps.                                                     *)

LEMMA AgainMember ==
  ASSUME NEW counts, NEW p
  PROVE  p \in UNION {{k} \X (2..counts[k]) : k \in Ids}
           <=> \E k \in Ids : \E n \in 2..counts[k] : p = <<k, n>>
<1>1. ASSUME NEW k \in Ids, p \in {k} \X (2..counts[k])
      PROVE  \E n \in 2..counts[k] : p = <<k, n>>
  BY <1>1
<1>2. ASSUME NEW k \in Ids, NEW n \in 2..counts[k], p = <<k, n>>
      PROVE  p \in {k} \X (2..counts[k])
  BY <1>2
<1>3. QED
  BY <1>1, <1>2, Zenon

(* A reader that has seen nothing yet begins anew when it counts. *)
LEMMA NothingShown ==
  ASSUME TypeOK, shown = [k \in Ids |-> 0]
  PROVE  Again = {} /\ Due = {}
<1>1. \A k \in Ids : shown[k] = 0
  OBVIOUS
<1>2. Due = {}
  BY <1>1 DEF Due, Listed
<1>3. \A p : p \notin Again
  BY <1>1, AgainMember DEF Again
<1>4. QED
  BY <1>2, <1>3

LEMMA CountRowsCounted ==
  ASSUME TypeOK, TimesOK, Counted, CountRows
  PROVE  Counted' /\ TimesOK'
<1>1. UNCHANGED <<now, rows, write, size, page, shown, atEnd>> /\ ~atEnd
  BY DEF CountRows
<1>2. Served' = Served
  BY <1>1 DEF Served
<1>3. CASE page = 1 /\ shown = [k \in Ids |-> 0]
  <2>1. start' = rows /\ left' = 0 /\ came' = 0
    BY <1>3 DEF CountRows
  <2>2. Again' = Again /\ Due' = Due
    BY <1>1, InTable DEF Again, Due, Offset
  <2>3. Passed' = {}
    <3>1. Offset(page, size)' = 0 /\ atEnd' = atEnd /\ rows' = rows
      BY <1>1, <1>3, PageMovesOn DEF Offset
    <3>2. \A k \in Ids : ~(Rank(k)' < 0)
      BY InTable, RankFinite
    <3>3. QED
      BY <1>1, <2>1, <3>1, <3>2 DEF Passed, Found
  <2>4. Again' = {} /\ Due' = {}
    BY <1>3, <2>2, NothingShown
  <2>5. /\ Cardinality(Passed') = 0 /\ Cardinality(Due') = 0 /\ Repeats' = 0
        /\ IsFiniteSet(Again')
    BY <2>3, <2>4, FS_EmptySet DEF Repeats
  <2>6. Counted'
    BY <1>2, <2>1, <2>5, ServedFinite DEF Counted
  <2>7. TimesOK'
    <3>1. \A k \in Ids : rows[k].updated \in Nat
      BY ListAssumption DEF TypeOK, Rows, Times
    <3>2. \A k \in Ids : Found(start'[k]) =>
             /\ rows'[k].life # "absent"
             /\ rows'[k].life = "live" => rows'[k].updated >= start'[k].updated
      BY <1>1, <2>1, <3>1 DEF Found
    <3>3. QED
      BY <1>1, <3>2 DEF TimesOK
  <2>8. QED
    BY <2>6, <2>7
<1>4. CASE ~(page = 1 /\ shown = [k \in Ids |-> 0])
  <2>1. UNCHANGED <<start, left, came>>
    BY <1>4 DEF CountRows
  <2>2. Counted'
    BY <1>1, <1>2, <2>1, Untouched
  <2>3. TimesOK'
    BY <1>1, <2>1 DEF TimesOK
  <2>4. QED
    BY <2>2, <2>3
<1>5. QED
  BY <1>3, <1>4

(* What one page shows again was due, and is due no more. *)
LEMMA FindRowsCounted ==
  ASSUME TypeOK, TimesOK, Counted, FindRows
  PROVE  Counted' /\ TimesOK' /\ shown' \in [Ids -> Nat] /\ atEnd' \in BOOLEAN
<1>1. PICK items \in PagesAt(Listed, LatestFirst, page, size) :
        /\ shown' = [k \in Ids |-> IF k \in items THEN shown[k] + 1 ELSE shown[k]]
        /\ atEnd' = (Cardinality(items) < size)
  BY DEF FindRows
<1>2. page' = page + 1 /\ UNCHANGED <<now, rows, write, size, start, left, came>>
  BY DEF FindRows
<1>3. PICK offset : offset = Offset(page, size)
  OBVIOUS
<1>4. /\ offset \in Nat /\ size \in Nat /\ Offset(page, size)' = offset + size
  BY <1>2, <1>3, PageMovesOn, ListAssumption DEF TypeOK, Offset
<1>5. /\ items \subseteq Listed /\ IsFiniteSet(items) /\ Cardinality(items) \in Nat
      /\ \A k \in items : Rank(k) >= offset /\ Rank(k) < offset + size
      /\ \A k \in Listed \ items : Rank(k) >= offset =>
           Cardinality(items) = size /\ Rank(k) >= offset + size
  BY <1>3, PageRanks
<1>6. Listed \subseteq Ids /\ Listed' = Listed
  BY <1>2, InTable DEF Listed
<1>7. \A k \in Ids : Rank(k) \in Nat /\ Rank(k)' = Rank(k)
  BY <1>2, InTable, RankFinite
<1>8. \A k \in Ids : shown[k] \in Nat
  BY DEF TypeOK
<1>9. Cardinality(Passed') <= left'
  <2>1. ASSUME NEW k \in Passed' PROVE k \in Passed
    <3>1. k \in Ids
      BY DEF Passed
    <3>2. shown[k] = 0 /\ k \notin items
      BY <1>1, <1>8, <3>1 DEF Passed
    <3>3. CASE Found(rows[k])
      <4>1. k \in Listed \ items
        BY <3>1, <3>2, <3>3 DEF Listed
      <4>2. atEnd' \/ Rank(k) < offset + size
        BY <1>2, <1>4, <1>7, <3>1, <3>3 DEF Passed, Found
      <4>3. CASE Rank(k) >= offset
        <5>1. Cardinality(items) = size /\ Rank(k) >= offset + size
          BY <1>5, <4>1, <4>3
        <5>2. ~(Cardinality(items) < size)
          BY <1>4, <5>1
        <5>3. ~atEnd'
          BY <1>1, <5>2, Zenon
        <5>4. QED
          BY <1>4, <1>7, <3>1, <4>2, <5>1, <5>3
      <4>4. CASE Rank(k) < offset
        BY <1>2, <1>3, <3>1, <3>2, <4>4 DEF Passed, Found
      <4>5. QED
        BY <1>4, <1>7, <3>1, <4>3, <4>4
    <3>4. CASE ~Found(rows[k])
      BY <1>2, <3>1, <3>2, <3>4 DEF Passed, Found
    <3>5. QED
      BY <3>3, <3>4
  <2>2. Cardinality(Passed') <= Cardinality(Passed) /\ Cardinality(Passed') \in Nat
    BY <2>1, PassedDue, FS_Subset, FS_CardinalityType
  <2>3. left' = left /\ left \in Nat
    BY <1>2, ServedFinite DEF TypeOK
  <2>4. QED
    BY <2>2, <2>3, PassedDue DEF Counted
<1> DEFINE shownAgain == {k \in items : shown[k] > 0}
           newly == {<<k, shown[k] + 1>> : k \in shownAgain}
           pairOf == [k \in shownAgain |-> <<k, shown[k] + 1>>]
<1>10. shownAgain \in SUBSET Due /\ IsFiniteSet(shownAgain)
  BY <1>3, <1>5, FS_Subset DEF Due
<1>11. /\ IsFiniteSet(newly) /\ Cardinality(newly) \in Nat
       /\ Cardinality(newly) <= Cardinality(shownAgain)
  <2>1. pairOf \in Surjection(shownAgain, newly)
    BY Fun_IsSurj
  <2>2. QED
    BY <1>10, <2>1, FS_Surjection, FS_CardinalityType
<1>12. Again' \subseteq Again \union newly
  <2>1. ASSUME NEW p \in Again', p \notin Again PROVE p \in newly
    <3>1. PICK k \in Ids : \E n \in 2..shown'[k] : p = <<k, n>>
      BY AgainMember DEF Again
    <3>2. PICK n \in 2..shown'[k] : p = <<k, n>>
      BY <3>1
    <3>3. n \notin 2..shown[k]
      BY <2>1, <3>2, AgainMember DEF Again
    <3>4. k \in items /\ n = shown[k] + 1 /\ shown[k] > 0
      BY <1>1, <1>8, <3>2, <3>3
    <3>5. QED
      BY <3>2, <3>4
  <2>2. QED
    BY <2>1
<1> HIDE DEF newly, pairOf
<1>13. /\ IsFiniteSet(Again') /\ Repeats' \in Nat /\ Repeats \in Nat
       /\ Repeats' <= Repeats + Cardinality(shownAgain)
  <2>1. IsFiniteSet(Again) /\ Cardinality(Again) \in Nat
    BY FS_CardinalityType DEF Counted
  <2>2. /\ IsFiniteSet(Again \union newly)
        /\ Cardinality(Again \union newly)
             = Cardinality(Again) + Cardinality(newly) - Cardinality(Again \cap newly)
    BY <1>11, <2>1, FS_Union
  <2>3. Cardinality(Again \cap newly) \in Nat
    BY <1>11, FS_Intersection, FS_CardinalityType
  <2>4. IsFiniteSet(Again') /\ Cardinality(Again') <= Cardinality(Again \union newly)
    BY <1>12, <2>2, FS_Subset
  <2>5. Cardinality(shownAgain) \in Nat /\ Cardinality(Again') \in Nat
    BY <1>10, <2>4, FS_CardinalityType
  <2>6. QED
    BY <1>11, <2>1, <2>2, <2>3, <2>4, <2>5 DEF Repeats
<1>14. Cardinality(Due') <= Cardinality(Due) - Cardinality(shownAgain)
  <2>1. ASSUME NEW k \in Due' PROVE k \in Due \ shownAgain
    <3>1. k \in Listed /\ shown'[k] > 0 /\ Rank(k) >= offset + size
      BY <1>4, <1>6, <1>7 DEF Due
    <3>2. k \notin items
      BY <1>4, <1>5, <1>6, <1>7, <3>1
    <3>3. shown[k] > 0 /\ Rank(k) >= offset
      BY <1>1, <1>4, <1>6, <1>7, <3>1, <3>2
    <3>4. QED
      BY <1>3, <3>1, <3>2, <3>3 DEF Due
  <2>2. /\ IsFiniteSet(Due \ shownAgain)
        /\ Cardinality(Due \ shownAgain) = Cardinality(Due) - Cardinality(Due \cap shownAgain)
    BY PassedDue, FS_Difference
  <2>3. Due \cap shownAgain = shownAgain
    BY <1>10
  <2>4. Cardinality(Due') <= Cardinality(Due \ shownAgain)
    BY <2>1, <2>2, FS_Subset
  <2>5. QED
    BY <2>2, <2>3, <2>4
<1>15. Cardinality(Due') + Repeats' <= came'
  <2>1. Cardinality(shownAgain) \in Nat /\ Cardinality(Due') \in Nat
    <3>1. Due' \in SUBSET Ids
      BY <1>6 DEF Due
    <3>2. QED
      BY <1>10, <3>1, ListAssumption, FS_Subset, FS_CardinalityType
  <2>2. came' = came /\ came \in Nat
    BY <1>2, ServedFinite DEF TypeOK
  <2>3. QED
    BY <1>13, <1>14, <2>1, <2>2, PassedDue DEF Counted
<1>16. Served' = Served
  BY <1>2 DEF Served
<1>17. Counted'
  BY <1>2, <1>9, <1>13, <1>15, <1>16 DEF Counted
<1>18. TimesOK'
  BY <1>2 DEF TimesOK
<1>19. shown' \in [Ids -> Nat] /\ atEnd' \in BOOLEAN
  <2>1. shown' \in [Ids -> Nat]
    BY <1>1, <1>8
  <2>2. atEnd' \in BOOLEAN
    BY DEF FindRows
  <2>3. QED
    BY <2>1, <2>2
<1>20. QED
  BY <1>17, <1>18, <1>19

-----------------------------------------------------------------------------
(* Theorems.                                                               *)

LEMMA InitPaging == Init => Paging
<1> SUFFICES ASSUME Init PROVE Paging
  OBVIOUS
<1>1. PICK matching \in SUBSET Seeded :
        rows = [k \in Ids |-> IF k \in Seeded THEN Live(k \in matching, 0) ELSE Absent]
  BY DEF Init
<1>2. 0 \in Times
  BY ListAssumption DEF Times
<1>3. \A k \in Ids : rows[k] \in Rows /\ rows[k].updated = 0
  <2> SUFFICES ASSUME NEW k \in Ids PROVE rows[k] \in Rows /\ rows[k].updated = 0
    OBVIOUS
  <2>1. CASE k \in Seeded
    <3>1. rows[k] = Live(k \in matching, 0)
      BY <1>1, <2>1
    <3>2. CASE k \in matching
      <4>1. rows[k] = Live(TRUE, 0)
        <5>1. (k \in matching) = TRUE
          BY <3>2, Zenon
        <5>2. QED
          BY <3>1, <5>1, Zenon
      <4>2. QED
        BY <1>2, <4>1, RowTypes
    <3>3. CASE k \notin matching
      <4>1. rows[k] = Live(FALSE, 0)
        <5>1. (k \in matching) = FALSE
          BY <3>3, SMT
        <5>2. QED
          BY <3>1, <5>1, Zenon
      <4>2. QED
        BY <1>2, <4>1, RowTypes
    <3>4. QED
      BY <3>2, <3>3
  <2>2. CASE k \notin Seeded
    <3>1. rows[k] = Absent
      BY <1>1, <2>2
    <3>2. QED
      BY <3>1, RowTypes DEF Absent
  <2>3. QED
    BY <2>1, <2>2
<1>4. rows \in [Ids -> Rows]
  BY <1>1, <1>3
<1>5. /\ now = 0 /\ start = rows /\ left = 0 /\ came = 0 /\ page = 1
      /\ shown = [k \in Ids |-> 0] /\ write = [w \in Writers |-> Idle]
      /\ total = Uncounted
  BY DEF Init
<1>6. ~atEnd /\ atEnd \in BOOLEAN
  <2>1. atEnd = FALSE
    BY DEF Init
  <2>2. QED
    BY <2>1, Zenon
<1>7. size \in 1..LargestSize
  <2>1. PICK asked \in AskedSizes : size = BoundSize(asked, DefaultSize, LargestSize)
    BY DEF Init
  <2>2. QED
    BY <2>1, ListAssumption DEF BoundSize
<1>8. TypeOK
  <2>1. Cardinality(Ids) \in Nat /\ Cardinality(Writers) \in Nat
    BY ListAssumption, FS_CardinalityType
  <2>2. total \in 0..Uncounted /\ left \in 0..Cardinality(Writers)
        /\ came \in 0..Cardinality(Writers)
    BY <1>5, <2>1 DEF Uncounted
  <2>3. write \in [Writers -> {Idle, Done}
          \union [at : {"read"}, id : Ids, row : Rows, new : Rows]]
    BY <1>5
  <2>4. now \in Times /\ page \in Nat \ {0} /\ shown \in [Ids -> Nat]
    BY <1>2, <1>5
  <2>5. QED
    BY <1>4, <1>5, <1>6, <1>7, <2>2, <2>3, <2>4 DEF TypeOK
<1>9. TimesOK
  <2>1. \A w \in Writers : write[w].at = "idle"
    BY <1>5 DEF Idle
  <2>2. QED
    BY <1>3, <1>5, <2>1 DEF TimesOK, Found
<1>10. Counted
  <2>1. Again = {} /\ Due = {}
    BY <1>5, <1>8, NothingShown
  <2>2. Passed = {}
    <3>1. \A k \in Ids : ~(Rank(k) < Offset(page, size))
      BY <1>5, <1>8, PageMovesOn, InTable, RankFinite
    <3>2. QED
      BY <1>5, <1>6, <3>1 DEF Passed
  <2>3. QED
    BY <1>5, <1>8, <2>1, <2>2, FS_EmptySet, ServedFinite DEF Counted, Repeats
<1>11. QED
  BY <1>8, <1>9, <1>10 DEF Paging

(* The types of what no writer touches, and of what the reader does. *)
LEMMA NextTypes ==
  ASSUME Paging, [Next]_vars, Counted', TimesOK', rows' \in [Ids -> Rows],
         write' \in [Writers -> {Idle, Done}
           \union [at : {"read"}, id : Ids, row : Rows, new : Rows]],
         shown' \in [Ids -> Nat], atEnd' \in BOOLEAN
  PROVE  TypeOK'
<1> USE DEF Paging
<1>1. now' \in Times
  BY ListAssumption DEF Next, Read, Write, Remove, Tick, CountRows, FindRows, ListFails,
     Finished, vars, TypeOK, Times
<1>2. start' \in [Ids -> Rows]
  BY DEF Next, Read, Write, Remove, Tick, CountRows, FindRows, ListFails, Finished, vars,
     TypeOK
<1>3. size' \in 1..LargestSize /\ page' \in Nat \ {0}
  BY DEF Next, Read, Write, Remove, Tick, CountRows, FindRows, ListFails, Finished, vars,
     reading, TypeOK
<1>4. total' \in 0..Uncounted
  <2>1. Cardinality(Listed) \in 0..Uncounted /\ Uncounted \in 0..Uncounted
    <3>1. Listed \in SUBSET Ids
      BY DEF Listed
    <3>2. /\ Cardinality(Ids) \in Nat /\ Cardinality(Listed) \in Nat
          /\ Cardinality(Listed) <= Cardinality(Ids)
      BY <3>1, ListAssumption, FS_Subset, FS_CardinalityType
    <3>3. QED
      BY <3>2 DEF Uncounted
  <2>2. QED
    BY <2>1 DEF Next, Read, Write, Remove, Tick, CountRows, FindRows, ListFails, Finished,
       vars, reading, TypeOK
<1>5. left' \in Nat /\ came' \in Nat
  <2>1. left \in Nat /\ came \in Nat
    BY ServedFinite DEF TypeOK
  <2>2. QED
    BY <2>1 DEF Next, Read, Write, Changed, Remove, Tick, CountRows, FindRows, ListFails,
       Finished, vars
<1>6. left' \in 0..Cardinality(Writers) /\ came' \in 0..Cardinality(Writers)
  <2>1. Served' \in SUBSET Writers
    BY DEF Served
  <2>2. /\ Cardinality(Served') \in Nat /\ Cardinality(Writers) \in Nat
        /\ Cardinality(Served') <= Cardinality(Writers)
    BY <2>1, ListAssumption, FS_Subset, FS_CardinalityType
  <2>3. QED
    BY <1>5, <2>2 DEF Counted
<1>7. QED
  BY <1>1, <1>2, <1>3, <1>4, <1>6 DEF TypeOK

LEMMA NextPaging == Paging /\ [Next]_vars => Paging'
<1> SUFFICES ASSUME Paging, [Next]_vars PROVE Paging'
  OBVIOUS
<1> DEFINE WriteType == [Writers -> {Idle, Done}
             \union [at : {"read"}, id : Ids, row : Rows, new : Rows]]
<1>1. TypeOK /\ TimesOK /\ Counted
  BY DEF Paging
<1>2. write \in WriteType /\ rows \in [Ids -> Rows] /\ shown \in [Ids -> Nat]
      /\ atEnd \in BOOLEAN
  BY <1>1 DEF TypeOK
<1>3. ASSUME NEW w \in Writers, Read(w)
      PROVE  /\ Counted' /\ TimesOK' /\ write' \in WriteType
             /\ UNCHANGED <<rows, shown, atEnd>>
  BY <1>1, <1>3, ReadCounted DEF Read, reading
<1>4. ASSUME NEW w \in Writers, write' = [write EXCEPT ![w] = Done]
      PROVE  write' \in WriteType
  BY <1>2, <1>4
<1>5. ASSUME NEW w \in Writers, Write(w)
      PROVE  /\ Counted' /\ TimesOK' /\ rows' \in [Ids -> Rows] /\ write' \in WriteType
             /\ UNCHANGED <<shown, atEnd>>
  BY <1>1, <1>4, <1>5, WriteCounted DEF Write, reading
<1>6. ASSUME NEW w \in Writers, Remove(w)
      PROVE  /\ Counted' /\ TimesOK' /\ rows' \in [Ids -> Rows] /\ write' \in WriteType
             /\ UNCHANGED <<shown, atEnd>>
  BY <1>1, <1>4, <1>6, RemoveCounted DEF Remove, reading
<1>7. CASE Tick
  <2>1. UNCHANGED <<rows, write, reading, start, left, came>> /\ now' >= now
    BY <1>1, <1>7, ListAssumption DEF Tick, TypeOK, Times
  <2>2. Counted'
    BY <1>1, <2>1, Untouched DEF reading, Served
  <2>3. TimesOK'
    <3>1. /\ now \in Nat /\ now' \in Nat
          /\ \A k \in Ids : rows[k].updated \in Nat
          /\ \A w \in Writers : write[w].at = "read" => write[w].new.updated \in Nat
      BY <1>1, <1>7, WriteTypes, ListAssumption DEF Tick, TypeOK, Times, Rows
    <3>2. QED
      BY <1>1, <2>1, <3>1 DEF TimesOK
  <2>4. UNCHANGED <<rows, write, shown, atEnd>>
    BY <2>1 DEF reading
  <2>5. QED
    BY <1>2, <2>2, <2>3, <2>4, NextTypes DEF Paging
<1>8. CASE CountRows
  BY <1>1, <1>2, <1>8, CountRowsCounted, NextTypes DEF Paging, CountRows
<1>9. CASE FindRows
  BY <1>1, <1>2, <1>9, FindRowsCounted, NextTypes DEF Paging, FindRows
<1>10. CASE ListFails \/ UNCHANGED vars
  <2>1. UNCHANGED <<now, rows, write, size, page, shown, atEnd, start, left, came>>
    BY <1>10 DEF ListFails, vars, reading
  <2>2. Counted'
    BY <1>1, <2>1, Untouched DEF Served
  <2>3. TimesOK'
    BY <1>1, <2>1 DEF TimesOK
  <2>4. QED
    BY <1>2, <2>1, <2>2, <2>3, NextTypes DEF Paging
<1>11. ASSUME NEW w \in Writers, Read(w) \/ Write(w) \/ Remove(w) PROVE Paging'
  BY <1>2, <1>3, <1>5, <1>6, <1>11, NextTypes DEF Paging
<1>12. QED
  BY <1>7, <1>8, <1>9, <1>10, <1>11 DEF Next, Finished

LEMMA AlwaysPaging == Spec => []Paging
  BY InitPaging, NextPaging, PTL DEF Spec

(* Rows, requests and pages keep their types, and no more rows leave or come
   than there are changing requests. *)
THEOREM TypeCorrect == Spec => []TypeOK
<1>1. Paging => TypeOK
  BY DEF Paging
<1>2. QED
  BY <1>1, AlwaysPaging, PTL

(* Offset paging over a list ordered by updated_at (Store.List) hides an
   unchanged row only when another left the list: by removal, or because it
   ceased to match. *)
THEOREM AlwaysMissedOnlyByRemovals == Spec => []MissedOnlyByRemovals
<1>1. Paging => MissedOnlyByRemovals
  <2> SUFFICES ASSUME Paging, atEnd PROVE Cardinality(Missed) <= left
    BY DEF MissedOnlyByRemovals
  <2>1. TypeOK /\ Counted
    BY DEF Paging
  <2>2. Missed \in SUBSET Passed
    BY DEF Missed, Passed, Found
  <2>3. Cardinality(Missed) <= Cardinality(Passed) /\ Cardinality(Missed) \in Nat
    BY <2>1, <2>2, PassedDue, FS_Subset, FS_CardinalityType
  <2>4. left \in Nat
    BY <2>1, ServedFinite DEF TypeOK
  <2>5. QED
    BY <2>1, <2>3, <2>4, PassedDue DEF Counted
<1>2. QED
  BY <1>1, AlwaysPaging, PTL

(* And it shows a row again only when another came to the list or moved
   forward in it. *)
THEOREM AlwaysRepeatsOnlyByWrites == Spec => []RepeatsOnlyByWrites
<1>1. Paging => RepeatsOnlyByWrites
  <2> SUFFICES ASSUME Paging PROVE Repeats <= came
    BY DEF RepeatsOnlyByWrites
  <2>1. TypeOK /\ Counted
    BY DEF Paging
  <2>2. Repeats \in Nat /\ came \in Nat
    BY <2>1, ServedFinite, FS_CardinalityType DEF Counted, Repeats, TypeOK
  <2>3. QED
    BY <2>1, <2>2, PassedDue DEF Counted
<1>2. QED
  BY <1>1, AlwaysPaging, PTL
==============================================================================
