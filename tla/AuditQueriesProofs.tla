-------------------------- MODULE AuditQueriesProofs --------------------------
(***************************************************************************)
(* Reading the audit log, for any number of writers and entries, any       *)
(* window and any page size: what the parts of a summary have in common,   *)
(* and that paging misses nothing.                                         *)
(***************************************************************************)
EXTENDS AuditQueries, FiniteSetTheorems, FunctionTheorems, SequenceTheorems, TLAPS

-----------------------------------------------------------------------------
(* Pages and counts.                                                       *)

(* A page follows the rows that are skipped, and what it leaves comes last. *)
Follows(items, A, found, order, number, size) ==
  /\ Cardinality(A) = Smaller(Offset(number, size), Cardinality(found))
  /\ A \X (found \ A) \subseteq order
  /\ items \subseteq found \ A
  /\ Cardinality(items) = Smaller(size, Cardinality(found \ A))
  /\ items \X (found \ (A \union items)) \subseteq order

LEMMA PagesAtMember ==
  ASSUME NEW found, NEW order, NEW number, NEW size,
         NEW items \in PagesAt(found, order, number, size)
  PROVE  \E A \in SUBSET found : Follows(items, A, found, order, number, size)
  BY DEF PagesAt, Follows

(* The pairs behind a sum. *)
LEMMA PairsMember ==
  ASSUME NEW counts, NEW p
  PROVE  p \in UNION {{v} \X (1..counts[v]) : v \in DOMAIN counts}
           <=> \E v \in DOMAIN counts : \E n \in 1..counts[v] : p = <<v, n>>
<1>1. ASSUME NEW v \in DOMAIN counts, p \in {v} \X (1..counts[v])
      PROVE  \E n \in 1..counts[v] : p = <<v, n>>
  BY <1>1
<1>2. ASSUME NEW v \in DOMAIN counts, NEW n \in 1..counts[v], p = <<v, n>>
      PROVE  p \in {v} \X (1..counts[v])
  BY <1>2
<1>3. QED
  BY <1>1, <1>2, Zenon

(* The pairs behind the counts of a column are as many as the entries
   counted: each entry is one of those of its value. *)
LEMMA CountsAddUp ==
  ASSUME NEW entries, IsFiniteSet(entries), NEW column
  PROVE  Sum(Counts(entries, column)) = Cardinality(entries)
<1> DEFINE values == {Told[w][column] : w \in entries}
           Of(v) == {w \in entries : Told[w][column] = v}
           counts == Counts(entries, column)
           pairs == UNION {{v} \X (1..counts[v]) : v \in DOMAIN counts}
           pick == [v \in values |-> CHOOSE f : f \in Bijection(1..counts[v], Of(v))]
           map == [p \in pairs |-> pick[p[1]][p[2]]]
<1>1. DOMAIN counts = values /\ \A v \in values : counts[v] = Cardinality(Of(v))
  BY DEF Counts
<1>2. Sum(counts) = Cardinality(pairs)
  BY DEF Sum
<1> HIDE DEF counts
<1>3. ASSUME NEW v \in values
      PROVE  counts[v] \in Nat /\ pick[v] \in Bijection(1..counts[v], Of(v))
  <2>1. IsFiniteSet(Of(v))
    BY FS_Subset
  <2>2. counts[v] \in Nat /\ ExistsBijection(1..counts[v], Of(v))
    BY <1>1, <2>1, FS_CardinalityType
  <2>3. QED
    BY <2>2 DEF ExistsBijection
<1>4. \A p : p \in pairs <=> \E v \in values : \E n \in 1..counts[v] : p = <<v, n>>
  BY <1>1, PairsMember
<1> HIDE DEF pairs, pick
<1>5. ASSUME NEW p \in pairs
      PROVE  /\ p = <<p[1], p[2]>> /\ p[1] \in values /\ p[2] \in 1..counts[p[1]]
             /\ map[p] \in Of(p[1])
  <2>0. PICK v \in values : \E n \in 1..counts[v] : p = <<v, n>>
    BY <1>4
  <2>1. PICK n \in 1..counts[v] : p = <<v, n>>
    BY <2>0
  <2>2. pick[v][n] \in Of(v)
    BY <1>3 DEF Bijection, Injection
  <2>3. QED
    BY <2>1, <2>2
<1>6. map \in [pairs -> entries]
  BY <1>5
<1>7. ASSUME NEW p \in pairs, NEW q \in pairs, map[p] = map[q] PROVE p = q
  <2> DEFINE v == p[1]
  <2>1. q[1] = v
    BY <1>5, <1>7
  <2>2. pick[v] \in Injection(1..counts[v], Of(v))
    BY <1>3, <1>5 DEF Bijection
  <2>3. p[2] \in 1..counts[v] /\ q[2] \in 1..counts[v] /\ pick[v][p[2]] = pick[v][q[2]]
    BY <1>5, <1>7, <2>1
  <2>4. p[2] = q[2]
    BY <2>2, <2>3 DEF Injection, IsInjective
  <2>5. QED
    BY <1>5, <2>1, <2>4
<1>8. ASSUME NEW w \in entries PROVE \E p \in pairs : map[p] = w
  <2> DEFINE v == Told[w][column]
  <2>1. v \in values /\ w \in Of(v)
    OBVIOUS
  <2>2. PICK n \in 1..counts[v] : pick[v][n] = w
    BY <1>3, <2>1 DEF Bijection, Surjection
  <2>3. <<v, n>> \in pairs
    BY <1>4, <2>1, <2>2
  <2>4. map[<<v, n>>] = w
    BY <2>2, <2>3
  <2>5. QED
    BY <2>3, <2>4
<1> HIDE DEF map
<1>9. map \in Injection(pairs, entries) /\ map \in Surjection(pairs, entries)
  BY <1>6, <1>7, <1>8, Fun_IsInj, Fun_IsSurj
<1>10. Cardinality(pairs) = Cardinality(entries)
  BY <1>9, FS_Injection
<1>11. QED
  BY <1>2, <1>10 DEF counts

LEMMA FiveParts == Len(Parts({})) = 5
  BY DEF Parts

-----------------------------------------------------------------------------
(* Steps.                                                                  *)

LEMMA UnstampedTime == Unstamped \in Nat /\ Unstamped \notin Times
  BY QueriesAssumption DEF Unstamped, Times

(* The entries of a reachable state are finitely many, each with its time. *)
LEMMA LogFinite ==
  ASSUME TypeOK
  PROVE  /\ IsFiniteSet(log) /\ IsFiniteSet(Writers)
         /\ Cardinality(log) \in Nat /\ Cardinality(log) <= Cardinality(Writers)
         /\ \A w \in log : stamp[w] \in Nat /\ stamp[w] # Unstamped
<1>1. IsFiniteSet(Writers) /\ log \in SUBSET Writers
  BY QueriesAssumption DEF TypeOK
<1>2. IsFiniteSet(log) /\ Cardinality(log) <= Cardinality(Writers)
  BY <1>1, FS_Subset
<1>3. Cardinality(log) \in Nat
  BY <1>2, FS_CardinalityType
<1>4. \A w \in log : stamp[w] \in Nat /\ stamp[w] # Unstamped
  BY QueriesAssumption DEF TypeOK, Times, Unstamped
<1>5. QED
  BY <1>1, <1>2, <1>3, <1>4

(* No step changes or removes an entry, or a time. *)
LEMMA LogGrows ==
  ASSUME TypeOK, Stamped, [Next]_vars
  PROVE  /\ log \subseteq log' /\ log' \subseteq Writers
         /\ now \in Times /\ now' \in Times /\ now <= now'
         /\ stamp' \in [Writers -> Times \union {Unstamped}]
         /\ \A w \in Writers : /\ stamp[w] # Unstamped => stamp'[w] = stamp[w]
                               /\ stamp'[w] # Unstamped => stamp'[w] \in 0..now'
         /\ \A w \in log' : stamp'[w] # Unstamped
         /\ dropped' \subseteq Writers \ log'
<1> DEFINE Goal ==
         /\ log \subseteq log' /\ log' \subseteq Writers
         /\ now \in Times /\ now' \in Times /\ now <= now'
         /\ stamp' \in [Writers -> Times \union {Unstamped}]
         /\ \A w \in Writers : /\ stamp[w] # Unstamped => stamp'[w] = stamp[w]
                               /\ stamp'[w] # Unstamped => stamp'[w] \in 0..now'
         /\ \A w \in log' : stamp'[w] # Unstamped
         /\ dropped' \subseteq Writers \ log'
<1> USE QueriesAssumption, UnstampedTime DEF TypeOK, Stamped, Times
<1>1. ASSUME NEW w \in Writers, Stamp(w) PROVE Goal
  BY <1>1 DEF Stamp
<1>2. ASSUME NEW w \in Writers, Insert(w) PROVE Goal
  BY <1>2 DEF Insert, Pending
<1>3. ASSUME NEW w \in Writers, InsertFails(w) PROVE Goal
  BY <1>3 DEF InsertFails, Pending
<1>4. CASE Tick
  BY <1>4 DEF Tick, writing
<1>5. CASE UNCHANGED <<now, writing>>
  BY <1>5 DEF writing
<1>6. QED
  BY <1>1, <1>2, <1>3, <1>4, <1>5 DEF Next, AskSummary, QueryPart, SummaryFails,
     CountEntries, FindPage, PageFails, Finished, vars, writing

(* A summary that nothing was answered to yet. *)
LEMMA NothingAnswered ==
  ASSUME NEW values, Len(values) = 0, values = [i \in 1..0 |-> values[i]],
         NEW given, NEW recent
  PROVE  \E window \in [1..Len(values) -> SUBSET recent] : Covers(window, given, values)
<1>1. [i \in 1..0 |-> {}] \in [1..Len(values) -> SUBSET recent]
  BY Zenon
<1>2. \A i \in 1..Len(values) : FALSE
  OBVIOUS
<1>3. QED
  BY <1>1, <1>2 DEF Covers

LEMMA InitAnswered == Init => Answered
<1> SUFFICES ASSUME Init PROVE Answered
  OBVIOUS
<1>1. answers = << >> /\ asked.summary = {}
  BY DEF Init
<1>2. Len(answers) = 0 /\ answers = [i \in 1..0 |-> answers[i]]
  BY <1>1
<1>3. \E window \in [1..Len(answers) -> SUBSET Recent(since)] :
        Covers(window, asked.summary, answers)
  BY <1>2, NothingAnswered
<1>4. /\ Len(answers) \in 0..5 /\ answers = [i \in 1..Len(answers) |-> answers[i]]
      /\ asked.summary \subseteq Recent(since)
  BY <1>1, <1>2
<1>5. QED
  BY <1>2, <1>3, <1>4 DEF Answered

(* What a step leaves of the summary's state stays true of it. *)
LEMMA SummaryUntouched ==
  ASSUME TypeOK, Stamped, Answered, [Next]_vars,
         UNCHANGED summing, asked'.summary = asked.summary
  PROVE  Answered'
<1>1. since' = since /\ answers' = answers
  BY DEF summing
<1>2. Recent(since) \subseteq Recent(since)'
  BY <1>1, LogGrows, LogFinite DEF Recent, TypeOK
<1>3. PICK n, values, given : n = Len(answers) /\ values = answers /\ given = asked.summary
  OBVIOUS
<1>4. PICK window \in [1..n -> SUBSET Recent(since)] : Covers(window, given, values)
  BY <1>3 DEF Answered
<1>5. window \in [1..n -> SUBSET (Recent(since)')]
  BY <1>2, <1>4
<1>6. Covers(window, asked.summary, answers)'
  BY <1>1, <1>3, <1>4 DEF Covers, Parts, Counts
<1>7. QED
  BY <1>1, <1>2, <1>3, <1>5, <1>6 DEF Answered

(* The next part comes from the window as it is now, which holds all the
   entries that the parts before it saw. *)
LEMMA OneMoreCovered ==
  ASSUME NEW recent, NEW given \in SUBSET recent, NEW n \in Nat, NEW values,
         Len(values) = n, NEW window \in [1..n -> SUBSET recent],
         Covers(window, given, values),
         NEW longer, Len(longer) = n + 1, longer[n + 1] = Parts(recent)[n + 1],
         \A i \in 1..n : longer[i] = values[i]
  PROVE  \E wider \in [1..(n + 1) -> SUBSET recent] : Covers(wider, given, longer)
<1> DEFINE wider == [i \in 1..(n + 1) |-> IF i = n + 1 THEN recent ELSE window[i]]
<1>1. n + 1 \in 1..(n + 1) /\ \A i \in 1..n : i \in 1..(n + 1) /\ i # n + 1
  OBVIOUS
<1>2. \A i \in 1..(n + 1) : i = n + 1 \/ i \in 1..n
  OBVIOUS
<1>3. /\ wider[n + 1] = recent /\ \A i \in 1..n : wider[i] = window[i]
      /\ wider \in [1..(n + 1) -> SUBSET recent]
  BY <1>1, <1>2
<1> HIDE DEF wider
<1>4. \A i \in 1..(n + 1) : given \subseteq wider[i] /\ longer[i] = Parts(wider[i])[i]
  BY <1>2, <1>3 DEF Covers
<1>5. ASSUME NEW i \in 1..(n + 1), NEW j \in 1..(n + 1), i <= j
      PROVE  wider[i] \subseteq wider[j]
  <2>1. CASE j = n + 1
    BY <1>3, <2>1
  <2>2. CASE j # n + 1
    <3>1. i \in 1..n /\ j \in 1..n
      BY <1>5, <2>2
    <3>2. QED
      BY <1>3, <1>5, <3>1 DEF Covers
  <2>3. QED
    BY <2>1, <2>2
<1>6. Covers(wider, given, longer)
  BY <1>4, <1>5 DEF Covers
<1>7. QED
  BY <1>3, <1>6

LEMMA PartAnswered ==
  ASSUME TypeOK, Answered, QueryPart
  PROVE  Answered'
<1>1. PICK n, values, given, recent :
        /\ n = Len(answers) /\ values = answers /\ given = asked.summary
        /\ recent = Recent(since)
  OBVIOUS
<1>2. /\ n \in 0..5 /\ values = [i \in 1..n |-> values[i]]
      /\ given \subseteq recent
  BY <1>1 DEF Answered
<1>3. n \in 0..4 /\ since # Unstamped
  <2>1. n # 5 /\ since # Unstamped
    BY <1>1, FiveParts DEF QueryPart, Summarized
  <2>2. QED
    BY <1>2, <2>1
<1>4. PICK part : part = Parts(recent)[n + 1]
  OBVIOUS
<1>5. /\ answers' = Append(values, part)
      /\ since' = since /\ asked' = asked /\ Recent(since)' = recent
  BY <1>1, <1>4 DEF QueryPart, writing, Recent
<1>6. PICK longer : longer = Append(values, part)
  OBVIOUS
<1>7. /\ Len(longer) = n + 1 /\ longer = [i \in 1..(n + 1) |-> longer[i]]
      /\ longer[n + 1] = part /\ \A i \in 1..n : longer[i] = values[i]
  <2>1. PICK S : S = {values[i] : i \in 1..n} \union {part}
    OBVIOUS
  <2>2. values \in Seq(S) /\ part \in S
    BY <1>2, <2>1
  <2>3. Len(values) = n
    BY <1>1
  <2>4. /\ longer \in Seq(S) /\ Len(longer) = n + 1 /\ longer[n + 1] = part
        /\ \A i \in 1..n : longer[i] = values[i]
    BY <1>6, <2>2, <2>3, AppendProperties
  <2>5. longer = [i \in 1..(n + 1) |-> longer[i]]
    BY <2>4
  <2>6. QED
    BY <2>4, <2>5
<1>8. PICK window \in [1..n -> SUBSET recent] : Covers(window, given, values)
  BY <1>1 DEF Answered
<1>9. PICK wider \in [1..(n + 1) -> SUBSET recent] : Covers(wider, given, longer)
  <2>1. n \in Nat /\ given \in SUBSET recent /\ Len(values) = n
    BY <1>1, <1>2
  <2>2. longer[n + 1] = Parts(recent)[n + 1]
    BY <1>4, <1>7
  <2>3. QED
    BY <1>7, <1>8, <2>1, <2>2, OneMoreCovered
<1>10. Covers(wider, asked.summary, answers)'
  BY <1>1, <1>5, <1>6, <1>9 DEF Covers, Parts, Counts
<1>11. n + 1 \in 0..5
  BY <1>3
<1>12. /\ Len(answers') = n + 1 /\ answers' = [i \in 1..(n + 1) |-> answers'[i]]
       /\ since' # Unstamped /\ asked'.summary \subseteq recent
  BY <1>1, <1>2, <1>3, <1>5, <1>6, <1>7
<1>13. QED
  BY <1>5, <1>9, <1>10, <1>11, <1>12 DEF Answered

LEMMA NextAnswered ==
  ASSUME TypeOK, Stamped, Answered, [Next]_vars
  PROVE  Answered'
<1>1. CASE AskSummary
  <2>1. answers' = answers /\ Len(answers) = 0 /\ answers = [i \in 1..0 |-> answers[i]]
    BY <1>1 DEF AskSummary, Answered
  <2>2. asked'.summary = Recent(WindowStart) /\ Recent(since)' = Recent(WindowStart)
    BY <1>1 DEF AskSummary, Recent, TypeOK, writing
  <2>3. QED
    BY <2>1, <2>2, NothingAnswered DEF Answered, Covers, Parts, Counts
<1>2. CASE SummaryFails
  <2>1. answers' = << >> /\ asked'.summary = {}
    BY <1>2 DEF SummaryFails, TypeOK
  <2>2. Len(answers') = 0 /\ answers' = [i \in 1..0 |-> answers'[i]]
    BY <2>1
  <2>3. QED
    BY <2>1, <2>2, NothingAnswered DEF Answered, Covers, Parts, Counts
<1>3. CASE QueryPart
  BY <1>3, PartAnswered
<1>4. ASSUME UNCHANGED summing, UNCHANGED asked PROVE Answered'
  BY <1>4, SummaryUntouched
<1>5. CASE CountEntries
  <2>1. UNCHANGED summing /\ asked'.summary = asked.summary
    BY <1>5 DEF CountEntries, TypeOK
  <2>2. QED
    BY <2>1, SummaryUntouched
<1>6. QED
  BY <1>1, <1>2, <1>3, <1>4, <1>5 DEF Next, Stamp, Insert, InsertFails, Tick, FindPage,
     PageFails, Finished, vars

(* The reader of pages. *)
LEMMA PageMovesOn ==
  ASSUME TypeOK
  PROVE  /\ Offset(page, PageSize) \in Nat
         /\ Offset(page + 1, PageSize) = Offset(page, PageSize) + PageSize
         /\ Offset(1, PageSize) = 0
<1>1. page - 1 \in Nat /\ PageSize \in Nat
  BY QueriesAssumption DEF TypeOK
<1>2. (page - 1) * PageSize \in Nat
  BY <1>1
<1>3. ((page + 1) - 1) * PageSize = (page - 1) * PageSize + PageSize
  <2>1. \A m, n \in Nat : (m + 1) * n = m * n + n
    OBVIOUS
  <2>2. (page + 1) - 1 = (page - 1) + 1
    BY <1>1 DEF TypeOK
  <2>3. QED
    BY <1>1, <2>1, <2>2
<1>4. (1 - 1) * PageSize = 0
  BY <1>1
<1>5. QED
  BY <1>2, <1>3, <1>4 DEF Offset

LEMMA NewerFinite ==
  ASSUME TypeOK, NEW w \in log
  PROVE  IsFiniteSet(Newer(w)) /\ Cardinality(Newer(w)) \in Nat
<1>1. Newer(w) \in SUBSET log
  BY DEF Newer
<1>2. QED
  BY <1>1, LogFinite, FS_Subset, FS_CardinalityType

(* Later entries come before earlier ones: an entry that was ahead of the
   reader stays ahead while the log grows. *)
LEMMA StillAhead ==
  ASSUME TypeOK, Stamped, [Next]_vars, NEW w \in log, Ahead(w),
         page' = page, seen' = seen, atEnd' = atEnd, TypeOK'
  PROVE  Ahead(w)'
<1>1. log \subseteq log' /\ \A v \in log : stamp'[v] = stamp[v]
  BY LogGrows, LogFinite DEF TypeOK
<1>2. CASE w \in seen
  BY <1>2 DEF Ahead
<1>3. CASE \E v \in log \ {w} : stamp[v] = stamp[w]
  BY <1>1, <1>3 DEF Ahead
<1>4. CASE ~atEnd /\ Cardinality(Newer(w)) >= Offset(page, PageSize)
  <2>1. Newer(w) \in SUBSET (Newer(w)')
    BY <1>1 DEF Newer
  <2>2. IsFiniteSet(Newer(w))' /\ Cardinality(Newer(w)')  \in Nat
    <3>1. Newer(w)' \in SUBSET Writers
      BY LogGrows DEF Newer
    <3>2. QED
      BY <3>1, QueriesAssumption, FS_Subset, FS_CardinalityType
  <2>3. Cardinality(Newer(w)) <= Cardinality(Newer(w)')
    BY <2>1, <2>2, FS_Subset
  <2>4. Offset(page, PageSize)' = Offset(page, PageSize)
    BY DEF Offset
  <2>5. QED
    BY <1>4, <2>2, <2>3, <2>4, NewerFinite, PageMovesOn DEF Ahead
<1>5. QED
  BY <1>2, <1>3, <1>4 DEF Ahead

(* A full page moves on past as many entries as it shows: what neither it nor
   an earlier one showed is older than all of these.  After a page that is not
   full nothing is left. *)
LEMMA PageShows ==
  ASSUME TypeOK, NEW w \in log, Ahead(w), ~atEnd,
         NEW items \in PagesAt(log, NewestFirst, page, PageSize), w \notin items
  PROVE  \/ w \in seen
         \/ \E v \in log \ {w} : stamp[v] = stamp[w]
         \/ /\ Cardinality(items) = PageSize
            /\ Cardinality(Newer(w)) >= Offset(page, PageSize) + PageSize
<1> SUFFICES ASSUME w \notin seen, \A v \in log \ {w} : stamp[v] # stamp[w]
             PROVE  /\ Cardinality(items) = PageSize
                    /\ Cardinality(Newer(w)) >= Offset(page, PageSize) + PageSize
  OBVIOUS
<1> DEFINE offset == Offset(page, PageSize)
<1>1. PICK A \in SUBSET log :
        /\ Cardinality(A) = Smaller(offset, Cardinality(log))
        /\ A \X (log \ A) \subseteq NewestFirst
        /\ items \subseteq log \ A
        /\ Cardinality(items) = Smaller(PageSize, Cardinality(log \ A))
        /\ items \X (log \ (A \union items)) \subseteq NewestFirst
  <2>1. PICK A \in SUBSET log : Follows(items, A, log, NewestFirst, page, PageSize)
    BY PagesAtMember
  <2>2. QED
    BY <2>1 DEF Follows
<1>2. offset \in Nat /\ PageSize \in Nat \ {0} /\ Cardinality(log) \in Nat
  BY PageMovesOn, LogFinite, QueriesAssumption
<1> HIDE DEF offset
<1>3. /\ IsFiniteSet(A) /\ IsFiniteSet(items) /\ IsFiniteSet(log \ A)
      /\ Cardinality(A) \in Nat /\ Cardinality(items) \in Nat
      /\ Cardinality(log \ A) \in Nat
  BY <1>1, LogFinite, FS_Subset, FS_CardinalityType
<1>4. \A v \in log \ {w} : stamp[v] >= stamp[w] => v \in Newer(w)
  BY LogFinite DEF Newer
<1>5. Cardinality(Newer(w)) >= offset /\ Newer(w) \in SUBSET log /\ IsFiniteSet(Newer(w))
  BY LogFinite, NewerFinite, FS_Subset DEF Ahead, Newer, offset
<1>6. w \notin A
  <2> SUFFICES ASSUME w \in A PROVE FALSE
    OBVIOUS
  <2>1. ASSUME NEW v \in log \ A PROVE stamp[w] >= stamp[v]
    <3>1. <<w, v>> \in NewestFirst
      BY <1>1
    <3>2. QED
      BY <3>1 DEF NewestFirst
  <2>2. Newer(w) \subseteq A \ {w}
    BY <2>1, LogFinite DEF Newer
  <2>3. Cardinality(A \ {w}) = Cardinality(A) - 1 /\ IsFiniteSet(A \ {w})
    BY <1>3, FS_RemoveElement
  <2>4. Cardinality(Newer(w)) <= Cardinality(A) - 1
    BY <2>2, <2>3, FS_Subset
  <2>5. Cardinality(A) <= offset
    BY <1>1, <1>2 DEF Smaller
  <2>6. QED
    BY <1>2, <1>3, <1>5, <2>4, <2>5, NewerFinite
<1>7. Cardinality(A) = offset
  <2>1. Cardinality(A) # Cardinality(log)
    BY <1>6, LogFinite, FS_Subset
  <2>2. QED
    BY <1>1, <2>1 DEF Smaller
<1>8. Cardinality(items) = PageSize
  <2>1. Cardinality(items) # Cardinality(log \ A)
    BY <1>1, <1>3, <1>6, FS_Subset
  <2>2. QED
    BY <1>1, <2>1 DEF Smaller
<1>9. A \union items \subseteq Newer(w)
  <2>1. ASSUME NEW v \in A \union items PROVE v \in Newer(w)
    <3>1. v \in log \ {w}
      BY <1>1, <1>6
    <3>2. <<v, w>> \in NewestFirst
      BY <1>1, <1>6
    <3>3. stamp[v] >= stamp[w]
      BY <3>2 DEF NewestFirst
    <3>4. QED
      BY <1>4, <3>1, <3>3
  <2>2. QED
    BY <2>1
<1>10. Cardinality(A \union items) = offset + PageSize
  <2>1. A \cap items = {}
    BY <1>1
  <2>2. Cardinality(A \cap items) = 0
    BY <2>1, FS_EmptySet
  <2>3. Cardinality(A \union items)
          = Cardinality(A) + Cardinality(items) - Cardinality(A \cap items)
    BY <1>3, FS_Union
  <2>4. QED
    BY <1>2, <1>7, <1>8, <2>2, <2>3
<1>11. Cardinality(A \union items) <= Cardinality(Newer(w))
  BY <1>5, <1>9, FS_Subset
<1>12. QED
  BY <1>8, <1>10, <1>11 DEF offset

LEMMA InitReading == Init => Reading
<1> SUFFICES ASSUME Init PROVE Reading
  OBVIOUS
<1>1. Cardinality(Writers) \in Nat
  BY QueriesAssumption, FS_CardinalityType
<1>2. TypeOK
  <2>1. /\ now \in Times /\ stamp \in [Writers -> Times \union {Unstamped}]
        /\ since \in Times \union {Unstamped} /\ total \in 0..Uncounted
    BY <1>1, QueriesAssumption DEF Init, Times, Uncounted
  <2>2. Len(answers) \in 0..5
    BY DEF Init
  <2>3. asked \in [summary : SUBSET Writers, pages : SUBSET Writers]
    BY DEF Init
  <2>4. /\ log \subseteq Writers /\ \A w \in log : stamp[w] \in 0..now
        /\ dropped \subseteq Writers \ log /\ page \in Nat \ {0}
        /\ seen \subseteq log /\ atEnd \in BOOLEAN
    <3>1. log = {} /\ dropped = {} /\ page = 1 /\ seen = {} /\ atEnd = FALSE
      BY DEF Init
    <3>2. page \in Nat \ {0}
      BY <3>1
    <3>3. atEnd \in BOOLEAN
      BY <3>1, Zenon
    <3>4. \A w \in log : FALSE
      BY <3>1
    <3>5. log \subseteq Writers /\ dropped \subseteq Writers \ log /\ seen \subseteq log
      BY <3>1
    <3>6. QED
      BY <3>2, <3>3, <3>4, <3>5
  <2>5. QED
    BY <2>1, <2>2, <2>3, <2>4 DEF TypeOK
<1>3. QED
  BY <1>2, InitAnswered DEF Init, Reading, Stamped

LEMMA NextTypes ==
  ASSUME TypeOK, Stamped, Answered, [Next]_vars
  PROVE  TypeOK' /\ Stamped'
<1>1. Stamped'
  BY LogGrows DEF Stamped
<1>2. /\ now' \in Times /\ stamp' \in [Writers -> Times \union {Unstamped}]
      /\ log' \subseteq Writers /\ \A w \in log' : stamp'[w] \in 0..now'
      /\ dropped' \subseteq Writers \ log'
  BY LogGrows
<1>3. Len(answers') \in 0..5
  BY NextAnswered DEF Answered
<1>4. since' \in Times \union {Unstamped}
  <2>1. WindowStart \in Times
    BY QueriesAssumption DEF WindowStart, TypeOK, Times
  <2>2. QED
    BY <2>1 DEF Next, Stamp, Insert, InsertFails, Tick, AskSummary, QueryPart, SummaryFails,
       CountEntries, FindPage, PageFails, Finished, vars, summing, TypeOK
<1>5. page' \in Nat \ {0} /\ total' \in 0..Uncounted /\ atEnd' \in BOOLEAN
  <2>1. Cardinality(log) \in 0..Uncounted /\ Uncounted \in 0..Uncounted
    <3>1. Cardinality(Writers) \in Nat
      BY LogFinite, FS_CardinalityType
    <3>2. QED
      BY <3>1, LogFinite DEF Uncounted
  <2>2. CASE FindPage
    BY <2>1, <2>2 DEF FindPage, TypeOK
  <2>3. CASE ~FindPage
    BY <2>1, <2>3 DEF Next, Stamp, Insert, InsertFails, Tick, AskSummary, QueryPart,
       SummaryFails, CountEntries, PageFails, Finished, vars, paging, TypeOK
  <2>4. QED
    BY <2>2, <2>3
<1>6. seen' \subseteq log'
  <2>1. CASE FindPage
    <3>1. PICK items \in PagesAt(log, NewestFirst, page, PageSize) :
            seen' = seen \union items
      BY <2>1 DEF FindPage
    <3>2. items \subseteq log
      BY PagesAtMember DEF Follows
    <3>3. QED
      BY <3>1, <3>2, LogGrows DEF TypeOK
  <2>2. CASE ~FindPage
    BY <2>2, LogGrows DEF Next, Stamp, Insert, InsertFails, Tick, AskSummary, QueryPart,
       SummaryFails, CountEntries, PageFails, Finished, vars, paging, TypeOK
  <2>3. QED
    BY <2>1, <2>2
<1>7. asked' \in [summary : SUBSET Writers, pages : SUBSET Writers]
  <2>1. \A from : Recent(from) \subseteq Writers
    BY DEF Recent, TypeOK
  <2>2. QED
    BY <2>1 DEF Next, Stamp, Insert, InsertFails, Tick, AskSummary, QueryPart, SummaryFails,
       CountEntries, FindPage, PageFails, Finished, vars, TypeOK
<1>8. QED
  BY <1>1, <1>2, <1>3, <1>4, <1>5, <1>6, <1>7 DEF TypeOK

LEMMA NextPaging ==
  ASSUME Reading, [Next]_vars, TypeOK'
  PROVE  /\ (asked.pages \subseteq log)' /\ (\A w \in asked.pages : Ahead(w))'
         /\ (page = 1 => seen = {} /\ ~atEnd)'
<1> DEFINE Goal == /\ (asked.pages \subseteq log)' /\ (\A w \in asked.pages : Ahead(w))'
                   /\ (page = 1 => seen = {} /\ ~atEnd)'
<1>1. log \subseteq log' /\ TypeOK /\ Stamped
  BY LogGrows DEF Reading
<1>2. CASE FindPage
  <2>1. PICK items \in PagesAt(log, NewestFirst, page, PageSize) :
          seen' = seen \union items /\ atEnd' = (Cardinality(items) < PageSize)
    BY <1>2 DEF FindPage
  <2>2. /\ page' = page + 1 /\ asked' = asked /\ log' = log /\ stamp' = stamp
        /\ page' # 1
    BY <1>1, <1>2 DEF FindPage, writing, TypeOK
  <2>3. ASSUME NEW w \in asked.pages PROVE Ahead(w)'
    <3>1. w \in log /\ Ahead(w)
      BY DEF Reading
    <3>2. CASE w \in items
      BY <2>1, <3>2 DEF Ahead
    <3>3. CASE w \in seen
      BY <2>1, <3>3 DEF Ahead
    <3>4. CASE \E v \in log \ {w} : stamp[v] = stamp[w]
      BY <2>2, <3>4 DEF Ahead
    <3>5. CASE /\ Cardinality(items) = PageSize
               /\ Cardinality(Newer(w)) >= Offset(page, PageSize) + PageSize
      <4>1. ~atEnd'
        <5>1. ~(Cardinality(items) < PageSize)
          BY <3>5, QueriesAssumption
        <5>2. QED
          BY <2>1, <5>1, Zenon
      <4>2. Newer(w)' = Newer(w)
        BY <2>2 DEF Newer
      <4>3. Offset(page, PageSize)' = Offset(page, PageSize) + PageSize
        BY <1>1, <2>2, PageMovesOn DEF Offset
      <4>4. QED
        BY <3>5, <4>1, <4>2, <4>3 DEF Ahead
    <3>6. CASE atEnd
      BY <3>1, <3>3, <3>4, <3>6 DEF Ahead
    <3>7. QED
      BY <1>1, <3>1, <3>2, <3>3, <3>4, <3>5, <3>6, PageShows
  <2>4. QED
    BY <2>2, <2>3 DEF Reading
<1>3. ASSUME page' = page, seen' = seen, atEnd' = atEnd, asked'.pages = asked.pages
      PROVE  Goal
  <2>1. ASSUME NEW w \in asked.pages PROVE Ahead(w)'
    BY <1>1, <1>3, StillAhead DEF Reading
  <2>2. QED
    BY <1>1, <1>3, <2>1 DEF Reading
<1>4. CASE CountEntries
  <2>1. /\ page' = page /\ seen' = seen /\ atEnd' = atEnd /\ ~atEnd
        /\ log' = log /\ stamp' = stamp
    BY <1>4 DEF CountEntries, writing
  <2>2. CASE page = 1
    <3>1. asked'.pages = log
      BY <1>1, <1>4, <2>2 DEF CountEntries, TypeOK
    <3>2. ASSUME NEW w \in log PROVE Ahead(w)'
      <4>1. Cardinality(Newer(w)) >= Offset(1, PageSize)
        BY <1>1, NewerFinite, PageMovesOn
      <4>2. Newer(w)' = Newer(w) /\ Offset(page, PageSize)' = Offset(1, PageSize)
        BY <2>1, <2>2 DEF Newer, Offset
      <4>3. QED
        BY <2>1, <4>1, <4>2 DEF Ahead
    <3>3. QED
      BY <1>1, <2>1, <3>1, <3>2 DEF Reading
  <2>3. CASE page # 1
    BY <1>3, <1>4, <2>1, <2>3 DEF CountEntries
  <2>4. QED
    BY <2>2, <2>3
<1>5. CASE AskSummary \/ SummaryFails
  <2>1. asked'.pages = asked.pages
    BY <1>1, <1>5 DEF AskSummary, SummaryFails, TypeOK
  <2>2. QED
    BY <1>3, <1>5, <2>1 DEF AskSummary, SummaryFails, paging
<1>6. QED
  BY <1>2, <1>3, <1>4, <1>5 DEF Next, Stamp, Insert, InsertFails, Tick, QueryPart,
     PageFails, Finished, vars, paging

LEMMA NextReading == Reading /\ [Next]_vars => Reading'
<1> SUFFICES ASSUME Reading, [Next]_vars PROVE Reading'
  OBVIOUS
<1>1. TypeOK' /\ Stamped' /\ Answered'
  BY NextTypes, NextAnswered DEF Reading
<1>2. QED
  BY <1>1, NextPaging DEF Reading

LEMMA AlwaysReading == Spec => []Reading
  BY InitReading, NextReading, PTL DEF Spec

-----------------------------------------------------------------------------
(* Theorems.                                                               *)

(* Every variable keeps its type; an entry in the log bears the time it was
   made at (Service.Audit), never a later one. *)
THEOREM TypeCorrect == Spec => []TypeOK
<1>1. Reading => TypeOK
  BY DEF Reading
<1>2. QED
  BY <1>1, AlwaysReading, PTL

(* The five queries of a summary fit together, however the log grows between
   them (SummarizeAudits). *)
THEOREM AlwaysSummaryFits == Spec => []SummaryFits
<1>1. Reading => SummaryFits
  <2> SUFFICES ASSUME Reading, Summarized PROVE SummaryFits
    BY DEF SummaryFits
  <2>1. Len(answers) = 5
    BY FiveParts DEF Summarized
  <2>2. PICK window \in [1..5 -> SUBSET Recent(since)] :
          Covers(window, asked.summary, answers)
    BY <2>1 DEF Reading, Answered
  <2>3. /\ \A i \in 1..5 : asked.summary \subseteq window[i] /\ answers[i] = Parts(window[i])[i]
        /\ \A i, j \in 1..5 : i <= j => window[i] \subseteq window[j]
    BY <2>1, <2>2 DEF Covers
  <2>4. \A i \in 1..5 : /\ window[i] \in SUBSET log /\ IsFiniteSet(window[i])
                         /\ Cardinality(window[i]) \in Nat
    BY <2>2, LogFinite, FS_Subset, FS_CardinalityType DEF Recent, Reading
  <2>5. /\ answers[1] = Cardinality(window[1])
        /\ answers[2] = Cardinality({w \in window[2] : Told[w].action = "transition"})
        /\ answers[3] = Cardinality({Told[w].actor : w \in window[3]})
        /\ answers[4] = Counts(window[4], "action")
        /\ answers[5] = Counts(window[5], "entityType")
    BY <2>3 DEF Parts
  <2>6. Sum(answers[4]) = Cardinality(window[4]) /\ Sum(answers[5]) = Cardinality(window[5])
    BY <2>4, <2>5, CountsAddUp
  <2>7. \A i, j \in 1..5 : i <= j => Cardinality(window[i]) <= Cardinality(window[j])
    BY <2>3, <2>4, FS_Subset
  <2>8. Cardinality(asked.summary) <= answers[1]
    BY <2>3, <2>4, <2>5, FS_Subset
  <2>9. answers[2] <= (IF "transition" \in DOMAIN answers[4]
                       THEN answers[4]["transition"] ELSE 0)
    <3> DEFINE Moves(i) == {w \in window[i] : Told[w].action = "transition"}
    <3>1. Moves(2) \in SUBSET Moves(4)
      BY <2>3
    <3>2. IsFiniteSet(Moves(4)) /\ Moves(4) \in SUBSET window[4]
      BY <2>4, FS_Subset
    <3>3. Cardinality(Moves(2)) <= Cardinality(Moves(4))
      BY <3>1, <3>2, FS_Subset
    <3>4. /\ DOMAIN answers[4] = {Told[w]["action"] : w \in window[4]}
          /\ \A value \in DOMAIN answers[4] :
               answers[4][value] = Cardinality({w \in window[4] : Told[w]["action"] = value})
      BY <2>5 DEF Counts
    <3>5. CASE "transition" \in DOMAIN answers[4]
      BY <2>5, <3>3, <3>4, <3>5
    <3>6. CASE "transition" \notin DOMAIN answers[4]
      <4>1. Moves(4) = {}
        BY <3>4, <3>6
      <4>2. Moves(2) = {}
        BY <3>1, <4>1
      <4>3. Cardinality(Moves(2)) = 0
        BY <4>2, FS_EmptySet
      <4>4. QED
        BY <2>5, <3>6, <4>3
    <3>7. QED
      BY <3>5, <3>6
  <2>10. answers[3] <= Cardinality(window[3])
    <3> DEFINE actors == {Told[w].actor : w \in window[3]}
               actorOf == [w \in window[3] |-> Told[w].actor]
    <3>1. actorOf \in Surjection(window[3], actors)
      BY Fun_IsSurj
    <3>2. Cardinality(actors) <= Cardinality(window[3])
      BY <2>4, <3>1, FS_Surjection
    <3>3. QED
      BY <2>5, <3>2
  <2>11. Cardinality({Told[w].actor : w \in window[3]}) \in Nat
    <3> DEFINE actors == {Told[w].actor : w \in window[3]}
               actorOf == [w \in window[3] |-> Told[w].actor]
    <3>1. actorOf \in Surjection(window[3], actors)
      BY Fun_IsSurj
    <3>2. QED
      BY <2>4, <3>1, FS_Surjection, FS_CardinalityType
  <2>12. /\ answers[1] <= Sum(answers[4]) /\ answers[3] <= Sum(answers[4])
         /\ Sum(answers[4]) <= Sum(answers[5])
    BY <2>4, <2>5, <2>6, <2>7, <2>10, <2>11
  <2>13. QED
    BY <2>8, <2>9, <2>12 DEF SummaryFits
<1>2. QED
  BY <1>1, AlwaysReading, PTL

(* Reading ListAudits page by page to the end shows every entry that was
   there at the beginning, but for those that share their created_at, however
   many are appended meanwhile and in whatever order of their times. *)
THEOREM AlwaysPagingMissesNothing == Spec => []PagingMissesNothing
<1>1. Reading => PagingMissesNothing
  BY DEF Reading, PagingMissesNothing, Ahead
<1>2. QED
  BY <1>1, AlwaysReading, PTL
===============================================================================
