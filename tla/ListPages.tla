------------------------------ MODULE ListPages ------------------------------
(***************************************************************************)
(* Reading a table page after page (handler list, Store.List) while users  *)
(* change its rows.  The list is ordered by updated_at, which a service    *)
(* sets before its UPDATE runs, so a changed row moves towards the front,  *)
(* though not always to it; a row may come to match the reader's filter or *)
(* leave it, and a removed one keeps its updated_at.                       *)
(***************************************************************************)
EXTENDS Pages

CONSTANTS
  Ids,         \* primary keys, given in ascending order
  Seeded,      \* the rows one INSERT stored before: all of one updated_at
  Writers,     \* the changing requests
  AskedSizes,  \* values of pageSize a reader may send
  DefaultSize, \* 20
  LargestSize, \* 100
  LastTime     \* bound: the clock stops here

ASSUME ListAssumption ==
  /\ Ids \subseteq Nat /\ IsFiniteSet(Ids) /\ Seeded \subseteq Ids
  /\ AskedSizes \subseteq Nat
  /\ LargestSize \in Nat /\ DefaultSize \in 1..LargestSize
  /\ IsFiniteSet(Writers) /\ LastTime \in Nat

VARIABLES
  now,
  rows,   \* the table
  write,  \* each writer's row as it read it, and as it is going to be
  size,   \* pageSize of the answers
  page,   \* the page the reader asks for next
  total,  \* meta.total of that page, once it is counted
  shown,  \* how often the reader was shown each row
  atEnd,  \* whether the last page was not full
  start,  \* history: the table when the reader began
  left,   \* history: matching rows that went since, by removal or change
  came    \* history: rows that came, or moved forward, since

reading == <<size, page, total, shown, atEnd>>
vars == <<now, rows, write, reading, start, left, came>>

Times == 0..LastTime
Absent == [life |-> "absent", matches |-> FALSE, updated |-> 0]
Gone == [Absent EXCEPT !.life = "gone"]
Live(matches, time) == [life |-> "live", matches |-> matches, updated |-> time]
Rows == [life : {"absent", "live", "gone"}, matches : BOOLEAN, updated : Times]

Idle == [at |-> "idle"]
Done == [at |-> "done"]
Uncounted == Cardinality(Ids) + 1

(* The WHERE clause: the status filter, and deleted_at IS NULL. *)
Found(row) == row.life = "live" /\ row.matches
Listed == {k \in Ids : Found(rows[k])}

Init ==
  /\ now = 0
  /\ \E matching \in SUBSET Seeded :
       rows = [k \in Ids |-> IF k \in Seeded THEN Live(k \in matching, 0) ELSE Absent]
  /\ write = [w \in Writers |-> Idle]
  /\ size \in {BoundSize(asked, DefaultSize, LargestSize) : asked \in AskedSizes}
  /\ page = 1 /\ total = Uncounted /\ shown = [k \in Ids |-> 0] /\ atEnd = FALSE
  /\ start = rows /\ left = 0 /\ came = 0

-----------------------------------------------------------------------------
(* Writers: a request reads the row and gets its time, then writes.        *)

(* Ids are given in ascending order, each to one creation.                 *)
Fresh ==
  LET free == {k \in Ids : /\ rows[k].life = "absent"
                           /\ \A w \in Writers : write[w].at = "read" => write[w].id # k}
  IN {k \in free : \A j \in free : k <= j}

Read(w) ==
  \E k \in Ids, matches \in BOOLEAN :
    /\ write[w] = Idle
    /\ rows[k].life = "live" \/ k \in Fresh
    /\ write' = [write EXCEPT ![w] =
         [at |-> "read", id |-> k, row |-> rows[k], new |-> Live(matches, now)]]
    /\ UNCHANGED <<now, rows, reading, start, left, came>>

Changed(k, row) ==
  /\ rows' = [rows EXCEPT ![k] = row]
  /\ left' = IF Found(rows[k]) /\ ~Found(row) THEN left + 1 ELSE left
  /\ came' = IF Found(row) THEN came + 1 ELSE came

(* Create, Update and Transition: the INSERT of a fresh id, or the UPDATE  *)
(* of the version that was read. *)
Write(w) ==
  /\ write[w].at = "read"
  /\ IF rows[write[w].id] = write[w].row
     THEN Changed(write[w].id, write[w].new)
     ELSE UNCHANGED <<rows, left, came>>
  /\ write' = [write EXCEPT ![w] = Done]
  /\ UNCHANGED <<now, reading, start>>

(* Delete looks at no version. *)
Remove(w) ==
  \E k \in Ids :
    /\ write[w] = Idle /\ rows[k].life = "live"
    /\ Changed(k, Gone)
    /\ write' = [write EXCEPT ![w] = Done]
    /\ UNCHANGED <<now, reading, start>>

Tick ==
  /\ now < LastTime
  /\ now' = now + 1
  /\ UNCHANGED <<rows, write, reading, start, left, came>>

-----------------------------------------------------------------------------
(* The reader: page after page, until one is not full.                     *)

(* Store.List: the first query. *)
CountRows ==
  /\ ~atEnd /\ total = Uncounted
  /\ total' = Cardinality(Listed)
  /\ IF page = 1 /\ shown = [k \in Ids |-> 0]
     THEN start' = rows /\ left' = 0 /\ came' = 0
     ELSE UNCHANGED <<start, left, came>>
  /\ UNCHANGED <<now, rows, write, size, page, shown, atEnd>>

(* Mutant: no second sort key. *)
LatestOnly == {pair \in Ids \X Ids : rows[pair[1]].updated >= rows[pair[2]].updated}

Before(k, j) == \/ rows[k].updated > rows[j].updated
                \/ rows[k].updated = rows[j].updated /\ k > j

LatestFirst == {pair \in Ids \X Ids : pair[1] = pair[2] \/ Before(pair[1], pair[2])}

(* The second query. *)
FindRows ==
  /\ total # Uncounted
  /\ \E items \in PagesAt(Listed, LatestFirst, page, size) :
       /\ shown' = [k \in Ids |-> IF k \in items THEN shown[k] + 1 ELSE shown[k]]
       /\ atEnd' = (Cardinality(items) < size)
  /\ page' = page + 1 /\ total' = Uncounted
  /\ UNCHANGED <<now, rows, write, size, start, left, came>>

(* The second query fails and the reader asks for the same page again. *)
ListFails ==
  /\ total # Uncounted
  /\ total' = Uncounted
  /\ UNCHANGED <<now, rows, write, size, page, shown, atEnd, start, left, came>>

(* Everything is read and written. *)
Finished == atEnd /\ (\A w \in Writers : write[w] = Done) /\ now = LastTime
              /\ UNCHANGED vars

Next ==
  \/ \E w \in Writers : Read(w) \/ Write(w) \/ Remove(w)
  \/ Tick
  \/ CountRows \/ FindRows \/ ListFails
  \/ Finished

Spec == Init /\ [][Next]_vars

-----------------------------------------------------------------------------
(* Properties.                                                             *)

TypeOK ==
  /\ now \in Times
  /\ rows \in [Ids -> Rows] /\ start \in [Ids -> Rows]
  /\ write \in [Writers -> {Idle, Done}
         \union [at : {"read"}, id : Ids, row : Rows, new : Rows]]
  /\ size \in 1..LargestSize /\ page \in Nat \ {0} /\ total \in 0..Uncounted
  /\ shown \in [Ids -> Nat] /\ atEnd \in BOOLEAN
  /\ left \in 0..Cardinality(Writers) /\ came \in 0..Cardinality(Writers)

Missed ==
  {k \in Ids : Found(start[k]) /\ rows[k] = start[k] /\ shown[k] = 0}

(* A reader that goes on until a page is not full misses no more unchanged
   rows than rows left the list while it read: each that leaves moves the
   later ones one place forward, over the reader's offset.  However rows are
   changed, created or stamped out of order, that alone hides none: a change
   only moves others back. *)
MissedOnlyByRemovals == atEnd => Cardinality(Missed) <= left

(* The times a row was shown again. *)
Again == UNION {{k} \X (2..shown[k]) : k \in Ids}
Repeats == Cardinality(Again)

(* And it is shown a row once more at most for each row that was created,
   changed or came to match meanwhile. *)
RepeatsOnlyByWrites == Repeats <= came

-----------------------------------------------------------------------------
(* Why they hold.                                                          *)

(* The rows that come before k in the list. *)
Ahead(k) == {j \in Listed : Before(j, k)}
Rank(k) == Cardinality(Ahead(k))

(* updated_at never goes back, but for the rows that are removed. *)
TimesOK ==
  /\ \A k \in Ids : rows[k].updated <= now
  /\ \A w \in Writers : write[w].at = "read" =>
       /\ write[w].row.life # "gone" /\ write[w].new.life = "live"
       /\ write[w].row.updated <= write[w].new.updated /\ write[w].new.updated <= now
  /\ \A k \in Ids : Found(start[k]) =>
       /\ rows[k].life # "absent"
       /\ rows[k].life = "live" => rows[k].updated >= start[k].updated

(* Rows that may be missed: those that the reader's offset has passed, and
   those out of the list that may come back to it. *)
Passed ==
  {k \in Ids : /\ Found(start[k]) /\ shown[k] = 0
               /\ rows[k].life = "live" /\ rows[k].updated = start[k].updated
               /\ Found(rows[k]) => atEnd \/ Rank(k) < Offset(page, size)}

(* Rows that were shown and will be again. *)
Due == {k \in Listed : shown[k] > 0 /\ Rank(k) >= Offset(page, size)}

Served == {w \in Writers : write[w].at = "done"}

Counted ==
  /\ left <= Cardinality(Served) /\ came <= Cardinality(Served)
  /\ Cardinality(Passed) <= left
  /\ IsFiniteSet(Again) /\ Cardinality(Due) + Repeats <= came

Paging == TypeOK /\ TimesOK /\ Counted
=============================================================================
