---------------------------- MODULE AuditQueries ----------------------------
(***************************************************************************)
(* Reading the audit log (service/security.go, repository/security.go)     *)
(* while the record services append to it.  A summary is five queries and  *)
(* a page is two; every query sees the log as it is at that moment.  An    *)
(* entry is stamped before it is inserted, so entries become visible out   *)
(* of the order of their stamps, and two may bear the same one.            *)
(***************************************************************************)
EXTENDS Pages, Sequences

CONSTANTS
  Writers,  \* the audited requests, each appending one entry
  Told,     \* what a writer's entry tells: its action, entity type and actor
  Window,   \* the summary's window, in ticks of the clock
  PageSize,
  LastTime  \* bound: the clock stops here

ASSUME QueriesAssumption ==
  /\ IsFiniteSet(Writers)
  /\ Told \in [Writers -> [action : STRING, entityType : STRING, actor : STRING]]
  /\ Window \in Nat \ {0}
  /\ PageSize \in Nat \ {0}
  /\ LastTime \in Nat

VARIABLES
  now,
  stamp,   \* created_at of each writer's entry, once it has one
  log,     \* the writers whose entry is in audit_logs
  dropped, \* those whose entry will never be
  since,   \* the start of the summary's window, once it was asked for
  answers, \* what the summary's queries have answered, in the order of Parts
  page,    \* the page the reader asks for next
  total,   \* meta.total of that page, once it is counted
  seen,    \* the entries on the pages the reader was given
  atEnd,   \* whether the last of them was not full
  asked    \* history: the entries that were there when each reader began

writing == <<stamp, log, dropped>>
summing == <<since, answers>>
paging  == <<page, total, seen, atEnd>>
vars == <<now, writing, summing, paging, asked>>

Times == 0..LastTime
Unstamped == LastTime + 1
Uncounted == Cardinality(Writers) + 1

Init ==
  /\ now = 0
  /\ stamp = [w \in Writers |-> Unstamped] /\ log = {} /\ dropped = {}
  /\ since = Unstamped /\ answers = << >>
  /\ page = 1 /\ total = Uncounted /\ seen = {} /\ atEnd = FALSE
  /\ asked = [summary |-> {}, pages |-> {}]

-----------------------------------------------------------------------------
(* Writers and time.                                                       *)

(* Audit: the entry gets its time of creation. *)
Stamp(w) ==
  /\ stamp[w] = Unstamped
  /\ stamp' = [stamp EXCEPT ![w] = now]
  /\ UNCHANGED <<now, log, dropped, summing, paging, asked>>

Pending(w) == stamp[w] # Unstamped /\ w \notin log \union dropped

(* Mutant: the time is left to the database. *)
InsertUnstamped(w) ==
  /\ w \notin log \union dropped
  /\ log' = log \union {w}
  /\ UNCHANGED <<now, stamp, dropped, summing, paging, asked>>

(* AppendAudit; no statement changes or removes an entry. *)
Insert(w) ==
  /\ Pending(w)
  /\ log' = log \union {w}
  /\ UNCHANGED <<now, stamp, dropped, summing, paging, asked>>

InsertFails(w) ==
  /\ Pending(w)
  /\ dropped' = dropped \union {w}
  /\ UNCHANGED <<now, stamp, log, summing, paging, asked>>

Tick ==
  /\ now < LastTime
  /\ now' = now + 1
  /\ UNCHANGED <<writing, summing, paging, asked>>

-----------------------------------------------------------------------------
(* The summary.                                                            *)

WindowStart == IF now >= Window THEN now - Window ELSE 0

Recent(from) == {w \in log : stamp[w] >= from}

Counts(entries, column) ==
  [value \in {Told[w][column] : w \in entries} |->
     Cardinality({w \in entries : Told[w][column] = value})]

(* The queries of SummarizeAudits over the entries of its window, in order. *)
Parts(entries) ==
  <<Cardinality(entries),
    Cardinality({w \in entries : Told[w].action = "transition"}),
    Cardinality({Told[w].actor : w \in entries}),
    Counts(entries, "action"),
    Counts(entries, "entityType")>>

(* AuditSummary fixes the start of the window once.  (Bound: of the two
   readers only one reads; neither changes what the other would see.) *)
AskSummary ==
  /\ since = Unstamped /\ page = 1 /\ total = Uncounted
  /\ since' = WindowStart
  /\ asked' = [asked EXCEPT !.summary = Recent(WindowStart)]
  /\ UNCHANGED <<now, writing, answers, paging>>

Summarized == Len(answers) = Len(Parts({}))

(* Mutant: every query computes the window for itself. *)
QueryPartMoving ==
  /\ since # Unstamped /\ ~Summarized
  /\ answers' = Append(answers, Parts(Recent(WindowStart))[Len(answers) + 1])
  /\ UNCHANGED <<now, writing, since, paging, asked>>

QueryPart ==
  /\ since # Unstamped /\ ~Summarized
  /\ answers' = Append(answers, Parts(Recent(since))[Len(answers) + 1])
  /\ UNCHANGED <<now, writing, since, paging, asked>>

(* A query fails, the caller gets nothing and may ask again. *)
SummaryFails ==
  /\ since # Unstamped /\ ~Summarized
  /\ since' = Unstamped /\ answers' = << >>
  /\ asked' = [asked EXCEPT !.summary = {}]
  /\ UNCHANGED <<now, writing, paging>>

-----------------------------------------------------------------------------
(* A reader that asks for page after page until one is not full.           *)

(* ListAudits: the first query. *)
CountEntries ==
  /\ ~atEnd /\ total = Uncounted /\ since = Unstamped
  /\ total' = Cardinality(log)
  /\ asked' = IF page = 1 THEN [asked EXCEPT !.pages = log] ELSE asked
  /\ UNCHANGED <<now, writing, summing, page, seen, atEnd>>

(* Entries of equal stamps come in any order. *)
NewestFirst == {pair \in log \X log : stamp[pair[1]] >= stamp[pair[2]]}

(* The second. *)
FindPage ==
  /\ total # Uncounted
  /\ \E entries \in PagesAt(log, NewestFirst, page, PageSize) :
       /\ seen' = seen \union entries
       /\ atEnd' = (Cardinality(entries) < PageSize)
  /\ page' = page + 1 /\ total' = Uncounted
  /\ UNCHANGED <<now, writing, summing, asked>>

(* The second query fails and the reader asks for the same page again. *)
PageFails ==
  /\ total # Uncounted
  /\ total' = Uncounted
  /\ UNCHANGED <<now, writing, summing, page, seen, atEnd, asked>>

(* Everything was written and something was read. *)
Finished ==
  /\ log \union dropped = Writers /\ now = LastTime /\ (Summarized \/ atEnd)
  /\ UNCHANGED vars

Next ==
  \/ \E w \in Writers : Stamp(w) \/ Insert(w) \/ InsertFails(w)
  \/ Tick
  \/ AskSummary \/ QueryPart \/ SummaryFails
  \/ CountEntries \/ FindPage \/ PageFails
  \/ Finished

Spec == Init /\ [][Next]_vars

-----------------------------------------------------------------------------
(* Properties.                                                             *)

(* Types; every entry in the log bears the time it was made at. *)
TypeOK ==
  /\ now \in Times
  /\ stamp \in [Writers -> Times \union {Unstamped}]
  /\ log \subseteq Writers /\ \A w \in log : stamp[w] \in 0..now
  /\ dropped \subseteq Writers \ log
  /\ since \in Times \union {Unstamped}
  /\ Len(answers) \in 0..5
  /\ page \in Nat \ {0} /\ total \in 0..Uncounted
  /\ seen \subseteq log /\ atEnd \in BOOLEAN
  /\ asked \in [summary : SUBSET Writers, pages : SUBSET Writers]

(* As many pairs as the counts add up to. *)
Sum(counts) == Cardinality(UNION {{value} \X (1..counts[value]) : value \in DOMAIN counts})

(* The five queries of a summary (SummarizeAudits) see five states of the log,
   yet their answers fit together: each later one covers what an earlier one
   counted, none less than was there when the summary was asked for.  So no
   share the caller computes, of the transitions or of an action, exceeds the
   whole, if it divides by the later answer. *)
SummaryFits ==
  Summarized =>
    /\ Cardinality(asked.summary) <= answers[1]
    /\ answers[1] <= Sum(answers[4])
    /\ answers[2] <= (IF "transition" \in DOMAIN answers[4] THEN answers[4]["transition"] ELSE 0)
    /\ answers[3] <= Sum(answers[4])
    /\ Sum(answers[4]) <= Sum(answers[5])

(* A reader that goes on until a page of ListAudits is not full has seen every
   entry that was there when it began, although the log grows between the
   pages and entries become visible out of order: offsets count from the
   newest entry, so that an entry only ever moves to a later page.  Entries
   that share their created_at are excepted, as the query orders by nothing
   else. *)
PagingMissesNothing ==
  atEnd => \A w \in asked.pages :
             w \in seen \/ \E v \in log \ {w} : stamp[v] = stamp[w]

-----------------------------------------------------------------------------
(* Why they hold.                                                          *)

Stamped == \A w \in Writers : stamp[w] # Unstamped => stamp[w] \in 0..now

(* Each answer is the part of a state of the window, and those states grow
   from what was there when the summary was asked for. *)
Covers(window, given, values) ==
  /\ \A i \in 1..Len(values) : given \subseteq window[i] /\ values[i] = Parts(window[i])[i]
  /\ \A i, j \in 1..Len(values) : i <= j => window[i] \subseteq window[j]

Answered ==
  /\ Len(answers) \in 0..5 /\ answers = [i \in 1..Len(answers) |-> answers[i]]
  /\ since = Unstamped => Len(answers) = 0
  /\ asked.summary \subseteq Recent(since)
  /\ \E window \in [1..Len(answers) -> SUBSET Recent(since)] :
       Covers(window, asked.summary, answers)

Newer(w) == {v \in log : stamp[v] > stamp[w]}

(* An entry that the pages have not shown yet is still behind their offset. *)
Ahead(w) ==
  \/ w \in seen
  \/ \E v \in log \ {w} : stamp[v] = stamp[w]
  \/ ~atEnd /\ Cardinality(Newer(w)) >= Offset(page, PageSize)

Reading ==
  /\ TypeOK /\ Stamped /\ Answered
  /\ asked.pages \subseteq log /\ \A w \in asked.pages : Ahead(w)
  /\ page = 1 => seen = {} /\ ~atEnd
=============================================================================
