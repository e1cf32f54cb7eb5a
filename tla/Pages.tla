-------------------------------- MODULE Pages --------------------------------
(***************************************************************************)
(* Paging as the handlers and repositories do it: the page that is asked   *)
(* for is brought into bounds, and found by ORDER BY, OFFSET and LIMIT.    *)
(***************************************************************************)
EXTENDS Naturals, FiniteSets

Smaller(m, n) == IF m < n THEN m ELSE n

(* Mutant: only too large a size is replaced. *)
BoundSizeAbove(asked, default, largest) ==
  IF asked <= largest THEN asked ELSE default

(* bindPage and normalizePage, one after the other: the second one's upper *)
(* bound is never reached. *)
BoundSize(asked, default, largest) ==
  IF asked \in 1..largest THEN asked ELSE default

(* Mutant: pages counted from zero. *)
OffsetFromZero(page, size) == page * size

Offset(page, size) == (page - 1) * size

(* Whatever rows the page may hold: order is the ORDER BY, the pairs whose *)
(* first may come before the second.  Rows that it does not tell apart     *)
(* come in any order, in another one each time. *)
PagesAt(found, order, page, size) ==
  LET First(some, others) == some \X others \subseteq order
      skipped == {A \in SUBSET found :
        /\ Cardinality(A) = Smaller(Offset(page, size), Cardinality(found))
        /\ First(A, found \ A)} IN
  UNION {{S \in SUBSET (found \ A) :
            /\ Cardinality(S) = Smaller(size, Cardinality(found \ A))
            /\ First(S, found \ (A \union S))} : A \in skipped}
=============================================================================
