-------------------------- MODULE VersionedRecords --------------------------
(***************************************************************************)
(* What the record services promise about the stored rows, whatever        *)
(* requests overlap: a row is created once, with a code no other row of    *)
(* its kind ever had; from then on every change is one numbered version    *)
(* that either rewrites the business fields and keeps the status, or moves *)
(* the status along an edge of the kind's graph and keeps the fields; a    *)
(* removed row never changes again.  So no change can undo another one.    *)
(***************************************************************************)
EXTENDS Rows

VARIABLE rows

Init == rows \in SeededTables

Create(key) ==
  /\ rows[key].life = "absent"
  /\ \E code \in Codes, data \in Data :
       /\ ~CodeTaken(rows, KindOf[key], code)
       /\ rows' = [rows EXCEPT ![key] =
                     InsertedRow(code, Service[KindOf[key]].initial, data)]

(* A new version of a row: other business fields, or another status. *)
Edited(row, data) == [row EXCEPT !.data = data, !.version = @ + 1]
Moved(row, status) == [row EXCEPT !.status = status, !.version = @ + 1]

Edit(key) ==
  /\ rows[key].life = "live"
  /\ \E data \in Data :
       rows' = [rows EXCEPT ![key] = Edited(rows[key], data)]

Move(key) ==
  /\ rows[key].life = "live"
  /\ \E status \in Statuses(KindOf[key]) :
       /\ Edge(KindOf[key], rows[key].status, status)
       /\ rows' = [rows EXCEPT ![key] = Moved(rows[key], status)]

Remove(key) ==
  /\ rows[key].life = "live"
  /\ rows' = [rows EXCEPT ![key].life = "gone"]

Next == \E key \in Keys : Create(key) \/ Edit(key) \/ Move(key) \/ Remove(key)

Spec == Init /\ [][Next]_rows

-----------------------------------------------------------------------------

(* Every stored row has its columns' types, and only a row that was never
   inserted has zero values: the rows repository/base.go reads and writes. *)
RowsOK == TableOK(rows)

(* Two rows of one table never share a business code, removed rows
   included: the unique index of BaseModel.Code. *)
UniqueCodes ==
  \A k1, k2 \in Keys :
    /\ KindOf[k1] = KindOf[k2]
    /\ rows[k1].life # "absent" /\ rows[k2].life # "absent"
    /\ rows[k1].code = rows[k2].code
    => k1 = k2
=============================================================================
