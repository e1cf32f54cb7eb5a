------------------------------ MODULE RowsProofs ------------------------------
(***************************************************************************)
(* Facts about the status graphs and the statements on rows that the       *)
(* proofs about the record services, the start and the workbench cite.     *)
(***************************************************************************)
EXTENDS Rows, TLAPS

(* Each service's initial and seeded statuses are statuses of its graph
   (constants/status.go, model/*.go, database.go seeds). *)
LEMMA ServiceStatuses ==
  ASSUME NEW kind \in EntityKinds
  PROVE  /\ Service[kind].initial \in Statuses(kind)
         /\ Service[kind].seeds \subseteq Statuses(kind)
         /\ Statuses(kind) \subseteq AllStatuses
<1> USE DEF Service, Statuses, AllStatuses
<1>1. CASE kind = "SolarSite"
  BY <1>1 DEF SolarSiteService, SolarSiteTransitions
<1>2. CASE kind = "InverterUnit"
  BY <1>2 DEF InverterUnitService, InverterUnitTransitions
<1>3. CASE kind = "FaultEvent"
  BY <1>3 DEF FaultEventService, FaultEventTransitions
<1>4. CASE kind = "MitigationAction"
  BY <1>4 DEF MitigationActionService, MitigationActionTransitions
<1>5. QED
  BY <1>1, <1>2, <1>3, <1>4 DEF EntityKinds

(* The graphs are closed: CanTransition only allows moves to statuses of
   the same kind, so no row can be moved to a status it cannot leave. *)
LEMMA GraphsClosed ==
  ASSUME NEW kind \in EntityKinds, NEW from, NEW to, Edge(kind, from, to)
  PROVE  from \in Statuses(kind) /\ to \in Statuses(kind)
<1> USE DEF Service, Statuses, Edge, CanTransition
<1>1. CASE kind = "SolarSite"
  BY <1>1 DEF SolarSiteService, SolarSiteTransitions
<1>2. CASE kind = "InverterUnit"
  BY <1>2 DEF InverterUnitService, InverterUnitTransitions
<1>3. CASE kind = "FaultEvent"
  BY <1>3 DEF FaultEventService, FaultEventTransitions
<1>4. CASE kind = "MitigationAction"
  BY <1>4 DEF MitigationActionService, MitigationActionTransitions
<1>5. QED
  BY <1>1, <1>2, <1>3, <1>4 DEF EntityKinds

LEMMA EmptyRowType == EmptyRow \in Row
  BY DEF EmptyRow, Row, Lives

(* A row as InsertedRow makes it is a row, whatever inserts it. *)
LEMMA InsertedRowType ==
  ASSUME NEW kind \in EntityKinds, NEW code \in Codes, NEW data \in Data,
         NEW status \in Statuses(kind)
  PROVE  InsertedRow(code, status, data) \in Row
  BY ServiceStatuses DEF InsertedRow, Row, Lives

LEMMA InsertedRowOK ==
  ASSUME NEW key \in Keys, NEW code \in Codes, NEW data \in Data,
         NEW status \in Statuses(KindOf[key])
  PROVE  /\ InsertedRow(code, status, data) \in Row
         /\ RowOK(key, InsertedRow(code, status, data))
<1>1. KindOf[key] \in EntityKinds
  BY KeysAssumption
<1>2. InsertedRow(code, status, data) \in Row
  BY <1>1, InsertedRowType
<1>3. QED
  BY <1>2 DEF InsertedRow, RowOK

(* Every row of a seeded table is empty or a seeded one at version 1. *)
LEMMA SeededRows ==
  ASSUME NEW table \in SeededTables, NEW key \in Keys
  PROVE  \/ table[key] = EmptyRow
         \/ /\ key \in SeedKeys
            /\ \E status \in Statuses(KindOf[key]) :
                 table[key] = InsertedRow(SeedCode[key], status, SeedData)
<1>1. PICK s \in SeedStatus :
        table = [k \in Keys |-> IF k \in SeedKeys
                                THEN InsertedRow(SeedCode[k], s[k], SeedData)
                                ELSE EmptyRow]
  BY DEF SeededTables
<1>2. key \in SeedKeys => s[key] \in Statuses(KindOf[key])
  BY KeysAssumption, ServiceStatuses DEF SeedStatus
<1>3. QED
  BY <1>1, <1>2

LEMMA SeededTablesOK ==
  ASSUME NEW table \in SeededTables
  PROVE  TableOK(table)
<1>1. ASSUME NEW key \in Keys PROVE table[key] \in Row /\ RowOK(key, table[key])
  <2>1. CASE table[key] = EmptyRow
    BY <2>1, EmptyRowType DEF EmptyRow, RowOK
  <2>2. CASE /\ key \in SeedKeys
             /\ \E status \in Statuses(KindOf[key]) :
                  table[key] = InsertedRow(SeedCode[key], status, SeedData)
    BY <2>2, KeysAssumption, InsertedRowOK
  <2>3. QED
    BY <2>1, <2>2, SeededRows
<1>2. table \in [Keys -> Row]
  <2>1. PICK s \in SeedStatus :
          table = [key \in Keys |-> IF key \in SeedKeys
                                    THEN InsertedRow(SeedCode[key], s[key], SeedData)
                                    ELSE EmptyRow]
    BY DEF SeededTables
  <2>2. QED
    BY <1>1, <2>1
<1>3. QED
  BY <1>1, <1>2 DEF TableOK

(* A statement that changes one row to a well-formed one. *)
LEMMA OneRowOK ==
  ASSUME NEW table, TableOK(table), NEW key \in Keys,
         NEW row \in Row, RowOK(key, row)
  PROVE  TableOK([table EXCEPT ![key] = row])
  BY DEF TableOK

(* What an UPDATE makes of a row: the caller's status, version and business
   fields, the row's own code and deletion mark. *)
LEMMA OverwrittenColumns ==
  ASSUME NEW row \in Row, NEW new
  PROVE  /\ Overwritten(row, new).life = row.life
         /\ Overwritten(row, new).code = row.code
         /\ Overwritten(row, new).status = new.status
         /\ Overwritten(row, new).version = new.version
         /\ Overwritten(row, new).data = new.data
<1>1. Overwritten(row, new).life = row.life /\ Overwritten(row, new).code = row.code
  BY DEF Overwritten, Row
<1>2. Overwritten(row, new).status = new.status
  BY DEF Overwritten, Row
<1>3. Overwritten(row, new).version = new.version
  BY DEF Overwritten, Row
<1>4. Overwritten(row, new).data = new.data
  BY DEF Overwritten, Row
<1>5. QED
  BY <1>1, <1>2, <1>3, <1>4

LEMMA OverwrittenOK ==
  ASSUME NEW key \in Keys, NEW row \in Row, RowOK(key, row), row.life = "live",
         NEW new, new.status \in Statuses(KindOf[key]), new.data \in Data,
         new.version \in Nat, new.version >= 1
  PROVE  Overwritten(row, new) \in Row /\ RowOK(key, Overwritten(row, new))
<1>1. new.status \in AllStatuses
  BY KeysAssumption, ServiceStatuses
<1>2. Overwritten(row, new) \in Row
  BY <1>1 DEF Overwritten, Row
<1>3. RowOK(key, Overwritten(row, new))
  BY OverwrittenColumns DEF RowOK
<1>4. QED
  BY <1>2, <1>3
===============================================================================
