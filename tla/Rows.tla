-------------------------------- MODULE Rows --------------------------------
(***************************************************************************)
(* The four tables as one function from primary keys to rows, and what one *)
(* statement of the generic repository (repository/base.go) does to it.    *)
(***************************************************************************)
EXTENDS Entities, Naturals

CONSTANTS
  Keys,     \* the primary keys of all four tables
  KindOf,   \* the table a key belongs to
  Codes,    \* business codes, up to trimming and case
  Data,     \* contents of the business fields
  SeedKeys, \* the rows database.Seed inserts before the service starts
  SeedCode, \* their codes
  SeedData, \* their business fields
  NoCode, NoData, NoStatus  \* the zero values of a Go struct

ASSUME KeysAssumption ==
  /\ KindOf \in [Keys -> EntityKinds]
  /\ SeedKeys \subseteq Keys
  /\ SeedCode \in [SeedKeys -> Codes]
  /\ SeedData \in Data
  /\ NoStatus \notin AllStatuses

ASSUME SeedCodesAssumption ==
  \A k1, k2 \in SeedKeys :
    KindOf[k1] = KindOf[k2] /\ SeedCode[k1] = SeedCode[k2] => k1 = k2

(* A row is not inserted yet, visible, or soft deleted (deleted_at set). *)
Lives == {"absent", "live", "gone"}

Row == [life : Lives, code : Codes \union {NoCode},
        status : AllStatuses \union {NoStatus}, version : Nat,
        data : Data \union {NoData}]

EmptyRow == [life |-> "absent", code |-> NoCode, status |-> NoStatus,
             version |-> 0, data |-> NoData]

InsertedRow(code, status, data) ==
  [life |-> "live", code |-> code, status |-> status, version |-> 1, data |-> data]

(* Only a row never inserted has zero values in its columns. *)
RowOK(key, row) ==
  IF row.life = "absent" THEN row = EmptyRow
  ELSE /\ row.version >= 1
       /\ row.code \in Codes
       /\ row.status \in Statuses(KindOf[key])
       /\ row.data \in Data

TableOK(table) ==
  /\ table \in [Keys -> Row]
  /\ \A key \in Keys : RowOK(key, table[key])

-----------------------------------------------------------------------------
(* What database.Seed leaves on an empty database: some rows of each kind, *)
(* each in one of the statuses the kind's seed function gives.             *)

SeedStatus == {s \in [SeedKeys -> AllStatuses] :
                 \A key \in SeedKeys : s[key] \in Service[KindOf[key]].seeds}

SeededTables ==
  {[key \in Keys |-> IF key \in SeedKeys
                     THEN InsertedRow(SeedCode[key], s[key], SeedData)
                     ELSE EmptyRow] : s \in SeedStatus}

-----------------------------------------------------------------------------
(* Statements.  The unique index on code spans soft-deleted rows; every    *)
(* other statement of the store sees only rows whose deleted_at is null.   *)

CodeTaken(table, kind, code) ==
  \E key \in Keys : /\ KindOf[key] = kind
                    /\ table[key].life # "absent"
                    /\ table[key].code = code

FreshKeys(table, kind) ==
  {key \in Keys : KindOf[key] = kind /\ table[key].life = "absent"}

(* Mutants: the WHERE clause without its version, or with the version that *)
(* the caller's struct was already given. *)
MatchesAnyVersion(row, expected) == row.life = "live"

MatchesIncremented(row, expected) == row.life = "live" /\ row.version = expected + 1

(* UPDATE ... WHERE id = key AND version = expected AND deleted_at IS NULL *)
Matches(row, expected) == row.life = "live" /\ row.version = expected

(* Select("*").Omit("id", "code", "created_at", "deleted_at"): every other *)
(* column comes from the caller's struct, changed by the caller or not.    *)
Overwritten(row, item) ==
  [row EXCEPT !.status = item.status, !.version = item.version, !.data = item.data]
=============================================================================
