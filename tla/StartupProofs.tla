---------------------------- MODULE StartupProofs ----------------------------
(***************************************************************************)
(* The life of the process, for any tables, seed rows, crashes and         *)
(* outages.  The argument (Seeding): the seed rows of a kind are inserted  *)
(* together and before any other row of it, and a stored row keeps its     *)
(* code; so a start that finds no live row either inserts into a kind that *)
(* was never used or is stopped by the unique index.                       *)
(***************************************************************************)
EXTENDS Startup, RowsProofs

-----------------------------------------------------------------------------
(* The tables while the process serves, and what an INSERT does.           *)

LEMMA SameStatuses ==
  ASSUME NEW kind
  PROVE  /\ Records!Service[kind].initial = Service[kind].initial
         /\ Records!Statuses(kind) = Statuses(kind)
  BY DEF Records!Service, Service, Records!Statuses, Statuses,
     Records!SolarSiteService, SolarSiteService,
     Records!SolarSiteTransitions, SolarSiteTransitions,
     Records!InverterUnitService, InverterUnitService,
     Records!InverterUnitTransitions, InverterUnitTransitions,
     Records!FaultEventService, FaultEventService,
     Records!FaultEventTransitions, FaultEventTransitions,
     Records!MitigationActionService, MitigationActionService,
     Records!MitigationActionTransitions, MitigationActionTransitions

(* A change of the records leaves every stored row stored, with its code.  *)
LEMMA RecordsKeep ==
  ASSUME rows \in [Keys -> Row], Records!Next
  PROVE  /\ rows' \in [Keys -> Row]
         /\ \A key \in Keys : rows[key].life # "absent" =>
              rows'[key].life # "absent" /\ rows'[key].code = rows[key].code
<1>1. PICK k \in Keys :
        Records!Create(k) \/ Records!Edit(k) \/ Records!Move(k) \/ Records!Remove(k)
  BY DEF Records!Next
<1>2. KindOf[k] \in EntityKinds /\ rows[k] \in Row /\ rows[k].version + 1 \in Nat
  BY KeysAssumption DEF Row
<1>3. ASSUME NEW new \in Row, rows' = [rows EXCEPT ![k] = new],
             rows[k].life # "absent" => new.life # "absent" /\ new.code = rows[k].code
      PROVE  /\ rows' \in [Keys -> Row]
             /\ \A key \in Keys : rows[key].life # "absent" =>
                  rows'[key].life # "absent" /\ rows'[key].code = rows[key].code
  BY <1>3
<1>4. CASE Records!Create(k)
  <2>1. PICK code \in Codes, data \in Data :
          rows' = [rows EXCEPT ![k] =
                     Records!InsertedRow(code, Records!Service[KindOf[k]].initial, data)]
    BY <1>4 DEF Records!Create
  <2> DEFINE new == Records!InsertedRow(code, Records!Service[KindOf[k]].initial, data)
  <2>2. new = InsertedRow(code, Service[KindOf[k]].initial, data)
    BY SameStatuses DEF Records!InsertedRow, InsertedRow
  <2>3. new \in Row
    BY <1>2, <2>2, ServiceStatuses, InsertedRowType
  <2>4. rows[k].life = "absent"
    BY <1>4 DEF Records!Create
  <2> HIDE DEF new
  <2>5. QED
    BY <1>3, <2>1, <2>3, <2>4 DEF new
<1>5. CASE Records!Edit(k)
  <2>1. PICK data \in Data : rows' = [rows EXCEPT ![k] = Records!Edited(rows[k], data)]
    BY <1>5 DEF Records!Edit
  <2>2. /\ Records!Edited(rows[k], data) \in Row
        /\ Records!Edited(rows[k], data).life = rows[k].life
        /\ Records!Edited(rows[k], data).code = rows[k].code
    BY <1>2 DEF Records!Edited, Row
  <2>3. QED
    BY <1>3, <2>1, <2>2
<1>6. CASE Records!Move(k)
  <2>1. PICK status \in Records!Statuses(KindOf[k]) :
          rows' = [rows EXCEPT ![k] = Records!Moved(rows[k], status)]
    BY <1>6 DEF Records!Move
  <2>2. status \in AllStatuses
    BY <1>2, <2>1, SameStatuses, ServiceStatuses
  <2>3. /\ Records!Moved(rows[k], status) \in Row
        /\ Records!Moved(rows[k], status).life = rows[k].life
        /\ Records!Moved(rows[k], status).code = rows[k].code
    BY <1>2, <2>2 DEF Records!Moved, Row
  <2>4. QED
    BY <1>3, <2>1, <2>3
<1>7. CASE Records!Remove(k)
  <2>1. rows' = [rows EXCEPT ![k] = [rows[k] EXCEPT !.life = "gone"]]
    BY <1>7 DEF Records!Remove
  <2>2. /\ [rows[k] EXCEPT !.life = "gone"] \in Row
        /\ [rows[k] EXCEPT !.life = "gone"].life = "gone"
        /\ [rows[k] EXCEPT !.life = "gone"].code = rows[k].code
    BY <1>2 DEF Row, Lives
  <2>3. QED
    BY <1>3, <2>1, <2>2
<1>8. QED
  BY <1>1, <1>4, <1>5, <1>6, <1>7

(* One INSERT of a kind's seed rows. *)
LEMMA InsertedRows ==
  ASSUME rows \in [Keys -> Row], NEW kind \in EntityKinds, NEW status \in SeedStatus
  PROVE  LET table == Inserted(kind, status) IN
         /\ table \in [Keys -> Row]
         /\ \A key \in SeedsOf(kind) :
              table[key].life = "live" /\ table[key].code = SeedCode[key]
         /\ \A key \in Keys : key \notin SeedsOf(kind) => table[key] = rows[key]
<1>1. SeedsOf(kind) \subseteq Keys /\ SeedsOf(kind) \subseteq SeedKeys
  BY KeysAssumption DEF SeedsOf
<1>2. ASSUME NEW key \in SeedsOf(kind)
      PROVE  InsertedRow(SeedCode[key], status[key], SeedData) \in Row
  <2>1. KindOf[key] \in EntityKinds /\ SeedCode[key] \in Codes /\ SeedData \in Data
    BY <1>1, <1>2, KeysAssumption
  <2>2. status[key] \in Service[KindOf[key]].seeds
    BY <1>1, <1>2 DEF SeedStatus
  <2>3. status[key] \in Statuses(KindOf[key])
    BY <2>1, <2>2, ServiceStatuses
  <2>4. QED
    BY <2>1, <2>3, InsertedRowType
<1>3. QED
  BY <1>1, <1>2 DEF Inserted, InsertedRow

-----------------------------------------------------------------------------
(* Each step preserves Seeding.                                            *)

LEMMA InitSeeding == Init => Seeding
<1> SUFFICES ASSUME Init PROVE Seeding
  OBVIOUS
<1>1. rows \in [Keys -> Row]
  BY EmptyRowType DEF Init
<1>2. TypeOK
  <2>1. attempt \in 0..Attempts /\ trouble \in 0..MaxTrouble /\ stage \in Stages
    BY StartupAssumption DEF Init, Stages
  <2>2. users \in BOOLEAN /\ database \in BOOLEAN /\ redis \in BOOLEAN
    BY Zenon DEF Init
  <2>3. QED
    BY <1>1, <2>1, <2>2 DEF TypeOK
<1>3. \A key \in Keys : rows[key].life = "absent"
  BY DEF Init, EmptyRow
<1>4. stage \notin DOMAIN Before
  BY DEF Init, Before
<1>5. QED
  BY <1>2, <1>3, <1>4, KeysAssumption DEF Seeding, Unused

(* Whether a kind is unused or seeded is a matter of its rows alone.       *)
LEMMA SeedingKept ==
  ASSUME Seeding, TypeOK', rows' = rows,
         stage' \in DOMAIN Before =>
           users' /\ \A kind \in Before[stage'] : Seeded(kind)
  PROVE  Seeding'
  BY DEF Seeding, Unused, Seeded

(* Where each stage leads. *)
LEMMA Stepping ==
  /\ Stages = {"down", "connect", "serving", "migrate", "users", "SolarSite",
               "InverterUnit", "FaultEvent", "MitigationAction", "redis"}
  /\ NextStage["migrate"] = "users" /\ NextStage["users"] = "SolarSite"
  /\ NextStage["redis"] = "serving"
  /\ DOMAIN Before = EntityKinds \union {"redis", "serving"}
  /\ Before["SolarSite"] = {}
  /\ Before["redis"] = EntityKinds /\ Before["serving"] = EntityKinds
  /\ \A kind \in EntityKinds :
       /\ kind \in Stages
       /\ NextStage[kind] \in Stages \cap DOMAIN Before
       /\ Before[NextStage[kind]] = Before[kind] \union {kind}
  BY DEF Stages, NextStage, Before, EntityKinds

LEMMA StartSeeding ==
  ASSUME Seeding, Start PROVE Seeding'
<1>1. TypeOK'
  BY StartupAssumption, Stepping DEF Seeding, Start, TypeOK
<1>2. stage' \notin DOMAIN Before
  BY DEF Start, Before
<1>3. QED
  BY <1>1, <1>2, SeedingKept DEF Start

LEMMA ConnectSeeding ==
  ASSUME Seeding, Connect PROVE Seeding'
<1>1. TypeOK'
  BY StartupAssumption, Stepping DEF Seeding, Connect, Exit, TypeOK
<1>2. stage' \notin DOMAIN Before
  BY DEF Connect, Exit, Before
<1>3. QED
  BY <1>1, <1>2, SeedingKept DEF Connect

LEMMA MigrateSeeding ==
  ASSUME Seeding, Migrate PROVE Seeding'
<1>1. stage' \in {"users", "down"}
  BY Stepping DEF Migrate, Advance, Exit
<1>2. TypeOK'
  BY <1>1, StartupAssumption, Stepping DEF Seeding, Migrate, Advance, Exit, TypeOK
<1>3. stage' \notin DOMAIN Before
  BY <1>1 DEF Before
<1>4. QED
  BY <1>2, <1>3, SeedingKept DEF Migrate

LEMMA SeedUsersSeeding ==
  ASSUME Seeding, SeedUsers PROVE Seeding'
<1>1. (stage' = "SolarSite" /\ users' = TRUE) \/ stage' = "down"
  BY Stepping DEF SeedUsers, Advance, Exit
<1>2. TypeOK'
  <2>1. attempt' \in 0..Attempts /\ stage' \in Stages
    BY <1>1, StartupAssumption, Stepping DEF Seeding, SeedUsers, Advance, Exit, TypeOK
  <2>2. users' \in BOOLEAN
    BY Zenon DEF Seeding, SeedUsers, TypeOK
  <2>3. QED
    BY <2>1, <2>2 DEF Seeding, SeedUsers, TypeOK
<1>3. stage' \in DOMAIN Before => users' /\ Before[stage'] = {}
  BY <1>1 DEF Before
<1>4. QED
  BY <1>2, <1>3, SeedingKept DEF SeedUsers

LEMMA ConnectRedisSeeding ==
  ASSUME Seeding, ConnectRedis PROVE Seeding'
<1>1. stage = "redis" /\ (stage' = "serving" \/ stage' = "down") /\ users' = users
      /\ rows' = rows
  BY Stepping DEF ConnectRedis, Advance, Exit
<1>2. TypeOK'
  BY <1>1, StartupAssumption, Stepping DEF Seeding, ConnectRedis, Advance, Exit, TypeOK
<1>3. users /\ \A kind \in EntityKinds : Seeded(kind)
  BY <1>1, Stepping DEF Seeding
<1>4. stage' \in DOMAIN Before =>
        users' /\ \A kind \in Before[stage'] : Seeded(kind)
  BY <1>1, <1>3, Stepping DEF Before
<1>5. rows' = rows
  BY <1>1
<1>6. QED
  BY <1>2, <1>4, <1>5, SeedingKept

(* A kind's seed function: it inserts only where no row ever was. *)
LEMMA SeedKindSeeding ==
  ASSUME Seeding, NEW kind \in EntityKinds, SeedKind(kind)
  PROVE  /\ Seeding'
         /\ \A key \in Keys : rows[key].life # "absent" => rows'[key] = rows[key]
<1>1. /\ stage = kind /\ users /\ users' = users /\ attempt \in 0..Attempts
      /\ \A k \in Before[kind] : Seeded(k)
      /\ rows \in [Keys -> Row]
      /\ database' = database /\ redis' = redis /\ trouble' = trouble
  BY Stepping DEF Seeding, SeedKind, TypeOK
<1>2. CASE Exit /\ rows' = rows
  <2>1. TypeOK'
    BY <1>1, <1>2, StartupAssumption, Stepping DEF Seeding, TypeOK, Exit
  <2>2. stage' \notin DOMAIN Before
    BY <1>2 DEF Exit, Before
  <2>3. QED
    BY <1>2, <2>1, <2>2, SeedingKept
<1>3. CASE Advance /\ rows' = rows /\ Populated(kind)
  <2>1. stage' = NextStage[kind] /\ attempt' = attempt
    BY <1>1, <1>3 DEF Advance
  <2>2. TypeOK'
    BY <1>1, <1>3, <2>1, Stepping DEF Seeding, TypeOK
  <2>3. Seeded(kind)
    BY <1>3 DEF Seeding, Populated, Unused
  <2>4. QED
    BY <1>1, <1>3, <2>1, <2>2, <2>3, SeedingKept, Stepping
<1>4. CASE /\ Advance
           /\ \A key \in SeedsOf(kind) : ~CodeTaken(rows, kind, SeedCode[key])
           /\ \E status \in SeedStatus : rows' = Inserted(kind, status)
  <2>1. stage' = NextStage[kind] /\ attempt' = attempt
    BY <1>1, <1>4 DEF Advance
  <2>2. /\ rows' \in [Keys -> Row]
        /\ \A key \in SeedsOf(kind) :
             rows'[key].life = "live" /\ rows'[key].code = SeedCode[key]
        /\ \A key \in Keys : key \notin SeedsOf(kind) => rows'[key] = rows[key]
    BY <1>1, <1>4, InsertedRows
  <2>3. \A key \in SeedsOf(kind) :
          /\ key \in Keys /\ key \in SeedKeys /\ KindOf[key] = kind
          /\ rows[key].life = "absent"
    BY <1>4, KeysAssumption DEF SeedsOf, CodeTaken, Seeding
  <2>4. \A key \in Keys : rows[key].life # "absent" => rows'[key] = rows[key]
    BY <2>2, <2>3
  <2>5. TypeOK'
    BY <1>1, <2>1, <2>2, Stepping DEF Seeding, TypeOK
  <2>6. \A key \in SeedKeys : rows'[key].life # "absent" => rows'[key].code = SeedCode[key]
    BY <2>2, KeysAssumption DEF Seeding
  <2>7. \A k \in EntityKinds : k # kind => Unused(k)' = Unused(k) /\ Seeded(k)' = Seeded(k)
    BY <2>2, <2>3, KeysAssumption DEF Unused, Seeded, SeedsOf
  <2>8. Seeded(kind)'
    BY <2>2 DEF Seeded, SeedsOf
  <2>9. \A k \in Before[kind] : k \in EntityKinds
    BY DEF Before, EntityKinds
  <2>10. stage' \in DOMAIN Before /\ Before[stage'] = Before[kind] \union {kind}
    BY <2>1, Stepping
  <2>11. \A k \in Before[stage'] : Seeded(k)'
    BY <1>1, <2>7, <2>8, <2>9, <2>10
  <2>12. \A k \in EntityKinds : Unused(k)' \/ Seeded(k)'
    BY <2>7, <2>8 DEF Seeding
  <2>13. Seeding'
    BY <1>1, <2>5, <2>6, <2>11, <2>12 DEF Seeding
  <2>14. QED
    BY <2>4, <2>13
<1>5. QED
  BY <1>2, <1>3, <1>4 DEF SeedKind

LEMMA ServeSeeding ==
  ASSUME Seeding, Serve PROVE Seeding'
<1>1. /\ stage = "serving" /\ users /\ users' = users /\ stage' = stage
      /\ attempt' = attempt /\ database' = database /\ redis' = redis
      /\ trouble' = trouble /\ rows \in [Keys -> Row] /\ Records!Next
      /\ \A kind \in EntityKinds : Seeded(kind)
  BY Stepping DEF Seeding, Serve, TypeOK
<1>2. /\ rows' \in [Keys -> Row]
      /\ \A key \in Keys : rows[key].life # "absent" =>
           rows'[key].life # "absent" /\ rows'[key].code = rows[key].code
  BY <1>1, RecordsKeep
<1>3. TypeOK'
  BY <1>1, <1>2 DEF Seeding, TypeOK
<1>4. \A key \in SeedKeys : rows[key].life # "absent"
  BY <1>1, KeysAssumption DEF Seeded, SeedsOf
<1>5. \A key \in SeedKeys : rows'[key].life # "absent" /\ rows'[key].code = SeedCode[key]
  BY <1>2, <1>4, KeysAssumption DEF Seeding
<1>6. \A kind \in EntityKinds : Seeded(kind)'
  BY <1>5 DEF Seeded, SeedsOf
<1>7. Before[stage'] = EntityKinds
  BY <1>1, Stepping
<1>8. QED
  BY <1>1, <1>3, <1>5, <1>6, <1>7 DEF Seeding

(* Crashes and outages. *)
LEMMA TroubleSeeding ==
  ASSUME Seeding, Crash \/ Outage \/ DatabaseBack \/ RedisBack \/ UNCHANGED vars
  PROVE  Seeding'
<1>1. CASE Crash
  <2>1. TypeOK'
    BY <1>1, StartupAssumption, Stepping DEF Seeding, Crash, Exit, TypeOK
  <2>2. stage' \notin DOMAIN Before
    BY <1>1 DEF Crash, Exit, Before
  <2>3. QED
    BY <1>1, <2>1, <2>2, SeedingKept DEF Crash
<1>2. CASE Outage \/ DatabaseBack \/ RedisBack \/ UNCHANGED vars
  <2>1. rows' = rows /\ stage' = stage /\ users' = users
    BY <1>2 DEF Outage, DatabaseBack, RedisBack, vars
  <2>2. TypeOK'
    <3>1. attempt' = attempt /\ trouble' \in 0..MaxTrouble
      BY <1>2, StartupAssumption DEF Seeding, Outage, DatabaseBack, RedisBack, vars, TypeOK
    <3>2. database' \in BOOLEAN /\ redis' \in BOOLEAN
      BY <1>2, Zenon DEF Seeding, Outage, DatabaseBack, RedisBack, vars, TypeOK
    <3>3. QED
      BY <2>1, <3>1, <3>2 DEF Seeding, TypeOK
  <2>3. QED
    BY <2>1, <2>2, SeedingKept DEF Seeding
<1>3. QED
  BY <1>1, <1>2

LEMMA NextSeeding == Seeding /\ [Next]_vars => Seeding'
<1> SUFFICES ASSUME Seeding, [Next]_vars PROVE Seeding'
  OBVIOUS
<1>1. CASE Open
  BY <1>1, ConnectSeeding, MigrateSeeding, SeedUsersSeeding, ConnectRedisSeeding,
     SeedKindSeeding DEF Open
<1>2. CASE Idle
  BY <1>2, TroubleSeeding DEF Idle
<1>3. QED
  BY <1>1, <1>2, StartSeeding, ServeSeeding, TroubleSeeding DEF Next

LEMMA AlwaysSeeding == Spec => []Seeding
  BY InitSeeding, NextSeeding, PTL DEF Spec

-----------------------------------------------------------------------------

(* Type correctness of the process and its tables. *)
THEOREM TypeCorrect == Spec => []TypeOK
<1>1. Seeding => TypeOK
  BY DEF Seeding
<1>2. QED
  BY <1>1, AlwaysSeeding, PTL

(* A serving process has the accounts and all seed records, wherever
   earlier runs of database.Seed were cut off. *)
THEOREM AlwaysServesSeeded == Spec => []ServesSeeded
<1>1. Seeding => ServesSeeded
  <2> SUFFICES ASSUME Seeding, stage = "serving"
               PROVE  users /\ \A key \in SeedKeys : rows[key].life # "absent"
    BY DEF ServesSeeded
  <2>1. users /\ \A kind \in EntityKinds : Seeded(kind)
    BY Stepping DEF Seeding
  <2>2. QED
    BY <2>1, KeysAssumption DEF Seeded, SeedsOf
<1>2. QED
  BY <1>1, AlwaysSeeding, PTL

(* No kind is ever half seeded. *)
THEOREM AlwaysSeededTogether == Spec => []SeededTogether
<1>1. Seeding => SeededTogether
  BY KeysAssumption DEF Seeding, SeededTogether, Unused, Seeded, SeedsOf
<1>2. QED
  BY <1>1, AlwaysSeeding, PTL

(* No start changes or revives a record that was ever stored: database.Seed
   counts the live rows, and where all were removed the unique index stops
   its INSERT. *)
THEOREM AlwaysStartsPreserveRecords == Spec => StartsPreserveRecords
<1>1. Seeding /\ [Next]_vars =>
        [stage # "serving" =>
           \A key \in Keys : rows[key].life # "absent" => rows'[key] = rows[key]]_vars
  <2> SUFFICES ASSUME Seeding, Next, stage # "serving"
               PROVE  \A key \in Keys : rows[key].life # "absent" => rows'[key] = rows[key]
    OBVIOUS
  <2>1. CASE \E kind \in EntityKinds : SeedKind(kind)
    BY <2>1, SeedKindSeeding
  <2>2. CASE rows' = rows
    BY <2>2
  <2>3. CASE Connect \/ Migrate \/ SeedUsers \/ ConnectRedis
    BY <2>2, <2>3 DEF Connect, Migrate, SeedUsers, ConnectRedis
  <2>4. CASE Start \/ Idle \/ Crash \/ Outage \/ DatabaseBack \/ RedisBack
    BY <2>2, <2>4 DEF Start, Idle, vars, Crash, Outage, DatabaseBack, RedisBack
  <2>5. QED
    BY <2>1, <2>3, <2>4 DEF Next, Open, Serve
<1>2. QED
  BY <1>1, AlwaysSeeding, PTL DEF Spec, StartsPreserveRecords
=============================================================================
