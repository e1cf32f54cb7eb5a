------------------------------- MODULE Startup -------------------------------
(***************************************************************************)
(* The life of the backend process (cmd/server/main.go) and the state it   *)
(* finds or leaves in the database: connecting, migrating, seeding         *)
(* (database/database.go), serving, dying and being started again by       *)
(* docker-compose.yml's "restart: unless-stopped".  While it serves, the   *)
(* tables change as VersionedRecords allows.                               *)
(*                                                                         *)
(*   down -> connect -> migrate -> users -> SolarSite -> InverterUnit ->   *)
(*   FaultEvent -> MitigationAction -> redis -> serving                    *)
(***************************************************************************)
EXTENDS Rows, FiniteSets

CONSTANTS
  Attempts,   \* tries to reach the database (20)
  MaxVersion, \* bound: no row gets a later version
  MaxTrouble  \* bound: crashes and outages

ASSUME StartupAssumption ==
  /\ Attempts \in Nat \ {0}
  /\ MaxVersion \in Nat
  /\ MaxTrouble \in Nat

VARIABLES
  rows,     \* the tables of the four kinds
  users,    \* whether the demonstration accounts exist
  stage,    \* how far the process has come
  attempt,  \* of the connection loop
  database, \* whether the database answers
  redis,    \* whether Redis answers
  trouble   \* crashes and outages so far

vars == <<rows, users, stage, attempt, database, redis, trouble>>

NextStage == [migrate |-> "users", users |-> "SolarSite",
              SolarSite |-> "InverterUnit", InverterUnit |-> "FaultEvent",
              FaultEvent |-> "MitigationAction", MitigationAction |-> "redis",
              redis |-> "serving"]
Stages == {"down", "connect", "serving"} \union DOMAIN NextStage

Records == INSTANCE VersionedRecords WITH rows <- rows

Init ==
  /\ rows = [key \in Keys |-> EmptyRow]
  /\ users = FALSE
  /\ stage = "down" /\ attempt = 0
  /\ database \in BOOLEAN /\ redis \in BOOLEAN
  /\ trouble = 0

-----------------------------------------------------------------------------
(* Open: every error ends the process.                                     *)

Exit == stage' = "down" /\ attempt' = 0

Advance == stage' = NextStage[stage] /\ UNCHANGED attempt

Start ==
  /\ stage = "down"
  /\ stage' = "connect" /\ attempt' = 1
  /\ UNCHANGED <<rows, users, database, redis, trouble>>

(* Mutant: one try too many. *)
ConnectOnceMore ==
  /\ stage = "connect"
  /\ \/ database /\ stage' = "migrate" /\ UNCHANGED attempt
     \/ ~database /\ attempt <= Attempts /\ attempt' = attempt + 1 /\ UNCHANGED stage
     \/ ~database /\ Exit
  /\ UNCHANGED <<rows, users, database, redis, trouble>>

(* One round of the connection loop; it also ends at the startup deadline. *)
Connect ==
  /\ stage = "connect"
  /\ \/ database /\ stage' = "migrate" /\ UNCHANGED attempt
     \/ ~database /\ attempt < Attempts /\ attempt' = attempt + 1 /\ UNCHANGED stage
     \/ ~database /\ Exit
  /\ UNCHANGED <<rows, users, database, redis, trouble>>

(* AutoMigrate changes no row. *)
Migrate ==
  /\ stage = "migrate"
  /\ IF database THEN Advance ELSE Exit
  /\ UNCHANGED <<rows, users, database, redis, trouble>>

SeedUsers ==
  /\ stage = "users"
  /\ \/ database /\ users' = TRUE /\ Advance
     \/ ~database /\ Exit /\ UNCHANGED users
  /\ UNCHANGED <<rows, database, redis, trouble>>

(* Count sees live rows only. *)
Populated(kind) == \E key \in Keys : KindOf[key] = kind /\ rows[key].life = "live"

SeedsOf(kind) == {key \in SeedKeys : KindOf[key] = kind}

(* Mutant: one INSERT per row, of which some fail. *)
InsertedSome(kind, status) ==
  LET stored == CHOOSE some \in SUBSET SeedsOf(kind) :
                  some # SeedsOf(kind) \/ SeedsOf(kind) = {} IN
  [key \in Keys |-> IF key \in stored
                    THEN InsertedRow(SeedCode[key], status[key], SeedData)
                    ELSE rows[key]]

(* The seed rows of one kind go in by one INSERT, or none of them. *)
Inserted(kind, status) ==
  [key \in Keys |-> IF key \in SeedsOf(kind)
                    THEN InsertedRow(SeedCode[key], status[key], SeedData)
                    ELSE rows[key]]

(* Mutants: seeding by upsert, which brings removed rows back; seeding     *)
(* without counting; a failed INSERT that is not reported. *)
SeedKindUpserting(kind) ==
  /\ stage = kind
  /\ \/ ~database /\ Exit /\ UNCHANGED rows
     \/ database /\ Populated(kind) /\ Advance /\ UNCHANGED rows
     \/ /\ database /\ ~Populated(kind)
        /\ \E status \in SeedStatus : rows' = Inserted(kind, status)
        /\ Advance
  /\ UNCHANGED <<users, database, redis, trouble>>

SeedKindAlways(kind) ==
  /\ stage = kind
  /\ \/ ~database /\ Exit /\ UNCHANGED rows
     \/ /\ database
        /\ IF \E key \in SeedsOf(kind) : CodeTaken(rows, kind, SeedCode[key])
           THEN Exit /\ UNCHANGED rows
           ELSE Advance /\ \E status \in SeedStatus : rows' = Inserted(kind, status)
  /\ UNCHANGED <<users, database, redis, trouble>>

SeedKindUnreported(kind) ==
  /\ stage = kind /\ Advance
  /\ \/ (~database \/ Populated(kind)) /\ UNCHANGED rows
     \/ /\ database /\ ~Populated(kind)
        /\ IF \E key \in SeedsOf(kind) : CodeTaken(rows, kind, SeedCode[key])
           THEN UNCHANGED rows
           ELSE \E status \in SeedStatus : rows' = Inserted(kind, status)
  /\ UNCHANGED <<users, database, redis, trouble>>

(* seedSolarSite and its three siblings: the codes of removed rows are     *)
(* still in the unique index, and a violation is an error like any other. *)
SeedKind(kind) ==
  /\ stage = kind
  /\ \/ ~database /\ Exit /\ UNCHANGED rows
     \/ database /\ Populated(kind) /\ Advance /\ UNCHANGED rows
     \/ /\ database /\ ~Populated(kind)
        /\ IF \E key \in SeedsOf(kind) : CodeTaken(rows, kind, SeedCode[key])
           THEN Exit /\ UNCHANGED rows
           ELSE Advance /\ \E status \in SeedStatus : rows' = Inserted(kind, status)
  /\ UNCHANGED <<users, database, redis, trouble>>

ConnectRedis ==
  /\ stage = "redis"
  /\ IF redis THEN Advance ELSE Exit
  /\ UNCHANGED <<rows, users, database, redis, trouble>>

Open == \/ Connect \/ Migrate \/ SeedUsers \/ ConnectRedis
        \/ \E kind \in EntityKinds : SeedKind(kind)

-----------------------------------------------------------------------------
(* Serving, and what may happen to the process and its dependencies.       *)

Serve ==
  /\ stage = "serving" /\ database
  /\ Records!Next
  /\ \A key \in Keys : rows'[key].version <= MaxVersion
  /\ UNCHANGED <<users, stage, attempt, database, redis, trouble>>

(* Nobody calls. *)
Idle == stage = "serving" /\ UNCHANGED vars

Crash ==
  /\ stage # "down" /\ trouble < MaxTrouble
  /\ trouble' = trouble + 1
  /\ Exit
  /\ UNCHANGED <<rows, users, database, redis>>

Outage ==
  /\ trouble < MaxTrouble
  /\ trouble' = trouble + 1
  /\ \/ database /\ database' = FALSE /\ UNCHANGED redis
     \/ redis /\ redis' = FALSE /\ UNCHANGED database
  /\ UNCHANGED <<rows, users, stage, attempt>>

DatabaseBack ==
  /\ ~database /\ database' = TRUE
  /\ UNCHANGED <<rows, users, stage, attempt, redis, trouble>>

RedisBack ==
  /\ ~redis /\ redis' = TRUE
  /\ UNCHANGED <<rows, users, stage, attempt, database, trouble>>

Next ==
  \/ Start \/ Open \/ Serve \/ Idle
  \/ Crash \/ Outage \/ DatabaseBack \/ RedisBack

Spec == Init /\ [][Next]_vars

(* Docker starts the process again, a running one goes on, and an outage   *)
(* ends. *)
FairSpec ==
  Spec /\ WF_vars(Start) /\ WF_vars(Open) /\ WF_vars(DatabaseBack) /\ WF_vars(RedisBack)

-----------------------------------------------------------------------------
(* Properties.                                                             *)

TypeOK ==
  /\ rows \in [Keys -> Row]
  /\ users \in BOOLEAN
  /\ stage \in Stages
  /\ attempt \in 0..Attempts
  /\ database \in BOOLEAN /\ redis \in BOOLEAN
  /\ trouble \in 0..MaxTrouble

(* A process that serves finds the accounts and every demonstration record
   inserted at some time, wherever earlier starts were interrupted: the
   seeding functions commit one after the other. *)
ServesSeeded ==
  stage = "serving" => users /\ \A key \in SeedKeys : rows[key].life # "absent"

(* Starting never changes or revives a record that was ever stored: what
   users edited and removed stays so across restarts. *)
StartsPreserveRecords ==
  [][stage # "serving" =>
       \A key \in Keys : rows[key].life # "absent" => rows'[key] = rows[key]]_vars

(* The seed rows of one kind appear together: an interrupted start leaves
   no kind half seeded, so counting the rows is enough to know. *)
SeededTogether ==
  \A k1, k2 \in SeedKeys :
    KindOf[k1] = KindOf[k2] => (rows[k1].life = "absent" <=> rows[k2].life = "absent")

(* The tables a start can get past: a record of the kind is left, or none
   was ever stored. *)
Startable ==
  \A kind \in EntityKinds :
    \/ Populated(kind)
    \/ \A key \in Keys : KindOf[key] = kind => rows[key].life = "absent"

(* A process that went down comes back, after whatever crashes and outages,
   if each table has a record left. *)
ServesAgainIfStartable == (stage = "down" /\ Startable) ~> (stage = "serving")

(* The same with no condition on the tables: "restart: unless-stopped"
   (docker-compose.yml:43) is there to bring the backend back. *)
ServesAgain == (stage = "down") ~> (stage = "serving")
-----------------------------------------------------------------------------
(* The inductive invariant of the proofs.                                  *)

Unused(kind) == \A key \in Keys : KindOf[key] = kind => rows[key].life = "absent"
Seeded(kind) == \A key \in SeedsOf(kind) : rows[key].life # "absent"

(* The kinds that are seeded before the process comes to a stage. *)
Before ==
  [SolarSite        |-> {},
   InverterUnit     |-> {"SolarSite"},
   FaultEvent       |-> {"SolarSite", "InverterUnit"},
   MitigationAction |-> {"SolarSite", "InverterUnit", "FaultEvent"},
   redis            |-> EntityKinds,
   serving          |-> EntityKinds]

(* A seed row keeps the code it was inserted with, so that the unique      *)
(* index knows a removed one; only a kind that was seeded has other rows.  *)
Seeding ==
  /\ TypeOK
  /\ \A key \in SeedKeys : rows[key].life # "absent" => rows[key].code = SeedCode[key]
  /\ \A kind \in EntityKinds : Unused(kind) \/ Seeded(kind)
  /\ stage \in DOMAIN Before => users /\ \A kind \in Before[stage] : Seeded(kind)
=============================================================================
