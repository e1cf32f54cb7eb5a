--------------------------- MODULE WorkbenchProofs ---------------------------
(***************************************************************************)
(* The record pages, for any number of requests, rows and page openings.   *)
(* The argument (Working): rows only move forward (Advances), so whatever  *)
(* a list showed and a dialog took from it is a row as it once was         *)
(* (FromServer, Sound); a request that was made has moved its row on       *)
(* (Succeeded), which every later list answer shows (ReloadOK), and the    *)
(* same version is never moved twice (MovesOK).                            *)
(***************************************************************************)
EXTENDS Workbench, RowsProofs, FiniteSetTheorems, TLAPS

-----------------------------------------------------------------------------
(* The records as VersionedRecords changes them.                           *)

(* The services' tables are the same seen from VersionedRecords.           *)
LEMMA SameGraphs ==
  ASSUME NEW kind
  PROVE  /\ Records!Service[kind].initial = Service[kind].initial
         /\ Records!Statuses(kind) = Statuses(kind)
  BY DEF Records!Service, Service, Records!Statuses, Statuses,
     Records!SolarSiteService, SolarSiteService,
     Records!SolarSiteTransitions, SolarSiteTransitions,
     Records!InverterUnitService, InverterUnitService,
     Records!InverterUnitTransitions, InverterUnitTransitions,
     Records!FaultEventService, FaultEventService,
     Records!FaultEventTransitions, FaultEventTransitions,
     Records!MitigationActionService, MitigationActionService,
     Records!MitigationActionTransitions, MitigationActionTransitions

(* What no step takes back: a row stays stored, a version keeps its status *)
(* and is followed by later ones only, and a removed row stays removed.    *)
Follows(new, row) ==
  /\ row.life # "absent" =>
       /\ new.life # "absent" /\ row.version <= new.version
       /\ new.version = row.version => new.status = row.status
  /\ row.life = "gone" => new.life = "gone"
  /\ new.life = "absent" => new = row

Advances ==
  /\ rows' \in [Keys -> Row]
  /\ \A key \in Keys : Follows(rows'[key], rows[key])

LEMMA OneRowAdvances ==
  ASSUME rows \in [Keys -> Row], NEW key \in Keys, NEW new \in Row,
         Follows(new, rows[key]), rows' = [rows EXCEPT ![key] = new]
  PROVE  Advances
<1>1. \A k \in Keys : rows[k].version \in Nat
  BY DEF Row
<1>2. QED
  BY <1>1 DEF Advances, Follows

LEMMA SameRowsAdvance ==
  ASSUME rows \in [Keys -> Row], rows' = rows
  PROVE  Advances
<1>1. \A k \in Keys : rows[k].version \in Nat
  BY DEF Row
<1>2. QED
  BY <1>1 DEF Advances, Follows

(* A new version of a stored row, or a row inserted where there was none.  *)
LEMMA MovedRow ==
  ASSUME NEW row \in Row, row.life = "live", NEW status \in AllStatuses
  PROVE  LET new == Records!Moved(row, status) IN
         /\ new \in Row /\ new.version = row.version + 1 /\ new.life = "live"
         /\ Follows(new, row)
<1>1. row.version \in Nat /\ row.version + 1 \in Nat
  BY DEF Row
<1>2. Records!Moved(row, status) \in Row
      /\ Records!Moved(row, status).life = row.life
  BY <1>1 DEF Records!Moved, Row
<1>3. Records!Moved(row, status).version = row.version + 1
  BY DEF Records!Moved, Row
<1>4. QED
  BY <1>1, <1>2, <1>3 DEF Follows

LEMMA InsertedFollows ==
  ASSUME NEW row, row.life = "absent", NEW code, NEW status, NEW data
  PROVE  LET new == InsertedRow(code, status, data) IN
         /\ Follows(new, row) /\ new.life = "live" /\ new.version = 1
  BY DEF InsertedRow, Follows

LEMMA OthersAdvance ==
  ASSUME rows \in [Keys -> Row], Records!Next
  PROVE  Advances
<1>1. PICK k \in Keys :
        Records!Create(k) \/ Records!Edit(k) \/ Records!Move(k) \/ Records!Remove(k)
  BY DEF Records!Next
<1>2. /\ KindOf[k] \in EntityKinds /\ rows[k] \in Row
      /\ rows[k].version \in Nat /\ rows[k].version + 1 \in Nat
  BY KeysAssumption DEF Row
<1>3. CASE Records!Create(k)
  <2>1. PICK code \in Codes, data \in Data :
          /\ rows[k].life = "absent"
          /\ rows' = [rows EXCEPT ![k] =
                        Records!InsertedRow(code, Records!Service[KindOf[k]].initial, data)]
    BY <1>3 DEF Records!Create
  <2> DEFINE new == Records!InsertedRow(code, Records!Service[KindOf[k]].initial, data)
  <2>2. new = InsertedRow(code, Service[KindOf[k]].initial, data)
    BY SameGraphs DEF Records!InsertedRow, InsertedRow
  <2>3. new \in Row /\ Follows(new, rows[k])
    BY <1>2, <2>1, <2>2, ServiceStatuses, InsertedRowType, InsertedFollows
  <2>4. rows' = [rows EXCEPT ![k] = new]
    BY <2>1
  <2> HIDE DEF new
  <2>5. QED
    BY <2>3, <2>4, OneRowAdvances
<1>4. CASE Records!Edit(k)
  <2>1. PICK data \in Data :
          rows[k].life = "live" /\ rows' = [rows EXCEPT ![k] = Records!Edited(rows[k], data)]
    BY <1>4 DEF Records!Edit
  <2>2. Records!Edited(rows[k], data) \in Row
        /\ Records!Edited(rows[k], data).life = rows[k].life
    BY <1>2 DEF Records!Edited, Row
  <2>3. Records!Edited(rows[k], data).version = rows[k].version + 1
    BY <1>2 DEF Records!Edited, Row
  <2>4. Follows(Records!Edited(rows[k], data), rows[k])
    BY <1>2, <2>1, <2>2, <2>3 DEF Follows
  <2>5. QED
    BY <2>1, <2>2, <2>4, OneRowAdvances
<1>5. CASE Records!Move(k)
  <2>1. PICK status \in Records!Statuses(KindOf[k]) :
          rows[k].life = "live" /\ rows' = [rows EXCEPT ![k] = Records!Moved(rows[k], status)]
    BY <1>5 DEF Records!Move
  <2>2. status \in AllStatuses
    BY <1>2, <2>1, SameGraphs, ServiceStatuses
  <2>3. Records!Moved(rows[k], status) \in Row
        /\ Follows(Records!Moved(rows[k], status), rows[k])
    BY <1>2, <2>1, <2>2, MovedRow
  <2>4. QED
    BY <2>1, <2>3, OneRowAdvances
<1>6. CASE Records!Remove(k)
  <2>1. rows[k].life = "live" /\ rows' = [rows EXCEPT ![k] = [rows[k] EXCEPT !.life = "gone"]]
    BY <1>6 DEF Records!Remove
  <2>2. /\ [rows[k] EXCEPT !.life = "gone"] \in Row
        /\ [rows[k] EXCEPT !.life = "gone"].life = "gone"
        /\ [rows[k] EXCEPT !.life = "gone"].version = rows[k].version
        /\ [rows[k] EXCEPT !.life = "gone"].status = rows[k].status
    BY <1>2 DEF Row, Lives
  <2>3. Follows([rows[k] EXCEPT !.life = "gone"], rows[k])
    BY <1>2, <2>1, <2>2 DEF Follows
  <2>4. QED
    BY <2>1, <2>2, <2>3, OneRowAdvances
<1>7. QED
  BY <1>1, <1>3, <1>4, <1>5, <1>6

LEMMA WasKept ==
  ASSUME NEW row \in Row, NEW new \in Row, Follows(new, row),
         NEW version \in Nat, NEW status, Was(row, version, status)
  PROVE  Was(new, version, status)
<1>1. row.version \in Nat /\ new.version \in Nat
  BY DEF Row
<1>2. QED
  BY <1>1 DEF Follows, Was

-----------------------------------------------------------------------------
(* What a page offers.                                                     *)

(* The status that follows in a kind's list is one the service accepts.    *)
LEMMA OfferedAreEdges ==
  ASSUME NEW kind \in EntityKinds, NEW status, NEW target \in Offered(kind, status)
  PROVE  Edge(kind, status, target)
<1> DEFINE all == StatusList[kind]
<1>1. PICK n \in 1..(Len(all) - 1) : status = all[n] /\ target = all[n + 1]
  BY DEF Offered
<1> USE DEF Edge, CanTransition, Service
<1>2. CASE kind = "SolarSite"
  <2>1. all = <<"online", "limited", "offline", "maintenance">>
    BY <1>2 DEF StatusList
  <2>2. n \in {1, 2, 3}
    BY <1>1, <2>1
  <2>3. QED
    BY <1>1, <1>2, <2>1, <2>2 DEF SolarSiteService, SolarSiteTransitions
<1>3. CASE kind = "InverterUnit"
  <2>1. all = <<"online", "warning", "tripped", "isolated">>
    BY <1>3 DEF StatusList
  <2>2. n \in {1, 2, 3}
    BY <1>1, <2>1
  <2>3. QED
    BY <1>1, <1>3, <2>1, <2>2 DEF InverterUnitService, InverterUnitTransitions
<1>4. CASE kind = "FaultEvent"
  <2>1. all = <<"open", "acknowledged", "mitigated", "closed">>
    BY <1>4 DEF StatusList
  <2>2. n \in {1, 2, 3}
    BY <1>1, <2>1
  <2>3. QED
    BY <1>1, <1>4, <2>1, <2>2 DEF FaultEventService, FaultEventTransitions
<1>5. CASE kind = "MitigationAction"
  <2>1. all = <<"draft", "confirmed", "executing", "completed", "failed">>
    BY <1>5 DEF StatusList
  <2>2. n \in {1, 2, 3, 4}
    BY <1>1, <2>1
  <2>3. QED
    BY <1>1, <1>5, <2>1, <2>2 DEF MitigationActionService, MitigationActionTransitions
<1>6. QED
  BY <1>2, <1>3, <1>4, <1>5 DEF EntityKinds

-----------------------------------------------------------------------------
(* The shapes of requests.                                                 *)

LEMMA PostShapes ==
  /\ NoPost.at = "unused"
  /\ \A post \in Post \union {NoPost} :
       /\ post.at \in PostStages \union {"unused"}
       /\ post.at # "unused" => post \in Post
  /\ \A post \in Post : /\ post.at \in PostStages /\ post.mount \in Nat
                        /\ post.reviewed \in Move \union {None}
                        /\ post.move \in Move \union {None}
BY DEF Post, NoPost, PostStages

LEMMA MoveShape ==
  ASSUME NEW move \in Move
  PROVE  /\ move.key \in Keys /\ move.version \in Nat
         /\ move.seen \in AllStatuses \union {NoStatus} /\ move.target \in AllStatuses
BY DEF Move

(* An answer changes where a request is. *)
LEMMA PostAt ==
  ASSUME NEW post \in Post, NEW at \in PostStages
  PROVE  /\ [post EXCEPT !.at = at] \in Post
         /\ [post EXCEPT !.at = at].at = at
         /\ [post EXCEPT !.at = at].move = post.move
BY DEF Post

LEMMA LoadShapes ==
  /\ NoLoad.at = "unused" /\ OldLoad.at = "done"
  /\ \A load \in Load \union {NoLoad, OldLoad} :
       /\ load.at \in {"sent", "answered"} => load.owner \in Posts \union {None}
       /\ load.at = "answered" => load.table \in [Keys -> Row]
BY DEF Load, NoLoad, OldLoad

LEMMA NewLoads ==
  /\ NoLoad \in Load \union {NoLoad, OldLoad} /\ OldLoad \in Load \union {NoLoad, OldLoad}
  /\ \A owner \in Posts \union {None} :
       /\ [at |-> "sent", owner |-> owner] \in Load
       /\ [at |-> "sent", owner |-> owner].at = "sent"
       /\ [at |-> "sent", owner |-> owner].owner = owner
       /\ \A table \in [Keys -> Row] :
            /\ [at |-> "answered", owner |-> owner, table |-> table] \in Load
            /\ [at |-> "answered", owner |-> owner, table |-> table].at = "answered"
            /\ [at |-> "answered", owner |-> owner, table |-> table].owner = owner
            /\ [at |-> "answered", owner |-> owner, table |-> table].table = table
BY DEF Load

-----------------------------------------------------------------------------
(* What every step keeps of Working, as the rows advance.                  *)

(* What the invariant says of the types. *)
LEMMA WorkingTypes ==
  ASSUME Working
  PROVE  /\ rows \in [Keys -> Row] /\ list \in [Keys -> Row] /\ page \in EntityKinds
         /\ mount \in 0..MaxMounts /\ error \in BOOLEAN
         /\ creating \in BOOLEAN /\ drawer \in BOOLEAN
         /\ pending \in Move \union {None} /\ checked \in Move \union {None}
         /\ posts \in [Posts -> Post \union {NoPost}]
         /\ loads \in [Loads -> Load \union {NoLoad, OldLoad}]
         /\ \A key \in Keys : rows[key] \in Row /\ rows[key].version \in Nat
         /\ \A m \in moves : /\ m.post \in Posts /\ m.base \in Nat
                             /\ m.from \in AllStatuses \union {NoStatus}
<1>1. TypeOK
  BY DEF Working
<1>2. \A key \in Keys : rows[key] \in Row /\ rows[key].version \in Nat
  BY <1>1 DEF TypeOK, Row
<1>3. QED
  BY <1>1, <1>2 DEF TypeOK

LEMMA FromServerKept ==
  ASSUME Working, Advances, page' = page, NEW table \in [Keys -> Row], FromServer(table)
  PROVE  \A key \in Keys : table[key].life = "live" =>
           KindOf[key] = page' /\ Was(rows'[key], table[key].version, table[key].status)
<1> SUFFICES ASSUME NEW key \in Keys, table[key].life = "live"
             PROVE  /\ KindOf[key] = page
                    /\ Was(rows'[key], table[key].version, table[key].status)
  OBVIOUS
<1>1. /\ KindOf[key] = page /\ Was(rows[key], table[key].version, table[key].status)
  BY DEF FromServer
<1>2. /\ rows[key] \in Row /\ rows'[key] \in Row /\ Follows(rows'[key], rows[key])
      /\ table[key].version \in Nat
  BY WorkingTypes DEF Advances, Row
<1>3. QED
  BY <1>1, <1>2, WasKept

LEMMA SoundKept ==
  ASSUME Working, Advances, page' = page
  PROVE  \A move \in Move : Sound(move) => Sound(move)'
<1> SUFFICES ASSUME NEW move \in Move, Sound(move) PROVE Sound(move)'
  OBVIOUS
<1>1. move.key \in Keys /\ move.version \in Nat
  BY MoveShape
<1>2. /\ rows[move.key] \in Row /\ rows'[move.key] \in Row
      /\ Follows(rows'[move.key], rows[move.key])
  BY <1>1, WorkingTypes DEF Advances
<1>3. Was(rows'[move.key], move.version, move.seen)
  BY <1>1, <1>2, WasKept DEF Sound
<1>4. QED
  BY <1>3 DEF Sound

LEMMA DialogsKept ==
  ASSUME Working, Advances, page' = page,
         pending' = pending \/ pending' = None,
         creating' => creating \/ pending' = None,
         drawer' => drawer /\ pending' = pending /\ checked' \in {checked, None, pending}
  PROVE  DialogsOK'
<1>1. pending \in Move \union {None} /\ DialogsOK
  BY WorkingTypes DEF Working
<1>2. pending' # None => ~creating' /\ pending' \in Move /\ pending' = pending /\ Sound(pending)
  BY <1>1 DEF DialogsOK
<1>3. pending' # None => Sound(pending)'
  BY <1>2, SoundKept DEF Sound
<1>4. drawer' => pending' # None /\ checked' \in {None, pending'}
  BY <1>1 DEF DialogsOK
<1>5. QED
  BY <1>2, <1>3, <1>4 DEF DialogsOK

(* A request goes on: what it has made stays, and it is not sent again.    *)
Onward(p) ==
  /\ posts[p].at \notin {"unused", "sent"} =>
       /\ posts'[p].at \notin {"unused", "sent"} /\ posts'[p].move = posts[p].move
  /\ posts[p].at \in {"reloading", "done"} => posts'[p].at \in {"reloading", "done"}

LEMMA SucceededKept ==
  ASSUME Working, Advances, page' = page, NEW p \in Posts, Succeeded(p),
         posts'[p].move = posts[p].move
  PROVE  Succeeded(p)'
<1> DEFINE move == posts[p].move
<1>1. move \in Move /\ move.key \in Keys /\ move.version \in Nat
  BY MoveShape DEF Succeeded
<1>2. /\ rows[move.key].version \in Nat /\ rows'[move.key].version \in Nat
      /\ Follows(rows'[move.key], rows[move.key])
  BY <1>1, WorkingTypes DEF Advances, Row
<1>3. QED
  BY <1>1, <1>2 DEF Succeeded, Follows

LEMMA RequestKept ==
  ASSUME Working, Advances, page' = page, NEW p \in Posts, posts'[p] = posts[p]
  PROVE  RequestOK(p)'
<1>1. RequestOK(p) /\ posts[p] \in Post \union {NoPost}
  BY WorkingTypes DEF Working
<1>2. posts[p].at = "sent" /\ posts[p].move # None => Sound(posts[p].move)'
  <2> SUFFICES ASSUME posts[p].at = "sent", posts[p].move # None
               PROVE  Sound(posts[p].move)'
    OBVIOUS
  <2>1. posts[p].move \in Move /\ Sound(posts[p].move)
    BY <1>1, PostShapes DEF RequestOK
  <2>2. \A move \in Move : Sound(move) =>
          /\ KindOf[move.key] = page' /\ Edge(page', move.seen, move.target)
          /\ Was(rows'[move.key], move.version, move.seen)
    BY SoundKept DEF Sound
  <2>3. QED
    BY <2>1, <2>2 DEF Sound
<1>3. posts[p].at \in {"moved", "reloading"} => Succeeded(p)'
  BY <1>1, SucceededKept DEF RequestOK
<1>4. QED
  BY <1>1, <1>2, <1>3 DEF RequestOK, Sound

LEMMA ReloadKept ==
  ASSUME Working, Advances, page' = page, NEW l \in Loads, loads'[l] = loads[l],
         \A p \in Posts : Onward(p)
  PROVE  ReloadOK(l)'
<1> DEFINE p == loads[l].owner
<1> SUFFICES ASSUME loads[l].at \in {"sent", "answered"}, p # None
             PROVE  /\ posts'[p].at \in {"reloading", "done"} /\ Succeeded(p)'
                    /\ loads[l].at = "answered" =>
                         \/ loads[l].table[posts[p].move.key].version > posts[p].move.version
                         \/ rows'[posts[p].move.key].life = "gone"
                         \/ FullOfOthers(loads[l].table, posts[p].move.key)
                    /\ posts'[p].move = posts[p].move
  BY DEF ReloadOK, Succeeded, FullOfOthers
<1>1. ReloadOK(l) /\ p \in Posts
  BY WorkingTypes, LoadShapes DEF Working
<1>2. posts[p].at \in {"reloading", "done"} /\ Succeeded(p)
  BY <1>1 DEF ReloadOK
<1>3. posts'[p].at \in {"reloading", "done"} /\ posts'[p].move = posts[p].move
  BY <1>1, <1>2 DEF Onward
<1>4. Succeeded(p)'
  <2> HIDE DEF p
  <2>1. \A q \in Posts : Succeeded(q) /\ posts'[q].move = posts[q].move =>
          /\ posts'[q].move \in Move /\ KindOf[posts'[q].move.key] = page'
          /\ rows'[posts'[q].move.key].life # "absent"
          /\ rows'[posts'[q].move.key].version > posts'[q].move.version
    BY SucceededKept DEF Succeeded
  <2>2. QED
    BY <1>1, <1>2, <1>3, <2>1 DEF Succeeded, p
<1>5. rows[posts[p].move.key].life = "gone" => rows'[posts[p].move.key].life = "gone"
  BY <1>2, MoveShape DEF Succeeded, Advances, Follows
<1>6. QED
  BY <1>1, <1>3, <1>4, <1>5 DEF ReloadOK

LEMMA MovesKept ==
  ASSUME Working, Advances, moves' = moves, \A p \in Posts : Onward(p)
  PROVE  MovesOK'
<1>1. ASSUME NEW m \in moves
      PROVE  /\ m.post \in Posts /\ m.base \in Nat
             /\ posts[m.post].at \notin {"unused", "sent"} /\ posts[m.post].move \in Move
             /\ posts'[m.post].at \notin {"unused", "sent"}
             /\ posts'[m.post].move = posts[m.post].move
             /\ m.base < rows'[posts[m.post].move.key].version
  <2> DEFINE key == posts[m.post].move.key
  <2>1. /\ m.post \in Posts /\ m.base \in Nat
        /\ posts[m.post].at \notin {"unused", "sent"} /\ posts[m.post].move \in Move
        /\ m.base < rows[key].version
    BY WorkingTypes DEF Working, MovesOK
  <2>2. key \in Keys
    BY <2>1, MoveShape
  <2>3. /\ rows[key].version \in Nat /\ rows'[key].version \in Nat
        /\ rows[key].life = "absent" => rows[key].version = 0
        /\ Follows(rows'[key], rows[key])
    BY <2>2, WorkingTypes DEF Working, Advances, Row
  <2>4. m.base < rows'[key].version
    BY <2>1, <2>3 DEF Follows
  <2>5. QED
    BY <2>1, <2>4 DEF Onward
<1>2. MovesAsSeen
  BY DEF Working, MovesOK
<1>3. MovesAsSeen'
  <2>1. ASSUME NEW m \in moves'
        PROVE  m.from = posts'[m.post].move.seen /\ m.base = posts'[m.post].move.version
    BY <1>1, <1>2 DEF MovesAsSeen
  <2>2. ASSUME NEW m \in moves', NEW n \in moves',
               posts'[m.post].move.key = posts'[n.post].move.key, m.base = n.base
        PROVE  m = n
    BY <1>1, <1>2, <2>2 DEF MovesAsSeen
  <2>3. QED
    BY <2>1, <2>2 DEF MovesAsSeen
<1>4. QED
  BY <1>1, <1>3 DEF MovesOK

(* What a step has to establish. *)
LEMMA WorkingFollows ==
  ASSUME Working, TypeOK', Advances, page' = page,
         list' = list \/ FromServer(list)',
         \A l \in Loads :
           \/ loads'[l] = loads[l] \/ loads'[l].at \notin {"sent", "answered"}
           \/ /\ ReloadOK(l)'
              /\ loads'[l].at = "answered" => FromServer(loads[l].table)',
         DialogsOK',
         \A p \in Posts : posts'[p] = posts[p] \/ RequestOK(p)',
         \A p \in Posts : Onward(p),
         moves' = moves \/ MovesOK'
  PROVE  Working'
<1>1. \A key \in Keys : rows'[key].life = "absent" => rows'[key].version = 0
  BY DEF Working, Advances, Follows
<1>2. FromServer(list)'
  <2>1. CASE list' = list
    <3>1. list \in [Keys -> Row] /\ FromServer(list)
      BY WorkingTypes DEF Working
    <3>2. QED
      BY <2>1, <3>1, FromServerKept DEF FromServer
  <2>2. QED
    BY <2>1
<1>3. ASSUME NEW l \in Loads, loads'[l].at = "answered" PROVE FromServer(loads[l].table)'
  <2>1. CASE loads'[l] = loads[l]
    <3>1. loads[l].table \in [Keys -> Row] /\ FromServer(loads[l].table)
      BY <1>3, <2>1, WorkingTypes, LoadShapes DEF Working
    <3>2. QED
      BY <2>1, <3>1, FromServerKept DEF FromServer
  <2>2. QED
    BY <1>3, <2>1
<1>4. ASSUME NEW l \in Loads PROVE ReloadOK(l)'
  <2>1. CASE loads'[l] = loads[l]
    BY <2>1, ReloadKept
  <2>2. CASE loads'[l].at \notin {"sent", "answered"}
    BY <2>2 DEF ReloadOK
  <2>3. QED
    BY <2>1, <2>2
<1>5. \A p \in Posts : RequestOK(p)'
  BY RequestKept
<1>6. MovesOK'
  BY MovesKept
<1>7. QED
  BY <1>1, <1>2, <1>3, <1>4, <1>5, <1>6 DEF Working

LEMMA InitWorking == Init => Working
<1> SUFFICES ASSUME Init PROVE Working
  OBVIOUS
<1>1. /\ rows \in [Keys -> Row] /\ TableOK(rows)
  BY SeededTablesOK DEF Init, TableOK
<1>2. /\ list = [key \in Keys |-> EmptyRow] /\ error = FALSE /\ mount = 0
      /\ creating = FALSE /\ pending = None /\ drawer = FALSE /\ checked = None
      /\ posts = [p \in Posts |-> NoPost] /\ loads = [l \in Loads |-> NoLoad]
      /\ moves = {} /\ page \in EntityKinds
  BY KeysAssumption DEF Init
<1>3. TypeOK
  <2>1. rows \in [Keys -> Row] /\ list \in [Keys -> Row] /\ mount \in 0..MaxMounts
    BY <1>1, <1>2, EmptyRowType, WorkbenchAssumption
  <2>2. /\ posts \in [Posts -> Post \union {NoPost}]
        /\ loads \in [Loads -> Load \union {NoLoad, OldLoad}]
    BY <1>2
  <2>3. /\ error \in BOOLEAN /\ creating \in BOOLEAN /\ drawer \in BOOLEAN
        /\ pending \in Move \union {None} /\ checked \in Move \union {None}
    BY <1>2
  <2>4. QED
    BY <1>2, <2>1, <2>2, <2>3 DEF TypeOK
<1>4. \A key \in Keys : rows[key].life = "absent" => rows[key].version = 0
  BY <1>1 DEF TableOK, RowOK, EmptyRow
<1>5. FromServer(list)
  BY <1>2 DEF FromServer, EmptyRow
<1>6. \A l \in Loads : loads[l].at = "unused"
  BY <1>2, LoadShapes
<1>7. \A p \in Posts : posts[p].at = "unused"
  BY <1>2, PostShapes
<1>8. QED
  BY <1>2, <1>3, <1>4, <1>5, <1>6, <1>7
     DEF Working, DialogsOK, RequestOK, ReloadOK, MovesOK, MovesAsSeen

-----------------------------------------------------------------------------
(* The user: the rows and the histories stay.                              *)

(* What a step of the user's that sends no request has to establish.       *)
LEMMA DialogStep ==
  ASSUME Working, UNCHANGED <<rows, page, list, mount, posts, moves>>,
         error' \in BOOLEAN, creating' \in BOOLEAN, drawer' \in BOOLEAN,
         pending' \in Move \union {None}, checked' \in Move \union {None},
         DialogsOK', UNCHANGED loads
  PROVE  Working'
<1>1. Advances
  BY WorkingTypes, SameRowsAdvance
<1>2. TypeOK'
  BY DEF Working, TypeOK
<1>3. \A p \in Posts : Onward(p)
  BY DEF Onward
<1>4. QED
  BY <1>1, <1>2, <1>3, WorkingFollows

LEMMA CreateDialogWorking ==
  ASSUME Working, page' = page, OpenCreate \/ CancelCreate
  PROVE  Working'
<1>1. /\ rows' = rows /\ list' = list /\ error' = error /\ mount' = mount
      /\ pending' = pending /\ drawer' = drawer /\ checked' = checked
      /\ posts' = posts /\ loads' = loads /\ moves' = moves
      /\ creating' \in BOOLEAN /\ (creating' => pending = None)
  BY DEF OpenCreate, CancelCreate, Uncovered, store, requests
<1>2. Advances
  BY <1>1, WorkingTypes, SameRowsAdvance
<1>3. DialogsOK'
  BY <1>1, <1>2, DialogsKept
<1>4. QED
  BY <1>1, <1>3, WorkingTypes, DialogStep

(* The dialog takes the row as the list shows it, and the next status.     *)
LEMMA ChooseWorking ==
  ASSUME Working, page' = page, NEW key \in Keys, Choose(key)
  PROVE  Working'
<1>1. PICK target \in Offered(page, list[key].status) :
        pending' = [key |-> key, version |-> list[key].version,
                    seen |-> list[key].status, target |-> target]
  BY DEF Choose
<1>2. /\ rows' = rows /\ list' = list /\ error' = error /\ mount' = mount
      /\ creating' = creating /\ drawer' = drawer /\ checked' = checked
      /\ posts' = posts /\ loads' = loads /\ moves' = moves
      /\ ~creating /\ pending = None /\ list[key].life = "live"
  BY DEF Choose, Uncovered, store, requests
<1>3. /\ list[key] \in Row /\ page \in EntityKinds /\ FromServer(list) /\ DialogsOK
  BY WorkingTypes DEF Working
<1>4. Edge(page, list[key].status, target)
  BY <1>1, <1>3, OfferedAreEdges
<1>5. target \in AllStatuses
  BY <1>3, <1>4, GraphsClosed, ServiceStatuses
<1>6. list[key].version \in Nat /\ list[key].status \in AllStatuses \union {NoStatus}
  BY <1>3 DEF Row
<1>7. /\ pending' \in Move /\ pending'.key = key /\ pending'.version = list[key].version
      /\ pending'.seen = list[key].status /\ pending'.target = target
  BY <1>1, <1>5, <1>6 DEF Move
<1>8. Sound(pending)'
  BY <1>2, <1>3, <1>4, <1>7 DEF Sound, FromServer
<1>9. ~drawer
  BY <1>2, <1>3 DEF DialogsOK
<1>10. DialogsOK'
  BY <1>2, <1>8, <1>9 DEF DialogsOK
<1>11. QED
  BY <1>2, <1>7, <1>10, WorkingTypes, DialogStep

LEMMA MoveDialogWorking ==
  ASSUME Working, page' = page, CancelMove \/ Tick \/ CancelReview
  PROVE  Working'
<1>1. /\ rows' = rows /\ list' = list /\ error' = error /\ mount' = mount
      /\ creating' = creating /\ posts' = posts /\ loads' = loads /\ moves' = moves
      /\ pending' = pending \/ (pending' = None /\ ~drawer)
      /\ drawer' = drawer \/ drawer' = FALSE
      /\ checked' \in {checked, pending, None}
  BY DEF CancelMove, Tick, CancelReview, store, requests
<1>2. Advances
  BY <1>1, WorkingTypes, SameRowsAdvance
<1>3. drawer' => drawer /\ pending' = pending
  BY <1>1
<1>4. DialogsOK'
  BY <1>1, <1>2, <1>3, DialogsKept
<1>5. checked' \in Move \union {None} /\ pending' \in Move \union {None} /\ drawer' \in BOOLEAN
  BY <1>1, WorkingTypes
<1>6. QED
  BY <1>1, <1>4, <1>5, WorkingTypes, DialogStep

LEMMA SendLoadLoads ==
  ASSUME Working, NEW owner \in Posts \union {None}, SendLoad(owner)
  PROVE  /\ loads' \in [Loads -> Load \union {NoLoad, OldLoad}] /\ error' = FALSE
         /\ \A l \in Loads : \/ loads'[l] = loads[l]
                             \/ loads'[l].at = "sent" /\ loads'[l].owner = owner
<1> DEFINE new == [at |-> "sent", owner |-> owner]
<1>1. PICK l \in Loads : loads' = [loads EXCEPT ![l] = new] /\ error' = FALSE
  BY DEF SendLoad
<1>2. new \in Load /\ new.at = "sent" /\ new.owner = owner
  BY NewLoads
<1> HIDE DEF new
<1>3. QED
  BY <1>1, <1>2, WorkingTypes

(* The page's own list requests. *)
LEMMA OwnLoadWorking ==
  ASSUME Working, page' = page, Open \/ Query
  PROVE  Working'
<1>1. /\ rows' = rows /\ list' = list /\ posts' = posts /\ moves' = moves /\ SendLoad(None)
      /\ mount' = mount \/ (mount < MaxMounts /\ mount' = mount + 1)
      /\ \/ creating' = FALSE /\ pending' = None /\ drawer' = FALSE /\ checked' = None
         \/ creating' = creating /\ pending' = pending /\ drawer' = drawer /\ checked' = checked
  BY DEF Open, Query, dialogs
<1>2. Advances
  BY <1>1, WorkingTypes, SameRowsAdvance
<1>3. /\ loads' \in [Loads -> Load \union {NoLoad, OldLoad}] /\ error' = FALSE
      /\ \A l \in Loads : \/ loads'[l] = loads[l]
                          \/ loads'[l].at = "sent" /\ loads'[l].owner = None
  BY <1>1, SendLoadLoads
<1>4. mount' \in 0..MaxMounts
  BY <1>1, WorkingTypes, WorkbenchAssumption
<1>5. TypeOK'
  <2>1. /\ error' \in BOOLEAN /\ creating' \in BOOLEAN /\ drawer' \in BOOLEAN
        /\ pending' \in Move \union {None} /\ checked' \in Move \union {None}
    BY <1>1, <1>3, WorkingTypes
  <2>2. QED
    BY <1>1, <1>3, <1>4, <2>1, WorkingTypes DEF TypeOK
<1>6. DialogsOK'
  BY <1>1, <1>2, DialogsKept
<1>7. \A l \in Loads : loads'[l] = loads[l] \/ (ReloadOK(l)' /\ loads'[l].at = "sent")
  BY <1>3 DEF ReloadOK
<1>8. \A p \in Posts : Onward(p)
  BY <1>1 DEF Onward
<1>9. QED
  BY <1>1, <1>2, <1>5, <1>6, <1>7, <1>8, WorkingFollows

(* A request is sent for a move that is sound, and reviewed if it must be. *)
LEMMA SendPostWorking ==
  ASSUME Working, page' = page, NEW move \in Move \union {None}, SendPost(move),
         move # None => Sound(move),
         move # None /\ page \in RemoteKinds => checked = move
  PROVE  Working'
<1>1. PICK p \in Posts : posts[p] = NoPost /\ posts' = [posts EXCEPT ![p] = Sent(move)]
  BY DEF SendPost
<1>2. /\ rows' = rows /\ list' = list /\ mount' = mount /\ moves' = moves /\ loads' = loads
      /\ creating' = creating /\ pending' = pending /\ drawer' = drawer /\ checked' = checked
      /\ error' = FALSE
  BY DEF SendPost, dialogs
<1>3. Advances
  BY <1>2, WorkingTypes, SameRowsAdvance
<1>4. /\ Sent(move) \in Post /\ Sent(move).at = "sent" /\ Sent(move).move = move
      /\ Sent(move).reviewed = IF move = None THEN None ELSE checked
  <2>1. mount \in Nat /\ checked \in Move \union {None}
    BY WorkingTypes, WorkbenchAssumption
  <2>2. QED
    BY <2>1 DEF Sent, Post, PostStages
<1>5. /\ posts' \in [Posts -> Post \union {NoPost}] /\ posts'[p] = Sent(move)
      /\ \A q \in Posts : q # p => posts'[q] = posts[q]
  BY <1>1, <1>4, WorkingTypes
<1>6. TypeOK'
  BY <1>2, <1>5, WorkingTypes DEF TypeOK
<1>7. DialogsOK'
  BY <1>2, <1>3, DialogsKept
<1>8. RequestOK(p)'
  <2>1. move # None => Sound(move)'
    BY <1>3, SoundKept
  <2>2. posts'[p].move # None => Sound(posts[p].move)'
    BY <1>2, <1>4, <1>5 DEF Sound
  <2>3. QED
    BY <1>4, <1>5, <2>2 DEF RequestOK
<1>9. \A q \in Posts : Onward(q)
  BY <1>1, <1>4, <1>5, PostShapes DEF Onward
<1>10. QED
  BY <1>2, <1>3, <1>5, <1>6, <1>7, <1>8, <1>9, WorkingFollows

LEMMA ConfirmWorking ==
  ASSUME Working, page' = page, ConfirmCreate \/ ConfirmMove \/ ConfirmReview
  PROVE  Working'
<1>1. pending \in Move \union {None} /\ DialogsOK
  BY WorkingTypes DEF Working
<1>2. CASE ConfirmCreate
  BY <1>2, SendPostWorking DEF ConfirmCreate
<1>3. CASE ConfirmMove /\ page \notin RemoteKinds
  <2>1. SendPost(pending) /\ pending # None
    BY <1>3 DEF ConfirmMove
  <2>2. QED
    BY <1>1, <1>3, <2>1, SendPostWorking DEF DialogsOK
<1>4. CASE ConfirmMove /\ page \in RemoteKinds
  <2>1. /\ rows' = rows /\ list' = list /\ error' = error /\ mount' = mount
        /\ creating' = creating /\ pending' = pending /\ pending # None
        /\ posts' = posts /\ loads' = loads /\ moves' = moves
        /\ drawer' = TRUE /\ checked' = None
    BY <1>4 DEF ConfirmMove, OpenDrawer, store, requests
  <2>2. DialogsOK'
    BY <1>1, <2>1 DEF DialogsOK, Sound
  <2>3. QED
    BY <2>1, <2>2, WorkingTypes, DialogStep
<1>5. CASE ConfirmReview
  <2>1. SendPost(pending) /\ drawer /\ checked # None
    BY <1>5 DEF ConfirmReview
  <2>2. QED
    BY <1>1, <2>1, SendPostWorking DEF DialogsOK
<1>6. QED
  BY <1>2, <1>3, <1>4, <1>5

-----------------------------------------------------------------------------
(* The services.                                                           *)

LEMMA OthersWorking ==
  ASSUME Working, page' = page, Others
  PROVE  Working'
<1>1. /\ Records!Next /\ list' = list /\ error' = error /\ mount' = mount /\ moves' = moves
      /\ creating' = creating /\ pending' = pending /\ drawer' = drawer /\ checked' = checked
      /\ posts' = posts /\ loads' = loads
  BY DEF Others, store, dialogs, requests
<1>2. Advances
  BY <1>1, WorkingTypes, OthersAdvance
<1>3. TypeOK'
  BY <1>1, <1>2, WorkingTypes DEF TypeOK, Advances
<1>4. DialogsOK'
  BY <1>1, <1>2, DialogsKept
<1>5. \A p \in Posts : Onward(p)
  BY <1>1 DEF Onward
<1>6. QED
  BY <1>1, <1>2, <1>3, <1>4, <1>5, WorkingFollows

LEMMA ServerRefusesWorking ==
  ASSUME Working, page' = page, NEW p \in Posts, ServerRefuses(p)
  PROVE  Working'
<1> DEFINE new == [posts[p] EXCEPT !.at = "refused"]
<1>1. /\ rows' = rows /\ list' = list /\ error' = error /\ mount' = mount /\ moves' = moves
      /\ creating' = creating /\ pending' = pending /\ drawer' = drawer /\ checked' = checked
      /\ loads' = loads /\ posts' = [posts EXCEPT ![p] = new] /\ posts[p].at = "sent"
  BY DEF ServerRefuses, store, dialogs
<1>2. Advances
  BY <1>1, WorkingTypes, SameRowsAdvance
<1>3. new \in Post /\ new.at = "refused" /\ new.move = posts[p].move
  <2>1. posts[p] \in Post /\ "refused" \in PostStages
    BY <1>1, WorkingTypes, PostShapes DEF PostStages
  <2>2. QED
    BY <2>1, PostAt
<1> HIDE DEF new
<1>4. /\ posts' \in [Posts -> Post \union {NoPost}] /\ posts'[p] = new
      /\ \A q \in Posts : q # p => posts'[q] = posts[q]
  BY <1>1, <1>3, WorkingTypes
<1>5. TypeOK'
  BY <1>1, <1>4, WorkingTypes DEF TypeOK
<1>6. DialogsOK'
  BY <1>1, <1>2, DialogsKept
<1>7. RequestOK(p)' /\ \A q \in Posts : Onward(q)
  BY <1>1, <1>3, <1>4 DEF RequestOK, Onward
<1>8. QED
  BY <1>1, <1>2, <1>4, <1>5, <1>6, <1>7, WorkingFollows

(* A first page holds live rows of the page's kind, as they are; one that it
   leaves out is behind as many as a page takes. *)
LEMMA FirstPage ==
  ASSUME Working, NEW items \in FirstPages(rows)
  PROVE  /\ items \subseteq Live(rows)
         /\ Shown(rows, items) \in [Keys -> Row]
         /\ \A key \in Keys : Shown(rows, items)[key] =
              IF key \in items THEN rows[key] ELSE EmptyRow
         /\ \A key \in Live(rows) \ items : FullOfOthers(Shown(rows, items), key)
<1> DEFINE live == Live(rows)
<1>1. PICK A \in SUBSET live :
        /\ Cardinality(A) = Smaller(Offset(1, PageSize), Cardinality(live))
        /\ items \subseteq live \ A
        /\ Cardinality(items) = Smaller(PageSize, Cardinality(live \ A))
  BY DEF FirstPages, PagesAt
<1>2. live \subseteq Keys /\ IsFiniteSet(live) /\ Cardinality(live) \in Nat
  BY WorkbenchAssumption, FS_Subset, FS_CardinalityType DEF Live
<1>3. A = {}
  <2>1. IsFiniteSet(A)
    BY <1>1, <1>2, FS_Subset
  <2>2. Offset(1, PageSize) = 0
    BY WorkbenchAssumption DEF Offset
  <2>3. Cardinality(A) = 0
    BY <1>1, <1>2, <2>2 DEF Smaller
  <2>4. QED
    BY <2>1, <2>3, FS_EmptySet
<1>4. items \subseteq live /\ Cardinality(items) = Smaller(PageSize, Cardinality(live))
  <2>1. live \ A = live
    BY <1>3
  <2>2. QED
    BY <1>1, <2>1
<1>5. /\ Shown(rows, items) \in [Keys -> Row]
      /\ \A key \in Keys : Shown(rows, items)[key] =
           IF key \in items THEN rows[key] ELSE EmptyRow
  BY WorkingTypes, EmptyRowType DEF Shown
<1>6. items = {key \in Keys : Shown(rows, items)[key].life = "live"}
  BY <1>2, <1>4, <1>5 DEF Live, EmptyRow
<1>7. ASSUME NEW key \in live \ items PROVE FullOfOthers(Shown(rows, items), key)
  <2>1. Shown(rows, items)[key].life # "live"
    BY <1>2, <1>6
  <2>2. Cardinality(items) # Cardinality(live)
    BY <1>2, <1>4, <1>7, FS_Subset
  <2>3. Cardinality(items) = PageSize
    BY <1>4, <2>2 DEF Smaller
  <2>4. QED
    BY <1>6, <2>1, <2>3 DEF FullOfOthers
<1>8. QED
  BY <1>4, <1>5, <1>7

(* A list answer shows the first page of the rows of the page's kind.      *)
LEMMA ServerListsWorking ==
  ASSUME Working, page' = page, NEW l \in Loads, ServerLists(l)
  PROVE  Working'
<1>0. PICK items \in FirstPages(rows) :
        loads' = [loads EXCEPT ![l] = [at |-> "answered", owner |-> @.owner,
                                       table |-> Shown(rows, items)]]
  BY DEF ServerLists
<1> DEFINE owner == loads[l].owner
           table == Shown(rows, items)
           new == [at |-> "answered", owner |-> owner, table |-> table]
<1>1. /\ rows' = rows /\ list' = list /\ error' = error /\ mount' = mount /\ moves' = moves
      /\ creating' = creating /\ pending' = pending /\ drawer' = drawer /\ checked' = checked
      /\ posts' = posts /\ loads' = [loads EXCEPT ![l] = new] /\ loads[l].at = "sent"
  BY <1>0 DEF ServerLists, store, dialogs
<1>2. Advances
  BY <1>1, WorkingTypes, SameRowsAdvance
<1>3. /\ items \subseteq Live(rows) /\ table \in [Keys -> Row]
      /\ \A key \in Keys : table[key] = IF key \in items THEN rows[key] ELSE EmptyRow
      /\ \A key \in Live(rows) \ items : FullOfOthers(table, key)
  BY FirstPage
<1>4. owner \in Posts \union {None}
  BY <1>1, WorkingTypes, LoadShapes
<1>5. /\ new \in Load /\ new.at = "answered" /\ new.owner = owner /\ new.table = table
  BY <1>3, <1>4, NewLoads
<1> HIDE DEF new, table
<1>6. /\ loads' \in [Loads -> Load \union {NoLoad, OldLoad}] /\ loads'[l] = new
      /\ \A k \in Loads : k # l => loads'[k] = loads[k]
  BY <1>1, <1>5, WorkingTypes
<1>7. FromServer(loads[l].table)'
  <2> SUFFICES ASSUME NEW key \in Keys, table[key].life = "live"
               PROVE  /\ KindOf[key] = page
                      /\ Was(rows[key], table[key].version, table[key].status)
    BY <1>1, <1>5, <1>6 DEF FromServer
  <2>1. KindOf[key] = page /\ rows[key].life = "live" /\ table[key] = rows[key]
    BY <1>3 DEF EmptyRow, Live
  <2>2. QED
    BY <2>1, WorkingTypes DEF Was
<1>8. ReloadOK(l)'
  <2> SUFFICES ASSUME owner # None
               PROVE  /\ posts[owner].at \in {"reloading", "done"} /\ Succeeded(owner)
                      /\ \/ table[posts[owner].move.key].version > posts[owner].move.version
                         \/ rows[posts[owner].move.key].life = "gone"
                         \/ FullOfOthers(table, posts[owner].move.key)
    BY <1>1, <1>5, <1>6 DEF ReloadOK, Succeeded, FullOfOthers
  <2>1. posts[owner].at \in {"reloading", "done"} /\ Succeeded(owner)
    BY <1>1 DEF Working, ReloadOK
  <2> DEFINE key == posts[owner].move.key
  <2>2. /\ key \in Keys /\ KindOf[key] = page /\ rows[key].life # "absent"
        /\ rows[key].version > posts[owner].move.version
    BY <2>1, MoveShape DEF Succeeded
  <2>3. rows[key].life \in {"live", "gone"}
    BY <2>2, WorkingTypes DEF Row, Lives
  <2>4. rows[key].life = "live" => table[key] = rows[key] \/ FullOfOthers(table, key)
    BY <1>3, <2>2 DEF Live
  <2>5. QED
    BY <2>1, <2>2, <2>3, <2>4
<1>9. TypeOK'
  BY <1>1, <1>6, WorkingTypes DEF TypeOK
<1>10. DialogsOK'
  BY <1>1, <1>2, DialogsKept
<1>11. \A q \in Posts : Onward(q)
  BY <1>1 DEF Onward
<1>12. QED
  BY <1>1, <1>2, <1>5, <1>6, <1>7, <1>8, <1>9, <1>10, <1>11, WorkingFollows

(* A request that is made: no earlier one was made from that version.      *)
LEMMA MadeWorking ==
  ASSUME Working, page' = page, Advances, NEW p \in Posts, posts[p].at = "sent",
         NEW move \in Move, NEW base, Made(p, move, base),
         KindOf[move.key] = page, base.version = rows[move.key].version,
         move.version = base.version, move.seen = base.status,
         rows'[move.key].life # "absent", rows'[move.key].version = base.version + 1
  PROVE  Working'
<1>1. PICK at \in {"moved", "refused"} :
        posts' = [posts EXCEPT ![p].at = at, ![p].move = move]
  BY DEF Made
<1> DEFINE new == [posts[p] EXCEPT !.at = at, !.move = move]
           record == [post |-> p, from |-> base.status, base |-> base.version]
<1>2. /\ list' = list /\ error' = error /\ mount' = mount /\ loads' = loads
      /\ creating' = creating /\ pending' = pending /\ drawer' = drawer /\ checked' = checked
      /\ moves' = moves \union {record}
  BY DEF Made, store, dialogs
<1>3. posts[p] \in Post /\ at \in PostStages
  BY WorkingTypes, PostShapes DEF PostStages
<1>4. new \in Post /\ new.at = at /\ new.move = move
  BY <1>3 DEF Post
<1>5. posts' = [posts EXCEPT ![p] = new]
  BY <1>1, <1>3, WorkingTypes
<1> HIDE DEF new
<1>6. /\ posts' \in [Posts -> Post \union {NoPost}] /\ posts'[p] = new
      /\ \A q \in Posts : q # p => posts'[q] = posts[q]
  BY <1>4, <1>5, WorkingTypes
<1>7. /\ move.key \in Keys /\ move.version \in Nat
      /\ move.seen \in AllStatuses \union {NoStatus}
      /\ rows[move.key].version \in Nat
  BY MoveShape, WorkingTypes
<1>8. /\ record.post = p /\ record.from = move.seen /\ record.base = move.version
      /\ record.base \in Nat
  BY <1>7
<1> HIDE DEF record
<1>9. TypeOK'
  <2>1. \A m \in moves' : /\ m.post \in Posts /\ m.base \in Nat
                          /\ m.from \in AllStatuses \union {NoStatus}
    BY <1>2, <1>7, <1>8, WorkingTypes
  <2>2. rows' \in [Keys -> Row]
    BY DEF Advances
  <2>3. QED
    BY <1>2, <1>6, <2>1, <2>2, WorkingTypes DEF TypeOK
<1>10. DialogsOK'
  BY <1>2, DialogsKept
<1>11. Succeeded(p)'
  BY <1>4, <1>6, <1>7 DEF Succeeded
<1>12. RequestOK(p)' /\ \A q \in Posts : Onward(q)
  BY <1>4, <1>6, <1>11 DEF RequestOK, Onward
<1>13. MovesOK'
  <2>1. ASSUME NEW m \in moves
        PROVE  /\ m.post \in Posts /\ m.post # p /\ posts'[m.post] = posts[m.post]
               /\ posts[m.post].at \notin {"unused", "sent"}
               /\ posts[m.post].move \in Move
               /\ m.from = posts[m.post].move.seen /\ m.base = posts[m.post].move.version
               /\ m.base \in Nat
               /\ m.base < rows[posts[m.post].move.key].version
               /\ m.base < rows'[posts[m.post].move.key].version
    <3>1. /\ m.post \in Posts /\ m.base \in Nat
          /\ posts[m.post].at \notin {"unused", "sent"} /\ posts[m.post].move \in Move
          /\ m.base < rows[posts[m.post].move.key].version
          /\ m.from = posts[m.post].move.seen /\ m.base = posts[m.post].move.version
      BY WorkingTypes DEF Working, MovesOK, MovesAsSeen
    <3>2. m.post # p /\ posts'[m.post] = posts[m.post]
      BY <1>6, <3>1
    <3> DEFINE key == posts[m.post].move.key
    <3>3. key \in Keys
      BY <3>1, MoveShape
    <3>4. /\ rows[key].version \in Nat /\ rows'[key].version \in Nat
          /\ rows[key].life = "absent" => rows[key].version = 0
          /\ Follows(rows'[key], rows[key])
      BY <3>3, WorkingTypes DEF Working, Advances, Row
    <3>5. m.base < rows'[key].version
      BY <3>1, <3>4 DEF Follows
    <3>6. QED
      BY <3>1, <3>2, <3>5
  <2>2. /\ posts'[record.post].at \notin {"unused", "sent"}
        /\ posts'[record.post].move = move
        /\ record.base < rows'[move.key].version
    BY <1>4, <1>6, <1>7, <1>8
  <2>3. \A m \in moves' : /\ posts'[m.post].at \notin {"unused", "sent"}
                          /\ posts'[m.post].move \in Move
                          /\ m.base < rows'[posts'[m.post].move.key].version
                          /\ m.from = posts'[m.post].move.seen
                          /\ m.base = posts'[m.post].move.version
    BY <1>2, <1>8, <2>1, <2>2
  <2>4. ASSUME NEW m \in moves, posts'[m.post].move.key = move.key
        PROVE  m.base # record.base
    BY <1>7, <1>8, <2>1, <2>4
  <2>5. ASSUME NEW m \in moves', NEW n \in moves',
               posts'[m.post].move.key = posts'[n.post].move.key, m.base = n.base
        PROVE  m = n
    <3>1. CASE m \in moves /\ n \in moves
      <4>1. \A k, o \in moves :
              posts[k.post].move.key = posts[o.post].move.key /\ k.base = o.base => k = o
        BY DEF Working, MovesOK, MovesAsSeen
      <4>2. QED
        BY <2>1, <2>5, <3>1, <4>1
    <3>2. CASE m \in moves /\ n = record
      BY <2>2, <2>4, <2>5, <3>2
    <3>3. CASE m = record /\ n \in moves
      BY <2>2, <2>4, <2>5, <3>3
    <3>4. QED
      BY <1>2, <3>1, <3>2, <3>3
  <2>6. QED
    BY <2>3, <2>5 DEF MovesOK, MovesAsSeen
<1>14. QED
  BY <1>2, <1>6, <1>9, <1>10, <1>12, <1>13, WorkingFollows

(* Transition: the version is the one that was shown, hence the status is. *)
LEMMA ServerMovesWorking ==
  ASSUME Working, page' = page, NEW p \in Posts, ServerMoves(p)
  PROVE  Working'
<1> DEFINE move == posts[p].move
           row == rows[move.key]
           new == Records!Moved(row, move.target)
<1>1. /\ posts[p].at = "sent" /\ move # None
      /\ Matches(row, move.version) /\ Edge(page, row.status, move.target)
      /\ rows' = [rows EXCEPT ![move.key] = new]
      /\ Made(p, move, row)
  BY DEF ServerMoves
<1>2. move \in Move /\ Sound(move)
  BY <1>1, WorkingTypes, PostShapes DEF Working, RequestOK
<1>3. move.key \in Keys /\ move.target \in AllStatuses /\ row \in Row /\ row.version \in Nat
  BY <1>2, MoveShape, WorkingTypes
<1>4. row.life = "live" /\ row.version = move.version
  BY <1>1 DEF Matches
<1>5. new \in Row /\ new.version = row.version + 1 /\ new.life = "live" /\ Follows(new, row)
  BY <1>3, <1>4, MovedRow
<1>6. Advances
  BY <1>1, <1>3, <1>5, WorkingTypes, OneRowAdvances
<1>7. rows'[move.key] = new
  BY <1>1, <1>3, WorkingTypes
<1>8. KindOf[move.key] = page /\ move.seen = row.status
  BY <1>2, <1>4 DEF Sound, Was
<1>9. QED
  BY <1>1, <1>2, <1>4, <1>5, <1>6, <1>7, <1>8, MadeWorking

LEMMA ServerCreatesWorking ==
  ASSUME Working, page' = page, NEW p \in Posts, ServerCreates(p)
  PROVE  Working'
<1> DEFINE initial == Service[page].initial
           new == InsertedRow(DemoCode, initial, SeedData)
<1>1. PICK key \in FreshKeys(rows, page) :
        /\ rows' = [rows EXCEPT ![key] = new]
        /\ Made(p, [key |-> key, version |-> 0, seen |-> NoStatus, target |-> initial],
                EmptyRow)
  BY DEF ServerCreates
<1> DEFINE move == [key |-> key, version |-> 0, seen |-> NoStatus, target |-> initial]
<1>2. posts[p].at = "sent"
  BY DEF ServerCreates
<1>3. key \in Keys /\ KindOf[key] = page /\ rows[key].life = "absent" /\ rows[key].version = 0
  BY <1>1 DEF FreshKeys, Working
<1>4. page \in EntityKinds /\ initial \in Statuses(page) /\ initial \in AllStatuses
  BY WorkingTypes, ServiceStatuses
<1>5. /\ move \in Move /\ move.key = key /\ move.version = 0 /\ move.seen = NoStatus
  BY <1>3, <1>4 DEF Move
<1>6. /\ new \in Row /\ Follows(new, rows[key]) /\ new.life = "live" /\ new.version = 1
  BY <1>3, <1>4, InsertedRowType, InsertedFollows, WorkbenchAssumption, KeysAssumption
<1>7. EmptyRow.version = 0 /\ EmptyRow.status = NoStatus
  BY DEF EmptyRow
<1>8. Made(p, move, EmptyRow)
  BY <1>1
<1> HIDE DEF move, new
<1>9. rows' = [rows EXCEPT ![key] = new]
  BY <1>1 DEF new
<1>10. Advances /\ rows'[key] = new
  BY <1>3, <1>6, <1>9, WorkingTypes, OneRowAdvances
<1>11. QED
  BY <1>2, <1>3, <1>5, <1>6, <1>7, <1>8, <1>10, MadeWorking

-----------------------------------------------------------------------------
(* The answers.                                                            *)

(* Where a request goes when its answer is there, and the dialogs with it. *)
LEMMA AnsweredWorking ==
  ASSUME Working, page' = page, rows' = rows, mount' = mount, moves' = moves,
         error' \in BOOLEAN, list' = list \/ (list' \in [Keys -> Row] /\ FromServer(list)'),
         NEW p \in Posts, posts[p] \in Post, posts[p].at # "sent", NEW at \in PostStages,
         posts' = [posts EXCEPT ![p].at = at],
         at # "sent", at = "reloading" => posts[p].at = "moved", at # "moved",
         posts[p].at \in {"reloading", "done"} => at = "done",
         creating' \in BOOLEAN, drawer' \in BOOLEAN, pending' \in Move \union {None},
         checked' \in Move \union {None}, DialogsOK',
         loads' \in [Loads -> Load \union {NoLoad, OldLoad}],
         \A l \in Loads : \/ loads'[l] = loads[l] \/ loads'[l].at \notin {"sent", "answered"}
                          \/ /\ loads'[l].at = "sent" /\ loads'[l].owner = p
                             /\ at = "reloading"
  PROVE  Working'
<1> DEFINE new == [posts[p] EXCEPT !.at = at]
<1>1. Advances
  BY WorkingTypes, SameRowsAdvance
<1>2. new \in Post /\ new.at = at /\ new.move = posts[p].move
  BY PostAt
<1>3. posts' = [posts EXCEPT ![p] = new]
  OBVIOUS
<1> HIDE DEF new
<1>4. /\ posts' \in [Posts -> Post \union {NoPost}] /\ posts'[p] = new
      /\ \A q \in Posts : q # p => posts'[q] = posts[q]
  BY <1>2, <1>3, WorkingTypes
<1>5. TypeOK'
  <2>1. list' \in [Keys -> Row]
    BY WorkingTypes
  <2>2. QED
    BY <1>4, <2>1, WorkingTypes DEF TypeOK
<1>6. at = "reloading" => Succeeded(p)'
  <2>1. posts[p].at = "moved" => Succeeded(p)
    BY DEF Working, RequestOK
  <2>2. QED
    BY <1>1, <1>2, <1>4, <2>1, SucceededKept
<1>7. RequestOK(p)'
  BY <1>2, <1>4, <1>6 DEF RequestOK
<1>8. \A q \in Posts : Onward(q)
  BY <1>2, <1>4, PostShapes DEF Onward, PostStages
<1>9. ASSUME NEW l \in Loads, loads'[l].at = "sent", loads'[l].owner = p, at = "reloading"
      PROVE  ReloadOK(l)'
  BY <1>2, <1>4, <1>6, <1>9 DEF ReloadOK, Succeeded
<1>10. QED
  BY <1>1, <1>4, <1>5, <1>7, <1>8, <1>9, WorkingFollows

LEMMA MovedWorking ==
  ASSUME Working, page' = page, NEW p \in Posts, Moved(p)
  PROVE  Working'
<1>1. /\ posts[p].at = "moved" /\ posts' = [posts EXCEPT ![p].at = "reloading"] /\ SendLoad(p)
      /\ rows' = rows /\ list' = list /\ mount' = mount /\ moves' = moves
      /\ creating' = creating /\ pending' = pending /\ drawer' = drawer /\ checked' = checked
  BY DEF Moved, dialogs
<1>2. posts[p] \in Post /\ "reloading" \in PostStages
  BY <1>1, WorkingTypes, PostShapes DEF PostStages
<1>3. /\ loads' \in [Loads -> Load \union {NoLoad, OldLoad}] /\ error' = FALSE
      /\ \A l \in Loads : \/ loads'[l] = loads[l]
                          \/ loads'[l].at = "sent" /\ loads'[l].owner = p
  BY <1>1, SendLoadLoads
<1>4. DialogsOK'
  BY <1>1, WorkingTypes, SameRowsAdvance, DialogsKept
<1>5. QED
  BY <1>1, <1>2, <1>3, <1>4, WorkingTypes, AnsweredWorking

(* A refusal closes a drawer and leaves the dialog with its move.          *)
LEMMA RefusedWorking ==
  ASSUME Working, page' = page, NEW p \in Posts, Refused(p)
  PROVE  Working'
<1>1. /\ posts[p].at = "refused" /\ posts' = [posts EXCEPT ![p].at = "done"] /\ error' = TRUE
      /\ rows' = rows /\ list' = list /\ mount' = mount /\ moves' = moves /\ loads' = loads
      /\ creating' = creating /\ pending' = pending /\ checked' = checked
      /\ drawer' = (drawer /\ (Creation(p) \/ ~Mounted(p)))
  BY DEF Refused
<1>2. posts[p] \in Post /\ "done" \in PostStages
  BY <1>1, WorkingTypes, PostShapes DEF PostStages
<1>3. drawer' \in BOOLEAN /\ (drawer' => drawer)
  BY <1>1
<1>4. DialogsOK'
  BY <1>1, <1>3, WorkingTypes, SameRowsAdvance, DialogsKept
<1>5. QED
  BY <1>1, <1>2, <1>3, <1>4, WorkingTypes, AnsweredWorking

(* The end of a list request, and of the request that waited for it.       *)
LEMMA EndedWorking ==
  ASSUME Working, page' = page, NEW l \in Loads, Ended(l),
         loads[l].at \in {"sent", "answered"}, error' \in BOOLEAN,
         list' = list \/ (list' \in [Keys -> Row] /\ FromServer(list)')
  PROVE  Working'
<1> DEFINE p == loads[l].owner
<1>1. /\ loads' = [loads EXCEPT ![l] = OldLoad]
      /\ rows' = rows /\ mount' = mount /\ moves' = moves
  BY DEF Ended
<1>2. /\ loads' \in [Loads -> Load \union {NoLoad, OldLoad}]
      /\ \A k \in Loads : loads'[k] = loads[k] \/ loads'[k].at \notin {"sent", "answered"}
  BY <1>1, WorkingTypes, NewLoads, LoadShapes
<1>3. p \in Posts \union {None}
  BY WorkingTypes, LoadShapes
<1>4. CASE p = None
  <2>1. /\ posts' = posts /\ creating' = creating /\ pending' = pending
        /\ drawer' = drawer /\ checked' = checked
    BY <1>4 DEF Ended, dialogs
  <2>2. Advances
    BY <1>1, WorkingTypes, SameRowsAdvance
  <2>3. DialogsOK'
    BY <2>1, <2>2, DialogsKept
  <2>4. TypeOK'
    <3>1. list' \in [Keys -> Row]
      BY WorkingTypes
    <3>2. QED
      BY <1>1, <1>2, <2>1, <3>1, WorkingTypes DEF TypeOK
  <2>5. \A q \in Posts : Onward(q)
    BY <2>1 DEF Onward
  <2>6. QED
    BY <1>1, <1>2, <2>1, <2>2, <2>3, <2>4, <2>5, WorkingFollows
<1>5. CASE p # None
  <2>1. posts' = [posts EXCEPT ![p].at = "done"] /\ Closed(p)
    BY <1>5 DEF Ended
  <2>2. posts[p].at \in {"reloading", "done"}
    BY <1>5 DEF Working, ReloadOK
  <2>3. p \in Posts /\ posts[p] \in Post /\ "done" \in PostStages
    BY <1>3, <1>5, <2>2, WorkingTypes, PostShapes DEF PostStages
  <2>4. /\ creating' \in {creating, FALSE} /\ checked' = checked
        /\ \/ pending' = pending /\ drawer' = drawer
           \/ pending' = None /\ drawer' = FALSE
    BY <2>1 DEF Closed, dialogs
  <2>5. /\ creating' \in BOOLEAN /\ drawer' \in BOOLEAN
        /\ pending' \in Move \union {None} /\ checked' \in Move \union {None}
    BY <2>4, WorkingTypes
  <2>6. DialogsOK'
    <3>1. Advances
      BY <1>1, WorkingTypes, SameRowsAdvance
    <3>2. creating' => creating
      BY <2>4
    <3>3. QED
      BY <2>4, <3>1, <3>2, DialogsKept
  <2> HIDE DEF p
  <2>7. QED
    BY <1>1, <1>2, <2>1, <2>2, <2>3, <2>5, <2>6, AnsweredWorking
<1>6. QED
  BY <1>4, <1>5

LEMMA ListWorking ==
  ASSUME Working, page' = page, NEW l \in Loads, Listed(l) \/ ListFails(l)
  PROVE  Working'
<1>1. CASE Listed(l)
  <2>1. loads[l].at = "answered" /\ list' = loads[l].table /\ error' = error
        /\ rows' = rows /\ Ended(l)
    BY <1>1 DEF Listed, Ended
  <2>2. loads[l].table \in [Keys -> Row] /\ FromServer(loads[l].table)
    BY <2>1, WorkingTypes, LoadShapes DEF Working
  <2>3. FromServer(list)'
    BY <2>1, <2>2 DEF FromServer
  <2>4. QED
    BY <2>1, <2>2, <2>3, WorkingTypes, EndedWorking
<1>2. CASE ListFails(l)
  BY <1>2, EndedWorking DEF ListFails
<1>3. QED
  BY <1>1, <1>2

-----------------------------------------------------------------------------
(* Working holds always.                                                   *)

LEMMA NextWorking == Working /\ [Next]_vars => Working'
<1> SUFFICES ASSUME Working, [Next]_vars PROVE Working'
  OBVIOUS
<1>1. CASE Next
  <2>1. page' = page
    BY <1>1 DEF Next
  <2>2. ASSUME Open \/ Query \/ OpenCreate \/ CancelCreate PROVE Working'
    BY <2>1, <2>2, OwnLoadWorking, CreateDialogWorking
  <2>3. ASSUME ConfirmCreate \/ ConfirmMove \/ ConfirmReview PROVE Working'
    BY <2>1, <2>3, ConfirmWorking
  <2>4. ASSUME NEW key \in Keys, Choose(key) PROVE Working'
    BY <2>1, <2>4, ChooseWorking
  <2>5. ASSUME CancelMove \/ Tick \/ CancelReview PROVE Working'
    BY <2>1, <2>5, MoveDialogWorking
  <2>6. ASSUME NEW p \in Posts,
               \/ ServerMoves(p) \/ ServerCreates(p) \/ ServerRefuses(p)
               \/ Moved(p) \/ Refused(p)
        PROVE  Working'
    BY <2>1, <2>6, ServerMovesWorking, ServerCreatesWorking, ServerRefusesWorking,
       MovedWorking, RefusedWorking
  <2>7. ASSUME NEW l \in Loads, ServerLists(l) \/ Listed(l) \/ ListFails(l) PROVE Working'
    BY <2>1, <2>7, ServerListsWorking, ListWorking
  <2>8. ASSUME Others PROVE Working'
    BY <2>1, <2>8, OthersWorking
  <2>9. QED
    BY <1>1, <2>2, <2>3, <2>4, <2>5, <2>6, <2>7, <2>8 DEF Next
<1>2. CASE UNCHANGED vars
  <2>1. /\ rows' = rows /\ list' = list /\ error' = error /\ page' = page /\ mount' = mount
        /\ creating' = creating /\ pending' = pending /\ drawer' = drawer /\ checked' = checked
        /\ posts' = posts /\ loads' = loads /\ moves' = moves
    BY <1>2 DEF vars, store, dialogs, requests
  <2>2. DialogsOK'
    BY <2>1, WorkingTypes, SameRowsAdvance, DialogsKept
  <2>3. QED
    BY <2>1, <2>2, WorkingTypes, DialogStep
<1>3. QED
  BY <1>1, <1>2

LEMMA AlwaysWorking == Spec => []Working
<1>1. Init => Working
  BY InitWorking
<1>2. Working /\ [Next]_vars => Working'
  BY NextWorking
<1>3. QED
  BY <1>1, <1>2, PTL DEF Spec

-----------------------------------------------------------------------------
(* The theorems.                                                           *)

(* Every variable keeps its type, for any number of requests and openings. *)
THEOREM TypeCorrect == Spec => []TypeOK
<1>1. Working => TypeOK
  BY DEF Working
<1>2. QED
  BY <1>1, AlwaysWorking, PTL

(* A move is made from the row the user saw when confirming it, and once,  *)
(* however often the lists were refreshed meanwhile and whatever the other *)
(* users did (MovesAsSeen). *)
THEOREM AlwaysMovesAsSeen == Spec => []MovesAsSeen
<1>1. Working => MovesAsSeen
  BY DEF Working, MovesOK
<1>2. QED
  BY <1>1, AlwaysWorking, PTL

(* A remote kind's move is sent only with its own review (RemoteReviewed). *)
THEOREM AlwaysRemoteReviewed == Spec => []RemoteReviewed
<1>1. Working => RemoteReviewed
  BY DEF Working, RequestOK, RemoteReviewed
<1>2. QED
  BY <1>1, AlwaysWorking, PTL

(* The drawer always stands over a move of the open page, whichever answer *)
(* came late (DrawerShowsMove). *)
THEOREM AlwaysDrawerShowsMove == Spec => []DrawerShowsMove
<1>1. Working => DrawerShowsMove
  BY DEF Working, DialogsOK, Sound, DrawerShowsMove
<1>2. QED
  BY <1>1, AlwaysWorking, PTL

(* The services refuse an offered move for its status only when the row    *)
(* went on since it was shown (RefusedOnlyWhenStale). *)
THEOREM AlwaysRefusedOnlyWhenStale == Spec => []RefusedOnlyWhenStale
<1>1. ASSUME Working PROVE RefusedOnlyWhenStale
  <2> SUFFICES ASSUME NEW p \in Posts, posts[p].at = "sent", posts[p].move # None,
                      Matches(rows[posts[p].move.key], posts[p].move.version)
               PROVE  Edge(page, rows[posts[p].move.key].status, posts[p].move.target)
    BY DEF RefusedOnlyWhenStale
  <2>1. Sound(posts[p].move)
    BY <1>1 DEF Working, RequestOK
  <2>2. QED
    BY <2>1 DEF Sound, Was, Matches
<1>2. QED
  BY <1>1, AlwaysWorking, PTL

(* A request that was made ends with its own list request only.            *)
LEMMA EndsWithReload ==
  ASSUME Working, Next, NEW p \in Posts,
         posts'[p].at = "done", posts[p].at \in {"moved", "reloading"}
  PROVE  \E l \in Loads : (Listed(l) \/ ListFails(l)) /\ loads[l].owner = p
<1>1. posts \in [Posts -> Post \union {NoPost}]
  BY WorkingTypes
<1>2. posts' # posts
  OBVIOUS
<1>3. ASSUME NEW q \in Posts, NEW new, posts' = [posts EXCEPT ![q] = new],
             posts[q].at \notin {"moved", "reloading"} \/ new.at # "done"
      PROVE  FALSE
  BY <1>1, <1>3
<1>4. ASSUME NEW move, SendPost(move) PROVE FALSE
  <2>1. PICK q \in Posts : posts[q] = NoPost /\ posts' = [posts EXCEPT ![q] = Sent(move)]
    BY <1>4 DEF SendPost
  <2>2. QED
    BY <1>3, <2>1, PostShapes
<1>5. ~(Open \/ Query \/ OpenCreate \/ CancelCreate \/ CancelMove \/ Tick \/ CancelReview
          \/ Others)
  BY <1>2 DEF Open, Query, OpenCreate, CancelCreate, CancelMove, Tick, CancelReview,
     Others, requests
<1>6. ~(ConfirmCreate \/ ConfirmMove \/ ConfirmReview)
  BY <1>2, <1>4 DEF ConfirmCreate, ConfirmMove, ConfirmReview, OpenDrawer, requests
<1>7. \A key \in Keys : ~Choose(key)
  BY <1>2 DEF Choose, requests
<1>8. ASSUME NEW q \in Posts, ServerMoves(q) \/ ServerCreates(q) PROVE FALSE
  <2>1. posts[q].at = "sent"
    BY <1>8 DEF ServerMoves, ServerCreates
  <2>2. PICK move, base : Made(q, move, base)
    BY <1>8 DEF ServerMoves, ServerCreates
  <2>3. PICK at : posts' = [posts EXCEPT ![q].at = at, ![q].move = move]
    BY <2>2 DEF Made
  <2>4. q # p
    BY <2>1
  <2>5. posts'[p] = posts[p]
    BY <1>1, <2>3, <2>4
  <2>6. QED
    BY <2>5
<1>9. ASSUME NEW q \in Posts, ServerRefuses(q) \/ Moved(q) \/ Refused(q) PROVE FALSE
  <2>1. CASE ServerRefuses(q)
    BY <1>1, <2>1 DEF ServerRefuses
  <2>2. CASE Moved(q)
    <3>1. posts[q].at = "moved" /\ posts' = [posts EXCEPT ![q].at = "reloading"]
      BY <2>2 DEF Moved
    <3>2. posts[q] \in Post
      BY <1>1, <3>1, PostShapes
    <3>3. [posts[q] EXCEPT !.at = "reloading"].at = "reloading"
      BY <3>2, PostAt DEF PostStages
    <3>4. QED
      BY <1>3, <3>1, <3>3
  <2>3. CASE Refused(q)
    BY <1>1, <2>3 DEF Refused
  <2>4. QED
    BY <1>9, <2>1, <2>2, <2>3
<1>10. \A l \in Loads : ~ServerLists(l)
  BY <1>2 DEF ServerLists
<1>11. PICK l \in Loads : Listed(l) \/ ListFails(l)
  BY <1>5, <1>6, <1>7, <1>8, <1>9, <1>10 DEF Next
<1>12. loads[l].owner = p
  <2>1. Ended(l) /\ loads[l].at \in {"sent", "answered"}
    BY <1>11 DEF Listed, ListFails
  <2>2. loads[l].owner \in Posts \union {None}
    BY <2>1, WorkingTypes, LoadShapes
  <2>3. CASE loads[l].owner = None
    BY <1>2, <2>1, <2>3 DEF Ended
  <2>4. CASE loads[l].owner # None
    <3>1. posts' = [posts EXCEPT ![loads[l].owner].at = "done"]
      BY <2>1, <2>4 DEF Ended
    <3>2. loads[l].owner \in Posts
      BY <2>2, <2>4
    <3>3. QED
      BY <1>1, <3>1, <3>2
  <2>5. QED
    BY <2>3, <2>4
<1>13. QED
  BY <1>11, <1>12

(* When a request ends as a success, its kind's list shows what it made or *)
(* a later version, or is full with other rows, or the row is gone, or an  *)
(* error is shown: the reload was sent after the write, the row only went  *)
(* on since, and the first page is filled before a row is left out         *)
(* (SuccessShown). *)
THEOREM AlwaysSuccessShown == Spec => SuccessShown
<1>1. Working /\ [Next]_vars =>
        [\A p \in Posts :
           posts'[p].at = "done" /\ posts[p].at \in {"moved", "reloading"} =>
             LET move == posts[p].move IN
             \/ list'[move.key].version > move.version
             \/ rows[move.key].life = "gone"
             \/ FullOfOthers(list', move.key)
             \/ error']_vars
  <2> SUFFICES ASSUME Working, Next, NEW p \in Posts,
                      posts'[p].at = "done", posts[p].at \in {"moved", "reloading"}
               PROVE  \/ list'[posts[p].move.key].version > posts[p].move.version
                      \/ rows[posts[p].move.key].life = "gone"
                      \/ FullOfOthers(list', posts[p].move.key)
                      \/ error'
    OBVIOUS
  <2>1. PICK l \in Loads : (Listed(l) \/ ListFails(l)) /\ loads[l].owner = p
    BY EndsWithReload
  <2>2. CASE ListFails(l)
    BY <2>2 DEF ListFails
  <2>3. CASE Listed(l)
    <3>1. loads[l].at = "answered" /\ list' = loads[l].table
      BY <2>3 DEF Listed
    <3>2. p # None
      BY WorkbenchAssumption
    <3>3. ReloadOK(l)
      BY DEF Working
    <3>4. QED
      BY <2>1, <3>1, <3>2, <3>3 DEF ReloadOK, FullOfOthers
  <2>4. QED
    BY <2>1, <2>2, <2>3
<1>2. QED
  BY <1>1, AlwaysWorking, PTL DEF Spec, SuccessShown
==============================================================================
