------------------------------ MODULE Workbench ------------------------------
(***************************************************************************)
(* The record pages of the web workbench (components/EntityPage.tsx with   *)
(* its dialogs, stores/factory.ts) between one user and the record         *)
(* services.  A page shows the rows of its kind's last list answer; a      *)
(* status is moved from a shown row through a dialog and, for remote       *)
(* kinds, the drawer with its checkbox; the POST names the version that    *)
(* was shown.  Requests overlap: the buttons stay enabled while one is     *)
(* under way, answers arrive in any order, also after the user went to     *)
(* another page, and other users change the rows as VersionedRecords       *)
(* allows.  The stores outlive the pages, the dialogs do not.              *)
(***************************************************************************)
EXTENDS Rows, Pages, Sequences

CONSTANTS
  DemoCode,  \* the code the creation dialog generates
  PageSize,  \* the rows a list request asks for
  Posts,     \* bound: the changing requests the user sends
  Loads,     \* bound: the list requests sent
  None,      \* no page, no dialog, no request
  MaxMounts, \* bound: how often the page is opened
  Leave(_, _) \* bound: the rows other users leave at a key

ASSUME WorkbenchAssumption ==
  /\ DemoCode \in Codes
  /\ PageSize \in Nat \ {0} /\ IsFiniteSet(Keys)
  /\ None \notin Posts
  /\ MaxMounts \in Nat

VARIABLES
  rows,     \* the tables behind the services
  list,     \* stores: the row last shown for each key, EmptyRow for none
  error,    \* stores: whether the kind's page shows an error text
  page,     \* the kind whose page the user works with
  mount,    \* how often it was opened so far
  creating, \* showCreate: the creation dialog is open
  pending,  \* the move dialog: a shown row and the status to move it to
  drawer,   \* remoteConfirm: the dialog gave way to the drawer
  checked,  \* its checkbox: None, or ticked, and for which move
  posts,    \* changing requests
  loads,    \* list requests
  moves     \* history: the moves the services made for this user

store == <<list, error>>
dialogs == <<creating, pending, drawer, checked>>
requests == <<posts, loads>>
vars == <<rows, store, page, mount, dialogs, requests, moves>>

Records == INSTANCE VersionedRecords WITH rows <- rows

-----------------------------------------------------------------------------
(* What a page offers.                                                     *)

(* Mutants: the inverters' list with two statuses swapped, with one renamed. *)
StatusListSwapped ==
  [kind \in EntityKinds |-> <<"online", "isolated", "tripped", "warning">>]

StatusListRenamed ==
  [kind \in EntityKinds |-> <<"online", "alert", "tripped", "isolated">>]

StatusList ==
  [SolarSite        |-> <<"online", "limited", "offline", "maintenance">>,
   InverterUnit     |-> <<"online", "warning", "tripped", "isolated">>,
   FaultEvent       |-> <<"open", "acknowledged", "mitigated", "closed">>,
   MitigationAction |-> <<"draft", "confirmed", "executing", "completed", "failed">>]

RemoteKinds == {"FaultEvent", "MitigationAction"}

(* nextStatus: the statuses that follow the shown one in the kind's list.  *)
Offered(kind, status) ==
  LET all == StatusList[kind] IN
  {all[n + 1] : n \in {m \in 1..(Len(all) - 1) : all[m] = status}}

(* A shown row and a target.  A creation has none until it is made: then   *)
(* its move leads from no row to version 1. *)
Move == [key : Keys, version : Nat, seen : AllStatuses \union {NoStatus},
         target : AllStatuses]
PostStages == {"sent", "moved", "refused", "reloading", "done"}
Post == [at : PostStages, mount : Nat, reviewed : Move \union {None},
         move : Move \union {None}]
NoPost == [at |-> "unused"]
Creation(p) == posts[p].move = None \/ posts[p].move.version = 0

Load == [at : {"sent"}, owner : Posts \union {None}]
          \union [at : {"answered"}, owner : Posts \union {None}, table : [Keys -> Row]]
NoLoad == [at |-> "unused"]
OldLoad == [at |-> "done"]

(* A list answer: of the live rows of the page's kind, the first page by   *)
(* updated_at.  That is a time of the process that wrote the row, and the  *)
(* clocks of processes differ: any rows may be the latest.                 *)
Live(table) == {key \in Keys : KindOf[key] = page /\ table[key].life = "live"}
FirstPages(table) == PagesAt(Live(table), Keys \X Keys, 1, PageSize)
Shown(table, items) == [key \in Keys |-> IF key \in items THEN table[key] ELSE EmptyRow]

Init ==
  /\ rows \in SeededTables
  /\ list = [key \in Keys |-> EmptyRow]
  /\ error = FALSE
  /\ page \in {KindOf[key] : key \in Keys} /\ mount = 0
  /\ creating = FALSE /\ pending = None /\ drawer = FALSE /\ checked = None
  /\ posts = [p \in Posts |-> NoPost]
  /\ loads = [l \in Loads |-> NoLoad]
  /\ moves = {}

-----------------------------------------------------------------------------
(* The user.  The dialogs cover the table, the tool bar and the buttons.   *)

SendLoad(owner) ==
  /\ \E l \in Loads :
       /\ loads[l] = NoLoad
       /\ loads' = [loads EXCEPT ![l] = [at |-> "sent", owner |-> owner]]
  /\ error' = FALSE

(* The page is mounted, after the user left it for another one: without    *)
(* the dialogs it had, and its effect loads. *)
Open ==
  /\ mount < MaxMounts /\ mount' = mount + 1
  /\ creating' = FALSE /\ pending' = None /\ drawer' = FALSE /\ checked' = None
  /\ SendLoad(None)
  /\ UNCHANGED <<rows, list, posts, moves>>

Uncovered == mount > 0 /\ pending = None /\ ~creating

(* The query and reset buttons.  Bound: a list request is left to others. *)
Query ==
  /\ Uncovered
  /\ \E k, l \in Loads : k # l /\ loads[k] = NoLoad /\ loads[l] = NoLoad
  /\ SendLoad(None)
  /\ UNCHANGED <<rows, list, mount, dialogs, posts, moves>>

(* Bound: one creation; its code would be free for one only. *)
Uncreated == \A p \in Posts : posts[p] # NoPost => ~Creation(p)

OpenCreate ==
  /\ Uncovered /\ Uncreated
  /\ creating' = TRUE
  /\ UNCHANGED <<rows, store, mount, pending, drawer, checked, requests, moves>>

CancelCreate ==
  /\ creating
  /\ creating' = FALSE
  /\ UNCHANGED <<rows, store, mount, pending, drawer, checked, requests, moves>>

Choose(key) ==
  /\ Uncovered /\ list[key].life = "live"
  /\ \E target \in Offered(page, list[key].status) :
       pending' = [key |-> key, version |-> list[key].version,
                   seen |-> list[key].status, target |-> target]
  /\ UNCHANGED <<rows, store, mount, creating, drawer, checked, requests, moves>>

CancelMove ==
  /\ pending # None /\ ~drawer
  /\ pending' = None
  /\ UNCHANGED <<rows, store, mount, creating, drawer, checked, requests, moves>>

Sent(move) == [at |-> "sent", mount |-> mount, move |-> move,
               reviewed |-> IF move = None THEN None ELSE checked]

(* Mutants: the POST names the version in the refreshed list; the drawer   *)
(* keeps its checkbox. *)
SendPostCurrent(move) ==
  \E p \in Posts :
    /\ posts[p] = NoPost
    /\ posts' = [posts EXCEPT ![p] =
         Sent(IF move = None THEN None
              ELSE [move EXCEPT !.version = list[move.key].version])]
    /\ error' = FALSE
    /\ UNCHANGED <<rows, list, mount, dialogs, loads, moves>>

OpenDrawerChecked ==
  /\ drawer' = TRUE
  /\ UNCHANGED <<rows, store, mount, creating, pending, checked, requests, moves>>

(* store.transition with the shown item, or store.createRecord. *)
SendPost(move) ==
  \E p \in Posts :
    /\ posts[p] = NoPost
    /\ posts' = [posts EXCEPT ![p] = Sent(move)]
    /\ error' = FALSE
    /\ UNCHANGED <<rows, list, mount, dialogs, loads, moves>>

ConfirmCreate ==
  /\ creating /\ Uncreated
  /\ SendPost(None)

(* The drawer's effect clears the checkbox whenever it opens. *)
OpenDrawer ==
  /\ drawer' = TRUE /\ checked' = None
  /\ UNCHANGED <<rows, store, mount, creating, pending, requests, moves>>

ConfirmMove ==
  /\ pending # None /\ ~drawer
  /\ IF page \in RemoteKinds THEN OpenDrawer ELSE SendPost(pending)

Tick ==
  /\ drawer
  /\ checked' = IF checked = None THEN pending ELSE None
  /\ UNCHANGED <<rows, store, mount, creating, pending, drawer, requests, moves>>

CancelReview ==
  /\ drawer /\ drawer' = FALSE
  /\ UNCHANGED <<rows, store, mount, creating, pending, checked, requests, moves>>

ConfirmReview == drawer /\ checked # None /\ SendPost(pending)

-----------------------------------------------------------------------------
(* The services, at the commit of their write.  Any request may fail, also *)
(* after its write: then the page is told nothing of it.                   *)

Made(p, move, base) ==
  /\ moves' = moves \union {[post |-> p, from |-> base.status, base |-> base.version]}
  /\ \E at \in {"moved", "refused"} :
       posts' = [posts EXCEPT ![p].at = at, ![p].move = move]
  /\ UNCHANGED <<store, mount, dialogs, loads>>

(* Transition: the expected version, an edge from the stored status. *)
ServerMoves(p) ==
  LET move == posts[p].move IN
  /\ posts[p].at = "sent" /\ move # None
  /\ Matches(rows[move.key], move.version)
  /\ Edge(page, rows[move.key].status, move.target)
  /\ rows' = [rows EXCEPT ![move.key] = Records!Moved(@, move.target)]
  /\ Made(p, move, rows[move.key])

(* Create. *)
ServerCreates(p) ==
  LET initial == Service[page].initial IN
  /\ posts[p].at = "sent" /\ posts[p].move = None
  /\ ~CodeTaken(rows, page, DemoCode)
  /\ \E key \in FreshKeys(rows, page) :
       /\ rows' = [rows EXCEPT ![key] = InsertedRow(DemoCode, initial, SeedData)]
       /\ Made(p, [key |-> key, version |-> 0, seen |-> NoStatus, target |-> initial],
               EmptyRow)

ServerRefuses(p) ==
  /\ posts[p].at = "sent"
  /\ posts' = [posts EXCEPT ![p].at = "refused"]
  /\ UNCHANGED <<rows, store, mount, dialogs, loads, moves>>

ServerLists(l) ==
  /\ loads[l].at = "sent"
  /\ \E items \in FirstPages(rows) :
       loads' = [loads EXCEPT ![l] =
         [at |-> "answered", owner |-> @.owner, table |-> Shown(rows, items)]]
  /\ UNCHANGED <<rows, store, mount, dialogs, posts, moves>>

(* Bounds: the rows of the page's kind, and what becomes of them. *)
Others ==
  /\ Records!Next
  /\ \A key \in Keys :
       rows'[key] # rows[key] => KindOf[key] = page /\ Leave(key, rows'[key])
  /\ UNCHANGED <<store, mount, dialogs, requests, moves>>

-----------------------------------------------------------------------------
(* The answers.                                                            *)

(* transition and createRecord await load before they return. *)
Moved(p) ==
  /\ posts[p].at = "moved"
  /\ posts' = [posts EXCEPT ![p].at = "reloading"]
  /\ SendLoad(p)
  /\ UNCHANGED <<rows, list, mount, dialogs, moves>>

Mounted(p) == posts[p].mount = mount

(* The catch of finalizeTransition closes the drawer only: the dialog      *)
(* stays, with the shown item.  createDemo leaves its dialog open. *)
Refused(p) ==
  /\ posts[p].at = "refused"
  /\ posts' = [posts EXCEPT ![p].at = "done"]
  /\ error' = TRUE
  /\ drawer' = (drawer /\ (Creation(p) \/ ~Mounted(p)))
  /\ UNCHANGED <<rows, list, mount, creating, pending, checked, loads, moves>>

(* Mutant: only the dialog is closed. *)
ClosedDrawerLeft(p) ==
  IF ~Mounted(p) THEN UNCHANGED dialogs
  ELSE IF Creation(p)
       THEN creating' = FALSE /\ UNCHANGED <<pending, drawer, checked>>
       ELSE pending' = None /\ UNCHANGED <<creating, drawer, checked>>

(* When a transition's own load ends, finalizeTransition closes whatever   *)
(* move dialog its page has open; createDemo closes the creation dialog.   *)
Closed(p) ==
  IF ~Mounted(p) THEN UNCHANGED dialogs
  ELSE IF Creation(p)
       THEN creating' = FALSE /\ UNCHANGED <<pending, drawer, checked>>
       ELSE pending' = None /\ drawer' = FALSE /\ UNCHANGED <<creating, checked>>

Ended(l) ==
  /\ loads' = [loads EXCEPT ![l] = OldLoad]
  /\ IF loads[l].owner = None THEN UNCHANGED <<dialogs, posts>>
     ELSE /\ Closed(loads[l].owner)
          /\ posts' = [posts EXCEPT ![loads[l].owner].at = "done"]
  /\ UNCHANGED <<rows, mount, moves>>

Listed(l) ==
  /\ loads[l].at = "answered"
  /\ list' = loads[l].table
  /\ UNCHANGED error
  /\ Ended(l)

(* Mutant: the error is dropped. *)
ListFailsSilently(l) ==
  /\ loads[l].at = "sent"
  /\ UNCHANGED store
  /\ Ended(l)

(* load catches its own errors: a failed reload ends as a success does.    *)
(* (That the answer is lost shows the page the same.)                      *)
ListFails(l) ==
  /\ loads[l].at = "sent"
  /\ error' = TRUE
  /\ UNCHANGED list
  /\ Ended(l)

Next ==
  /\ UNCHANGED page
  /\ \/ Open \/ Query \/ OpenCreate \/ CancelCreate \/ ConfirmCreate
     \/ \E key \in Keys : Choose(key)
     \/ CancelMove \/ ConfirmMove \/ Tick \/ CancelReview \/ ConfirmReview
     \/ \E p \in Posts : \/ ServerMoves(p) \/ ServerCreates(p) \/ ServerRefuses(p)
                         \/ Moved(p) \/ Refused(p)
     \/ \E l \in Loads : ServerLists(l) \/ Listed(l) \/ ListFails(l)
     \/ Others

Spec == Init /\ [][Next]_vars

-----------------------------------------------------------------------------
(* Properties.                                                             *)

TypeOK ==
  /\ rows \in [Keys -> Row] /\ list \in [Keys -> Row]
  /\ error \in BOOLEAN /\ page \in EntityKinds /\ mount \in 0..MaxMounts
  /\ creating \in BOOLEAN /\ drawer \in BOOLEAN
  /\ pending \in Move \union {None} /\ checked \in Move \union {None}
  /\ posts \in [Posts -> Post \union {NoPost}]
  /\ loads \in [Loads -> Load \union {NoLoad, OldLoad}]
  /\ \A m \in moves : /\ m.post \in Posts /\ m.base \in Nat
                      /\ m.from \in AllStatuses \union {NoStatus}

(* A move is made from the very row the user saw when confirming it, however
   often the list was refreshed and the row changed in between, and it is
   made once even if the button is pressed twice: "且使用版本号避免并发覆盖"
   (EntityPage.tsx:48). *)
MovesAsSeen ==
  /\ \A m \in moves : /\ m.from = posts[m.post].move.seen
                      /\ m.base = posts[m.post].move.version
  /\ \A m, n \in moves :
       posts[m.post].move.key = posts[n.post].move.key /\ m.base = n.base => m = n

(* A remote kind's move is only sent as its drawer was reviewed and ticked:
   "再勾选设备、影响范围和回退方案" (README.md:36).  The checkbox is cleared
   for each move, also when an answer that was still under way closed the
   dialogs in between, or the user left the page and came back. *)
RemoteReviewed ==
  \A p \in Posts :
    posts[p].at = "sent" /\ page \in RemoteKinds =>
      posts[p].reviewed = posts[p].move

(* The drawer always shows a move of the open page, and never next to the
   creation dialog: no late answer of an earlier request, or of a page that
   was left, leaves it open over none. *)
DrawerShowsMove ==
  drawer => pending # None /\ KindOf[pending.key] = page /\ ~creating

(* The list is full, and with other rows. *)
FullOfOthers(table, key) ==
  /\ table[key].life # "live"
  /\ Cardinality({k \in Keys : table[k].life = "live"}) = PageSize

(* When a request ends as a success, the list of its kind shows the move or
   the new row, or a later version, or no longer has the row -- or the page
   says that an error occurred, for load swallows its own.  Only the first
   page is listed (factory.ts:23): the row may be behind as many others as
   that page takes, which other users changed since, or with a faster clock;
   nothing less hides it. *)
SuccessShown ==
  [][\A p \in Posts :
       posts'[p].at = "done" /\ posts[p].at \in {"moved", "reloading"} =>
         LET move == posts[p].move IN
         \/ list'[move.key].version > move.version
         \/ rows[move.key].life = "gone"
         \/ FullOfOthers(list', move.key)
         \/ error']_vars

(* A move that was offered is refused for its status only when the row was
   changed since it was shown: the statuses of a version never change, and
   the page's lists have not drifted away from the services' graphs
   (constants/status.go:3). *)
RefusedOnlyWhenStale ==
  \A p \in Posts :
    posts[p].at = "sent" /\ posts[p].move # None =>
      LET move == posts[p].move IN
      Matches(rows[move.key], move.version) =>
        Edge(page, rows[move.key].status, move.target)
-----------------------------------------------------------------------------
(* The inductive invariant of the proofs.                                  *)

(* A row that once was this version, with this status. *)
Was(row, version, status) ==
  /\ row.life # "absent"
  /\ version <= row.version
  /\ version = row.version => status = row.status

(* Every row a list shows is of the page's kind and once was like that.    *)
FromServer(table) ==
  \A key \in Keys : table[key].life = "live" =>
    KindOf[key] = page /\ Was(rows[key], table[key].version, table[key].status)

(* A move that was offered: along an edge of the page's kind, from a row   *)
(* as it once was. *)
Sound(move) ==
  /\ KindOf[move.key] = page
  /\ Edge(page, move.seen, move.target)
  /\ Was(rows[move.key], move.version, move.seen)

(* The drawer stands over a move, never next to the creation dialog, and   *)
(* its checkbox is ticked for that move only. *)
DialogsOK ==
  /\ pending # None => ~creating /\ Sound(pending)
  /\ drawer => pending # None /\ checked \in {None, pending}

(* The request was made, and its row has gone on since. *)
Succeeded(p) ==
  /\ posts[p].move \in Move /\ KindOf[posts[p].move.key] = page
  /\ rows[posts[p].move.key].life # "absent"
  /\ rows[posts[p].move.key].version > posts[p].move.version

RequestOK(p) ==
  /\ posts[p].at = "sent" =>
       /\ posts[p].move # None => Sound(posts[p].move)
       /\ page \in RemoteKinds => posts[p].reviewed = posts[p].move
  /\ posts[p].at \in {"moved", "reloading"} => Succeeded(p)

(* A reload belongs to a request that was made, and its answer shows it.   *)
ReloadOK(l) ==
  LET p == loads[l].owner IN
  loads[l].at \in {"sent", "answered"} /\ p # None =>
    /\ posts[p].at \in {"reloading", "done"} /\ Succeeded(p)
    /\ loads[l].at = "answered" =>
         \/ loads[l].table[posts[p].move.key].version > posts[p].move.version
         \/ rows[posts[p].move.key].life = "gone"
         \/ FullOfOthers(loads[l].table, posts[p].move.key)

(* Each move was made once, by a request that is past it. *)
MovesOK ==
  /\ \A m \in moves :
       /\ posts[m.post].at \notin {"unused", "sent"} /\ posts[m.post].move \in Move
       /\ m.base < rows[posts[m.post].move.key].version
  /\ MovesAsSeen

Working ==
  /\ TypeOK
  /\ \A key \in Keys : rows[key].life = "absent" => rows[key].version = 0
  /\ FromServer(list)
  /\ \A l \in Loads : loads[l].at = "answered" => FromServer(loads[l].table)
  /\ DialogsOK
  /\ \A p \in Posts : RequestOK(p)
  /\ \A l \in Loads : ReloadOK(l)
  /\ MovesOK
=============================================================================
