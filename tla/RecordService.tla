---------------------------- MODULE RecordService ----------------------------
(***************************************************************************)
(* The four record services (service/solar_site.go, inverter_unit.go,      *)
(* fault_event.go, mitigation_action.go) over the generic store            *)
(* (repository/base.go) and the audit log (service/security.go,            *)
(* repository/security.go), with requests that overlap.                    *)
(*                                                                         *)
(* A request is one HTTP call handled by one goroutine.  Each of its SQL   *)
(* statements is one atomic step (GORM wraps every write in a transaction  *)
(* of its own); between two statements any other request may run.  No      *)
(* transaction spans two statements of a request:                          *)
(*                                                                         *)
(*   create                INSERT -> INSERT audit                          *)
(*   update, transition    SELECT -> UPDATE .. WHERE version = expected    *)
(*                                -> INSERT audit -> SELECT                *)
(*   delete                SELECT -> UPDATE deleted_at -> INSERT audit     *)
(***************************************************************************)
EXTENDS Rows, Sequences, FiniteSets

CONSTANTS
  Requests,   \* the calls of one behaviour; a retry is one more call
  Kinds,      \* the record kinds new records are created in
  Blank,      \* business fields with a blank code, name, facility or owner
  NoKey,      \* "no id yet": the id of a record before its INSERT
  GuessAhead, \* how far past the current version a caller's expectedVersion may be
  Faulty      \* whether statements fail, clients disconnect and the process crashes

ASSUME RequestsAssumption ==
  /\ Kinds \subseteq EntityKinds
  /\ Blank \notin Data
  /\ NoKey \notin Keys
  /\ GuessAhead \in Nat
  /\ Faulty \in BOOLEAN

VARIABLES
  rows,     \* the tables
  auditLog, \* the audit_logs table in insertion order
  pc,       \* the next statement of each request
  call,     \* its parameters
  item,     \* its local struct: the row it read, inserted or returns
  reply,    \* the answer handler/errors.go maps its result to
  effects   \* history: the committed writes

vars == <<rows, auditLog, pc, call, item, reply, effects>>

-----------------------------------------------------------------------------

Ops == {"create", "update", "transition", "delete"}
CasOps == {"update", "transition"}

PCs == {"idle", "start", "write", "audit", "reread", "done"}
Replies == {"none", "ok", "not_found", "conflict", "unprocessable", "internal", "lost"}

Targets == AllStatuses \union {"unknown"}
AuditStatuses == AllStatuses \union {NoStatus, "deleted"}

Call == [op : Ops \union {"none"}, kind : EntityKinds \union {"none"},
         key : Keys \union {NoKey}, expected : Nat,
         target : Targets \union {NoStatus},
         code : Codes \union {NoCode}, data : Data \union {Blank, NoData},
         confirmed : BOOLEAN]

NoCall == [op |-> "none", kind |-> "none", key |-> NoKey, expected |-> 0,
           target |-> NoStatus, code |-> NoCode, data |-> NoData,
           confirmed |-> FALSE]

AuditEntry == [req : Requests, op : Ops, key : Keys,
               before : AuditStatuses, after : AuditStatuses]

(* base is the version the write replaced. *)
Effect == [req : Requests, op : Ops, key : Keys, before : AuditStatuses,
           after : AuditStatuses, base : Nat]

Init ==
  /\ rows \in SeededTables
  /\ auditLog = << >>
  /\ pc = [r \in Requests |-> "idle"]
  /\ call = [r \in Requests |-> NoCall]
  /\ item = [r \in Requests |-> EmptyRow]
  /\ reply = [r \in Requests |-> "none"]
  /\ effects = {}

-----------------------------------------------------------------------------
(* Arrivals.  binding:"required" makes expectedVersion at least 1.  A      *)
(* caller that echoes a version it was given never exceeds the current     *)
(* one; GuessAhead lets it name a version that does not exist yet.         *)

Latest(key) == IF rows[key].version = 0 THEN 1 ELSE rows[key].version

Enter(r, c) ==
  /\ pc[r] = "idle"
  /\ pc' = [pc EXCEPT ![r] = "start"]
  /\ call' = [call EXCEPT ![r] = c]
  /\ UNCHANGED <<rows, auditLog, item, reply, effects>>

(* Bound: there is a key for every insert under way. *)
RoomFor(kind) ==
  LET inserting == {r \in Requests : /\ pc[r] = "start"
                                     /\ call[r].op = "create"
                                     /\ call[r].kind = kind}
  IN Cardinality(inserting) < Cardinality(FreshKeys(rows, kind))

ArriveCreate(r) ==
  \E kind \in Kinds, code \in Codes, data \in Data \union {Blank} :
    /\ RoomFor(kind)
    /\ Enter(r, [NoCall EXCEPT !.op = "create", !.kind = kind,
                               !.code = code, !.data = data])

ArriveUpdate(r) ==
  \E key \in Keys, data \in Data \union {Blank} :
    \E expected \in 1..(Latest(key) + GuessAhead) :
      Enter(r, [NoCall EXCEPT !.op = "update", !.kind = KindOf[key], !.key = key,
                              !.expected = expected, !.data = data])

ArriveTransition(r) ==
  \E key \in Keys, confirmed \in BOOLEAN :
    \E target \in Statuses(KindOf[key]) \union {"unknown"},
       expected \in 1..(Latest(key) + GuessAhead) :
      /\ Service[KindOf[key]].confirm \/ confirmed = FALSE
      /\ Enter(r, [NoCall EXCEPT !.op = "transition", !.kind = KindOf[key],
                                 !.key = key, !.expected = expected,
                                 !.target = target, !.confirmed = confirmed])

ArriveDelete(r) ==
  \E key \in Keys :
    Enter(r, [NoCall EXCEPT !.op = "delete", !.kind = KindOf[key], !.key = key])

Arrive(r) == ArriveCreate(r) \/ ArriveUpdate(r) \/ ArriveTransition(r) \/ ArriveDelete(r)

-----------------------------------------------------------------------------
(* How a step of a request ends: it goes on, or it answers.                *)

GoTo(r, label) == pc' = [pc EXCEPT ![r] = label] /\ UNCHANGED reply

Answer(r, answer) ==
  /\ pc' = [pc EXCEPT ![r] = "done"]
  /\ reply' = [reply EXCEPT ![r] = answer]

(* Mutant: Update returns its second Get without having audited. *)
CommittedUnaudited(r) ==
  IF call[r].op = "update" THEN GoTo(r, "reread") ELSE GoTo(r, "audit")

(* A write statement committed: the handler goes on to the audit, unless   *)
(* the acknowledgement was lost and the driver reported an error.          *)
Committed(r) == GoTo(r, "audit") \/ (Faulty /\ Answer(r, "internal"))

EffectOf(r, key, before, after, base) ==
  [req |-> r, op |-> call[r].op, key |-> key,
   before |-> before, after |-> after, base |-> base]

(* Checks made before any statement: Create validates the business fields, *)
(* a remote action's Transition asks for the second confirmation.          *)
Refusable(r) ==
  \/ call[r].op = "create" /\ call[r].data = Blank
  \/ /\ call[r].op = "transition"
     /\ Service[call[r].kind].confirm
     /\ ~call[r].confirmed

RefuseUnread(r) ==
  /\ pc[r] = "start" /\ Refusable(r)
  /\ Answer(r, "unprocessable")
  /\ UNCHANGED <<rows, auditLog, call, item, effects>>

(* Mutant: Transition does not consult the graph. *)
AcceptableUnchecked(r, row) == call[r].op = "update" => call[r].data # Blank

(* The checks made on the row just read. *)
Acceptable(r, row) ==
  /\ call[r].op = "update" => call[r].data # Blank
  /\ call[r].op = "transition" => Edge(call[r].kind, row.status, call[r].target)

(* repository.Get, then the checks. *)
Read(r) ==
  LET row == rows[call[r].key] IN
  /\ pc[r] = "start" /\ call[r].op # "create" /\ ~Refusable(r)
  /\ \/ /\ row.life # "live"
        /\ Answer(r, "not_found")
        /\ UNCHANGED item
     \/ /\ row.life = "live"
        /\ item' = [item EXCEPT ![r] = row]
        /\ IF Acceptable(r, row) THEN GoTo(r, "write")
                                 ELSE Answer(r, "unprocessable")
  /\ UNCHANGED <<rows, auditLog, call, effects>>

(* repository.Create: the primary key is new, the code must be. *)
Insert(r) ==
  LET kind == call[r].kind
      status == Service[kind].initial IN
  /\ pc[r] = "start" /\ call[r].op = "create" /\ ~Refusable(r)
  /\ ~CodeTaken(rows, kind, call[r].code)
  /\ \E key \in FreshKeys(rows, kind) :
       LET row == InsertedRow(call[r].code, status, call[r].data) IN
       /\ rows' = [rows EXCEPT ![key] = row]
       /\ call' = [call EXCEPT ![r].key = key]
       /\ item' = [item EXCEPT ![r] = row]
       /\ effects' = effects \union {EffectOf(r, key, NoStatus, status, 0)}
       /\ Committed(r)
  /\ UNCHANGED auditLog

(* A unique violation is an unmapped error. *)
InsertDuplicate(r) ==
  /\ pc[r] = "start" /\ call[r].op = "create" /\ ~Refusable(r)
  /\ CodeTaken(rows, call[r].kind, call[r].code)
  /\ Answer(r, "internal")
  /\ UNCHANGED <<rows, auditLog, call, item, effects>>

(* Mutant: the version is not advanced. *)
ChangedSameVersion(r) ==
  [item[r] EXCEPT
     !.version = call[r].expected,
     !.data    = IF call[r].op = "update" THEN call[r].data ELSE @,
     !.status  = IF call[r].op = "transition" THEN call[r].target ELSE @]

(* The snapshot with the request's changes, as Update and Transition build *)
(* it: the version is the caller's, not the snapshot's, plus one.          *)
Changed(r) ==
  [item[r] EXCEPT
     !.version = call[r].expected + 1,
     !.data    = IF call[r].op = "update" THEN call[r].data ELSE @,
     !.status  = IF call[r].op = "transition" THEN call[r].target ELSE @]

(* repository.Update. *)
Write(r) ==
  LET key == call[r].key
      row == rows[key] IN
  /\ pc[r] = "write" /\ call[r].op \in CasOps
  /\ Matches(row, call[r].expected)
  /\ rows' = [rows EXCEPT ![key] = Overwritten(row, Changed(r))]
  /\ effects' = effects \union
       {EffectOf(r, key, row.status, Changed(r).status, row.version)}
  /\ Committed(r)
  /\ UNCHANGED <<auditLog, call, item>>

(* Mutants: the conflict is audited as a change; the service retries it. *)
WriteConflictAudited(r) ==
  /\ pc[r] = "write" /\ call[r].op \in CasOps
  /\ ~Matches(rows[call[r].key], call[r].expected)
  /\ auditLog' = Append(auditLog,
       [req |-> r, op |-> call[r].op, key |-> call[r].key,
        before |-> item[r].status, after |-> Changed(r).status])
  /\ Answer(r, "conflict")
  /\ UNCHANGED <<rows, call, item, effects>>

WriteConflictRetried(r) ==
  /\ pc[r] = "write" /\ call[r].op \in CasOps
  /\ ~Matches(rows[call[r].key], call[r].expected)
  /\ GoTo(r, "start")
  /\ UNCHANGED <<rows, auditLog, call, item, effects>>

WriteConflict(r) ==
  /\ pc[r] = "write" /\ call[r].op \in CasOps
  /\ ~Matches(rows[call[r].key], call[r].expected)
  /\ Answer(r, "conflict")
  /\ UNCHANGED <<rows, auditLog, call, item, effects>>

(* Mutant: a hard delete, which frees the key and the code. *)
RemoveHard(r) ==
  LET key == call[r].key
      row == rows[key] IN
  /\ pc[r] = "write" /\ call[r].op = "delete"
  /\ row.life = "live"
  /\ rows' = [rows EXCEPT ![key] = EmptyRow]
  /\ effects' = effects \union {EffectOf(r, key, row.status, "deleted", row.version)}
  /\ Committed(r)
  /\ UNCHANGED <<auditLog, call, item>>

(* repository.Delete looks at no version. *)
Remove(r) ==
  LET key == call[r].key
      row == rows[key] IN
  /\ pc[r] = "write" /\ call[r].op = "delete"
  /\ row.life = "live"
  /\ rows' = [rows EXCEPT ![key].life = "gone"]
  /\ effects' = effects \union {EffectOf(r, key, row.status, "deleted", row.version)}
  /\ Committed(r)
  /\ UNCHANGED <<auditLog, call, item>>

RemoveMissing(r) ==
  /\ pc[r] = "write" /\ call[r].op = "delete"
  /\ rows[call[r].key].life # "live"
  /\ Answer(r, "not_found")
  /\ UNCHANGED <<rows, auditLog, call, item, effects>>

-----------------------------------------------------------------------------
(* Mutant: the status is taken after it was assigned. *)
BeforeAssigned(r) ==
  CASE call[r].op = "create"     -> NoStatus
    [] call[r].op = "transition" -> call[r].target
    [] OTHER                     -> item[r].status

(* The audit record is built from the request's own snapshot.              *)

Before(r) == IF call[r].op = "create" THEN NoStatus ELSE item[r].status

After(r) ==
  CASE call[r].op = "transition" -> call[r].target
    [] call[r].op = "delete"     -> "deleted"
    [] OTHER                     -> item[r].status

EntryOf(r) == [req |-> r, op |-> call[r].op, key |-> call[r].key,
               before |-> Before(r), after |-> After(r)]

(* Mutant: Transition and Delete drop Audit's error as Create and Update do. *)
AfterAuditIgnored(r, succeeded) ==
  IF call[r].op \in CasOps THEN GoTo(r, "reread") ELSE Answer(r, "ok")

(* What the handler does with the result of Audit: Create and Update drop  *)
(* an error, Transition and Delete report it.                              *)
AfterAudit(r, succeeded) ==
  CASE call[r].op = "create" -> Answer(r, "ok")
    [] call[r].op = "update" -> GoTo(r, "reread")
    [] call[r].op = "transition" ->
         IF succeeded THEN GoTo(r, "reread") ELSE Answer(r, "internal")
    [] call[r].op = "delete" ->
         IF succeeded THEN Answer(r, "ok") ELSE Answer(r, "internal")

Audit(r) ==
  /\ pc[r] = "audit"
  /\ auditLog' = Append(auditLog, EntryOf(r))
  /\ AfterAudit(r, TRUE)
  /\ UNCHANGED <<rows, call, item, effects>>

(* Update and Transition answer with a second Get. *)
Reread(r) ==
  LET row == rows[call[r].key] IN
  /\ pc[r] = "reread"
  /\ \/ /\ row.life # "live"
        /\ Answer(r, "not_found")
        /\ UNCHANGED item
     \/ /\ row.life = "live"
        /\ item' = [item EXCEPT ![r] = row]
        /\ Answer(r, "ok")
  /\ UNCHANGED <<rows, auditLog, call, effects>>

-----------------------------------------------------------------------------
(* Faults.  A statement fails without effect (the connection, a deadline,  *)
(* or the request context the client's disconnect cancels).                *)

StatementFails(r) ==
  /\ Faulty
  /\ pc[r] \in {"start", "write", "reread"}
  /\ ~(pc[r] = "start" /\ Refusable(r))
  /\ Answer(r, "internal")
  /\ UNCHANGED <<rows, auditLog, call, item, effects>>

(* The audit insert fails, or commits and its acknowledgement is lost. *)
AuditFails(r) ==
  /\ Faulty
  /\ pc[r] = "audit"
  /\ auditLog' \in {auditLog, Append(auditLog, EntryOf(r))}
  /\ AfterAudit(r, FALSE)
  /\ UNCHANGED <<rows, call, item, effects>>

InFlight(r) == pc[r] \notin {"idle", "done"}

(* The process dies: every request under way is lost with its locals.      *)
Crash ==
  /\ Faulty
  /\ \E r \in Requests : InFlight(r)
  /\ pc' = [r \in Requests |-> IF InFlight(r) THEN "done" ELSE pc[r]]
  /\ reply' = [r \in Requests |-> IF InFlight(r) THEN "lost" ELSE reply[r]]
  /\ UNCHANGED <<rows, auditLog, call, item, effects>>

-----------------------------------------------------------------------------

Serve(r) ==
  \/ RefuseUnread(r) \/ Read(r) \/ Insert(r) \/ InsertDuplicate(r)
  \/ Write(r) \/ WriteConflict(r) \/ Remove(r) \/ RemoveMissing(r)
  \/ Audit(r) \/ Reread(r)

Quiescent == \A r \in Requests : ~InFlight(r)

(* Every call of the behaviour has been made and answered. *)
Finished == (\A r \in Requests : pc[r] = "done") /\ UNCHANGED vars

Next ==
  \/ \E r \in Requests : Arrive(r) \/ Serve(r) \/ StatementFails(r) \/ AuditFails(r)
  \/ Crash
  \/ Finished

Spec == Init /\ [][Next]_vars

(* A goroutine that can take its next step takes it; callers need not call. *)
FairSpec == Spec /\ \A r \in Requests : WF_vars(Serve(r))
-----------------------------------------------------------------------------
(* Properties.                                                             *)

TypeOK ==
  /\ rows \in [Keys -> Row]
  /\ auditLog \in Seq(AuditEntry)
  /\ pc \in [Requests -> PCs]
  /\ call \in [Requests -> Call]
  /\ item \in [Requests -> Row]
  /\ reply \in [Requests -> Replies]
  /\ effects \in SUBSET Effect

CasEffects == {e \in effects : e.op \in CasOps}

(* An entry of the audit log tells of this committed write. *)
Tells(entry, e) == /\ entry.req = e.req /\ entry.op = e.op /\ entry.key = e.key
                   /\ entry.before = e.before /\ entry.after = e.after

Audited(e) == \E i \in DOMAIN auditLog : auditLog[i].req = e.req

(* Optimistic locking, for callers that echo a version they were given: the
   tables only change as VersionedRecords allows.  The read and the
   compare-and-swap of service Update/Transition are two statements, and the
   store overwrites every column from the snapshot (base.go:59-70), yet no
   write undoes a field or a status another request wrote in between, and
   every status change is an edge of the graph. *)
Records == INSTANCE VersionedRecords WITH rows <- rows
RecordsImplemented == Records!Spec

(* At most one request ever replaces a given version of a row, and each
   version was reached by exactly one: a retry of a call whose answer was
   lost cannot be applied twice (repository.Update's WHERE version). *)
VersionHistory ==
  /\ \A e \in CasEffects : e.base \in 1..(rows[e.key].version - 1)
  /\ \A e, f \in CasEffects : e.key = f.key /\ e.base = f.base => e = f
  /\ \A key \in Keys : \A v \in 1..(rows[key].version - 1) :
       \E e \in CasEffects : e.key = key /\ e.base = v

(* A removal as Delete tells of it: from the status its snapshot had, which a
   transition may have replaced before the row was removed. *)
TellsRemoval(entry, e) ==
  /\ entry.req = e.req /\ entry.op = "delete" /\ entry.key = e.key
  /\ entry.after = e.after
  /\ \/ entry.before = e.before
     \/ \E f \in effects : /\ f.op = "transition" /\ f.key = e.key
                           /\ f.before = entry.before /\ f.base < e.base

(* The audit log tells of committed writes only, of none twice, and truly: the
   "before" that Transition takes from its snapshot (service Transition,
   before := current.Status) is the status its UPDATE really replaced.  Only a
   removal, which looks at no version, may name an earlier status, one that a
   transition really replaced by the time the row was removed. *)
AuditTruthful ==
  /\ \A i \in DOMAIN auditLog :
       \E e \in effects : Tells(auditLog[i], e) \/ TellsRemoval(auditLog[i], e)
  /\ \A i, j \in DOMAIN auditLog : auditLog[i].req = auditLog[j].req => i = j

(* A caller told that its transition or deletion succeeded can find it in
   the audit log, whatever failed meanwhile: these two handlers do not
   ignore Audit's error. *)
OkIsAudited ==
  \A r \in Requests :
    reply[r] = "ok" /\ call[r].op \in {"transition", "delete"} =>
      \E e \in effects : e.req = r /\ Audited(e)

(* A caller answered 409 or 422 has changed nothing and left no audit
   record, so it may correct the call and repeat it. *)
RefusedLeavesNoTrace ==
  \A r \in Requests :
    reply[r] \in {"conflict", "unprocessable"} =>
      /\ \A e \in effects : e.req # r
      /\ \A i \in DOMAIN auditLog : auditLog[i].req # r

(* A 409 is never spurious: another request did change the row, or removed
   it, so that refreshing shows something new (handler/errors.go:19
   "record changed; refresh and retry"). *)
ConflictMeansProgress ==
  \A r \in Requests :
    reply[r] = "conflict" =>
      \/ rows[call[r].key].life = "gone"
      \/ \E e \in CasEffects : /\ e.key = call[r].key /\ e.req # r
                               /\ e.base >= call[r].expected

(* The row returned by a successful update or transition is the caller's own
   write or a later version, never an earlier one: the second Get of service
   Update/Transition runs outside the write's transaction. *)
ReadsOwnWrite ==
  \A r \in Requests :
    reply[r] = "ok" /\ call[r].op \in CasOps =>
      /\ item[r].version > call[r].expected
      /\ item[r].version = call[r].expected + 1 =>
           /\ call[r].op = "update" => item[r].data = call[r].data
           /\ call[r].op = "transition" => item[r].status = call[r].target

(* When nothing is under way, every committed write is in the audit log:
   "所有状态变化使用乐观锁并写入不可覆盖的审计日志" (README.md:35).  The
   write and its audit record are two transactions, so this needs that
   nothing fails between them. *)
ChangesAudited == Quiescent => \A e \in effects : Audited(e)

(* Every call is answered: no step of a handler waits for another request. *)
EveryCallAnswered == \A r \in Requests : (pc[r] = "start") ~> (pc[r] = "done")

(* Every committed write is audited in the end, when nothing fails. *)
EveryWriteAudited ==
  \A r \in Requests :
    (\E e \in effects : e.req = r) ~> (\E i \in DOMAIN auditLog : auditLog[i].req = r)
-----------------------------------------------------------------------------
(* The inductive invariant of the proofs.                                  *)

(* A call names what its operation needs. *)
CallOK(c) ==
  /\ c.op \in Ops
  /\ c.kind \in EntityKinds
  /\ c.op = "create" => c.code \in Codes /\ c.data \in Data \union {Blank}
  /\ c.op # "create" => c.key \in Keys /\ c.kind = KindOf[c.key]
  /\ c.op = "update" => c.data \in Data \union {Blank}
  /\ c.op \in CasOps => c.expected >= 1

(* What a request has established when it gets to each statement. *)
ProgressOK(r) ==
  /\ pc[r] # "idle" => CallOK(call[r])
  /\ pc[r] \in {"write", "audit", "reread"} => call[r].key \in Keys
  /\ pc[r] = "write" =>
       /\ call[r].op # "create"
       /\ item[r].status \in Statuses(call[r].kind) /\ item[r].data \in Data
       /\ call[r].op = "update" => call[r].data \in Data
  /\ pc[r] \in {"write", "audit"} /\ call[r].op = "transition" =>
       Edge(call[r].kind, item[r].status, call[r].target)

Shape == TypeOK /\ TableOK(rows) /\ \A r \in Requests : ProgressOK(r)

(* A snapshot as recent as the version the caller named: when the UPDATE
   finds that version, the row is still the one that was read. *)
FreshEnough(r) ==
  call[r].op \in CasOps =>
    /\ pc[r] = "start" => call[r].expected <= Latest(call[r].key)
    /\ pc[r] = "write" =>
         LET row == rows[call[r].key] IN
         /\ row.life # "absent"
         /\ call[r].expected <= item[r].version
         /\ item[r].version <= row.version
         /\ item[r].version = row.version =>
              item[r].status = row.status /\ item[r].data = row.data

Snapshots == \A r \in Requests : FreshEnough(r)

(* What each request has left behind when it gets to each statement, and
   when it is answered. *)
Wrote(r) == \E e \in effects : e.req = r
Logged(r) == \E i \in DOMAIN auditLog : auditLog[i].req = r

Trace(r) ==
  /\ pc[r] # "done" => reply[r] = "none"
  /\ pc[r] \in {"idle", "start", "write"} => ~Wrote(r)
  /\ pc[r] \in {"idle", "start", "write", "audit"} => ~Logged(r)
  /\ pc[r] \in {"audit", "reread"} => Wrote(r)
  /\ pc[r] = "reread" =>
       call[r].op \in CasOps /\ (call[r].op = "transition" => Logged(r))
  /\ reply[r] \in {"conflict", "unprocessable"} => ~Wrote(r) /\ ~Logged(r)
  /\ reply[r] = "conflict" => call[r].op \in CasOps
  /\ reply[r] = "ok" /\ call[r].op \in {"transition", "delete"} => Wrote(r) /\ Logged(r)

LoggedOnce ==
  \A i, j \in DOMAIN auditLog : auditLog[i].req = auditLog[j].req => i = j

Traces == LoggedOnce /\ \A r \in Requests : Trace(r)

(* A row at a later version than the one the request replaced, or with what
   the request wrote. *)
ShowsWrite(r, row) ==
  /\ row.version > call[r].expected
  /\ row.version = call[r].expected + 1 =>
       /\ call[r].op = "update" => row.data = call[r].data
       /\ call[r].op = "transition" => row.status = call[r].target

OwnWrite(r) ==
  call[r].op \in CasOps =>
    /\ pc[r] \in {"audit", "reread"} =>
         /\ rows[call[r].key].life # "absent"
         /\ ShowsWrite(r, rows[call[r].key])
    /\ reply[r] = "ok" => ShowsWrite(r, item[r])

OwnWrites == \A r \in Requests : OwnWrite(r)

(* The status a deletion read is still the row's, or a transition replaced
   it; the audit record a request is about to write tells of a write. *)
Truthful(entry) == \E e \in effects : Tells(entry, e) \/ TellsRemoval(entry, e)

Truth(r) ==
  /\ pc[r] = "write" /\ call[r].op = "delete" =>
       LET row == rows[call[r].key] IN
       /\ row.life # "absent"
       /\ \/ item[r].status = row.status
          \/ \E f \in effects : /\ f.op = "transition" /\ f.key = call[r].key
                                /\ f.before = item[r].status
                                /\ f.base < row.version
  /\ pc[r] = "audit" => Truthful(EntryOf(r))

Truths == /\ \A i \in DOMAIN auditLog : Truthful(auditLog[i])
          /\ \A r \in Requests : Truth(r)

(* When nothing fails, a committed write that is not audited is about to be. *)
AuditPending == \A e \in effects : Audited(e) \/ pc[e.req] = "audit"
==============================================================================
