-------------------------- MODULE RecordServiceProofs -------------------------
(***************************************************************************)
(* The shape of every state the record services reach: the types of all    *)
(* variables, the rows of the tables and what each request has established *)
(* when it gets to each of its statements.  Shape is inductive.            *)
(*                                                                         *)
(* From there, the record services implement VersionedRecords when no      *)
(* caller names a version that does not exist yet (GuessAhead = 0).  The   *)
(* argument: rows only move forward (RowsAdvance), hence the snapshot a    *)
(* request read is at least as recent as the version its caller named      *)
(* (Snapshots), hence an UPDATE that finds that version replaces exactly   *)
(* the row it was computed from.                                           *)
(*                                                                         *)
(* Next, what the versioned records promise of themselves, and that the    *)
(* services keep codes unique whatever versions their callers name.        *)
(*                                                                         *)
(* Last, what the histories say: the versions a row went through           *)
(* (VersionHistory), what a request that was refused, answered or read     *)
(* back left behind (Traces, OwnWrites), and that the audit log tells the  *)
(* truth (Truths).                                                         *)
(***************************************************************************)
EXTENDS RecordService, RowsProofs, SequenceTheorems

-----------------------------------------------------------------------------
(* Shape and typing.                                                       *)

LEMMA InitShape == Init => Shape
<1> SUFFICES ASSUME Init PROVE Shape
  OBVIOUS
<1>1. rows \in [Keys -> Row]
  BY SeededTablesOK DEF Init, TableOK
<1>2. NoCall \in Call
  BY DEF NoCall, Call
<1>3. TypeOK
  BY <1>1, <1>2, EmptyRowType DEF Init, TypeOK, PCs, Replies
<1>4. TableOK(rows)
  BY SeededTablesOK DEF Init
<1>5. \A r \in Requests : ProgressOK(r)
  BY DEF Init, ProgressOK
<1>6. QED
  BY <1>3, <1>4, <1>5 DEF Shape

(* An arriving call is well formed. *)
LEMMA EnterShape ==
  ASSUME Shape, NEW r \in Requests, NEW c \in Call, CallOK(c), Enter(r, c)
  PROVE  Shape'
<1>1. TypeOK'
  BY DEF Shape, TypeOK, Enter, PCs
<1>2. TableOK(rows')
  BY DEF Shape, Enter
<1>3. ASSUME NEW s \in Requests PROVE ProgressOK(s)'
  <2>1. CASE s = r
    BY <2>1 DEF Shape, TypeOK, Enter, ProgressOK
  <2>2. CASE s # r
    <3>1. pc'[s] = pc[s] /\ call'[s] = call[s] /\ item'[s] = item[s]
      BY <2>2 DEF Shape, TypeOK, Enter
    <3>2. QED
      BY <3>1 DEF Shape, ProgressOK
  <2>3. QED
    BY <2>1, <2>2
<1>4. QED
  BY <1>1, <1>2, <1>3 DEF Shape

(* Whatever arrives is a well-formed call, whose expected version is at
   most GuessAhead past the current one. *)
LEMMA ArrivingCall ==
  ASSUME Shape, NEW r \in Requests, Arrive(r)
  PROVE  \E c \in Call : /\ Enter(r, c) /\ CallOK(c)
                         /\ c.op \in CasOps =>
                              c.expected \in 1..(Latest(c.key) + GuessAhead)
<1>1. CASE ArriveCreate(r)
  <2>1. PICK kind \in Kinds, code \in Codes, data \in Data \union {Blank} :
          Enter(r, [NoCall EXCEPT !.op = "create", !.kind = kind,
                                  !.code = code, !.data = data])
    BY <1>1 DEF ArriveCreate
  <2> DEFINE c == [NoCall EXCEPT !.op = "create", !.kind = kind,
                                 !.code = code, !.data = data]
  <2>2. c \in Call /\ CallOK(c)
    BY RequestsAssumption DEF NoCall, Call, Ops, CasOps, CallOK
  <2>2a. c.op \notin CasOps
    BY DEF NoCall, CasOps
  <2>3. QED
    BY <2>1, <2>2, <2>2a
<1>2. CASE ArriveUpdate(r)
  <2>1. PICK key \in Keys, data \in Data \union {Blank} :
          \E expected \in 1..(Latest(key) + GuessAhead) :
            Enter(r, [NoCall EXCEPT !.op = "update", !.kind = KindOf[key],
                        !.key = key, !.expected = expected, !.data = data])
    BY <1>2 DEF ArriveUpdate
  <2>2. PICK expected \in 1..(Latest(key) + GuessAhead) :
          Enter(r, [NoCall EXCEPT !.op = "update", !.kind = KindOf[key],
                      !.key = key, !.expected = expected, !.data = data])
    BY <2>1
  <2> DEFINE c == [NoCall EXCEPT !.op = "update", !.kind = KindOf[key],
                     !.key = key, !.expected = expected, !.data = data]
  <2>3. expected \in Nat /\ expected >= 1
    BY RequestsAssumption DEF Latest, Shape, TypeOK, Row
  <2>4. c \in Call /\ CallOK(c)
    BY <2>3, KeysAssumption DEF NoCall, Call, Ops, CasOps, CallOK
  <2>4a. c.expected = expected /\ c.key = key
    BY DEF NoCall
  <2>5. QED
    BY <2>2, <2>4, <2>4a
<1>3. CASE ArriveTransition(r)
  <2>1. PICK key \in Keys, confirmed \in BOOLEAN :
          \E target \in Statuses(KindOf[key]) \union {"unknown"},
             expected \in 1..(Latest(key) + GuessAhead) :
            Enter(r, [NoCall EXCEPT !.op = "transition", !.kind = KindOf[key],
                        !.key = key, !.expected = expected, !.target = target,
                        !.confirmed = confirmed])
    BY <1>3 DEF ArriveTransition
  <2>2. PICK target \in Statuses(KindOf[key]) \union {"unknown"},
             expected \in 1..(Latest(key) + GuessAhead) :
          Enter(r, [NoCall EXCEPT !.op = "transition", !.kind = KindOf[key],
                      !.key = key, !.expected = expected, !.target = target,
                      !.confirmed = confirmed])
    BY <2>1
  <2> DEFINE c == [NoCall EXCEPT !.op = "transition", !.kind = KindOf[key],
                     !.key = key, !.expected = expected, !.target = target,
                     !.confirmed = confirmed]
  <2>3. expected \in Nat /\ expected >= 1
    BY RequestsAssumption DEF Latest, Shape, TypeOK, Row
  <2>4. target \in Targets
    BY KeysAssumption, ServiceStatuses DEF Targets
  <2>5. c \in Call /\ CallOK(c)
    BY <2>3, <2>4, KeysAssumption DEF NoCall, Call, Ops, CasOps, CallOK
  <2>5a. c.expected = expected /\ c.key = key
    BY DEF NoCall
  <2>6. QED
    BY <2>2, <2>5, <2>5a
<1>4. CASE ArriveDelete(r)
  <2>1. PICK key \in Keys :
          Enter(r, [NoCall EXCEPT !.op = "delete", !.kind = KindOf[key], !.key = key])
    BY <1>4 DEF ArriveDelete
  <2> DEFINE c == [NoCall EXCEPT !.op = "delete", !.kind = KindOf[key], !.key = key]
  <2>2. c \in Call /\ CallOK(c)
    BY KeysAssumption DEF NoCall, Call, Ops, CasOps, CallOK
  <2>2a. c.op \notin CasOps
    BY DEF NoCall, CasOps
  <2>3. QED
    BY <2>1, <2>2, <2>2a
<1>5. QED
  BY <1>1, <1>2, <1>3, <1>4 DEF Arrive

LEMMA ArriveShape ==
  ASSUME Shape, NEW r \in Requests, Arrive(r)
  PROVE  Shape'
  BY ArrivingCall, EnterShape

(* A step of one request leaves what the others have established. *)
LEMMA OthersProgress ==
  ASSUME Shape, NEW r \in Requests, NEW s \in Requests, s # r,
         NEW p, pc' = [pc EXCEPT ![r] = p],
         call' = call \/ \E c : call' = [call EXCEPT ![r] = c],
         item' = item \/ \E i : item' = [item EXCEPT ![r] = i]
  PROVE  ProgressOK(s)'
<1>1. pc'[s] = pc[s] /\ call'[s] = call[s] /\ item'[s] = item[s]
  BY DEF Shape, TypeOK
<1>2. QED
  BY <1>1 DEF Shape, ProgressOK

(* A request that answers without writing. *)
LEMMA AnswerShape ==
  ASSUME Shape, NEW r \in Requests, NEW a \in Replies, Answer(r, a),
         pc[r] # "idle", UNCHANGED <<rows, auditLog, call, item, effects>>
  PROVE  Shape'
<1>1. TypeOK'
  BY DEF Shape, TypeOK, Answer, PCs
<1>2. ProgressOK(r)'
  BY DEF Shape, TypeOK, Answer, ProgressOK
<1>3. ASSUME NEW s \in Requests PROVE ProgressOK(s)'
  BY <1>2, OthersProgress DEF Answer
<1>4. QED
  BY <1>1, <1>3 DEF Shape

LEMMA ReadShape ==
  ASSUME Shape, NEW r \in Requests, Read(r)
  PROVE  Shape'
<1> DEFINE row == rows[call[r].key]
<1>1. CallOK(call[r]) /\ call[r].op # "create" /\ pc[r] = "start"
  BY DEF Read, Shape, ProgressOK
<1>2. row \in Row /\ RowOK(call[r].key, row) /\ call[r].kind = KindOf[call[r].key]
  BY <1>1 DEF CallOK, Shape, TableOK
<1>3. CASE row.life # "live"
  BY <1>1, <1>3, AnswerShape DEF Read, Replies
<1>4. CASE row.life = "live" /\ ~Acceptable(r, row)
  <2>1. /\ item' = [item EXCEPT ![r] = row]
        /\ Answer(r, "unprocessable")
        /\ UNCHANGED <<rows, auditLog, call, effects>>
    BY <1>4 DEF Read
  <2>2. TypeOK'
    BY <1>2, <2>1 DEF Shape, TypeOK, Answer, PCs, Replies
  <2>3. ProgressOK(r)'
    BY <1>1, <2>1 DEF Shape, TypeOK, Answer, ProgressOK
  <2>4. ASSUME NEW s \in Requests PROVE ProgressOK(s)'
    BY <2>1, <2>3, OthersProgress DEF Answer
  <2>5. QED
    BY <2>1, <2>2, <2>4 DEF Shape
<1>5. CASE row.life = "live" /\ Acceptable(r, row)
  <2>1. /\ item' = [item EXCEPT ![r] = row]
        /\ GoTo(r, "write")
        /\ UNCHANGED <<rows, auditLog, call, effects>>
    BY <1>5 DEF Read
  <2>2. TypeOK'
    BY <1>2, <2>1 DEF Shape, TypeOK, GoTo, PCs
  <2>3. pc'[r] = "write" /\ call'[r] = call[r] /\ item'[r] = row
    BY <2>1 DEF Shape, TypeOK, GoTo
  <2>4. ProgressOK(r)'
    BY <1>1, <1>2, <1>5, <2>3 DEF ProgressOK, CallOK, RowOK, Acceptable
  <2>5. ASSUME NEW s \in Requests PROVE ProgressOK(s)'
    BY <2>1, <2>4, OthersProgress DEF GoTo
  <2>6. QED
    BY <2>1, <2>2, <2>5 DEF Shape
<1>6. QED
  BY <1>3, <1>4, <1>5

(* The ends of a committed write: both keep the request's progress, and the
   reply and label are of their types. *)
LEMMA CommittedShape ==
  ASSUME Shape, NEW r \in Requests, Committed(r)
  PROVE  /\ pc' \in [Requests -> PCs] /\ reply' \in [Requests -> Replies]
         /\ \E p \in {"audit", "done"} : pc' = [pc EXCEPT ![r] = p]
  BY DEF Shape, TypeOK, Committed, GoTo, Answer, PCs, Replies

LEMMA InsertShape ==
  ASSUME Shape, NEW r \in Requests, Insert(r)
  PROVE  Shape'
<1> DEFINE kind == call[r].kind
           status == Service[kind].initial
           row == InsertedRow(call[r].code, status, call[r].data)
<1>1. PICK key \in FreshKeys(rows, kind) :
        /\ rows' = [rows EXCEPT ![key] = row]
        /\ call' = [call EXCEPT ![r].key = key]
        /\ item' = [item EXCEPT ![r] = row]
        /\ effects' = effects \union {EffectOf(r, key, NoStatus, status, 0)}
        /\ Committed(r)
  BY DEF Insert
<1>2. /\ pc[r] = "start" /\ call[r].op = "create"
      /\ CallOK(call[r]) /\ call[r].data \in Data /\ call[r].code \in Codes
      /\ UNCHANGED auditLog
  BY DEF Insert, Refusable, Shape, ProgressOK, CallOK
<1>3. key \in Keys /\ KindOf[key] = kind /\ kind \in EntityKinds
  BY <1>2 DEF FreshKeys, CallOK
<1>4. status \in Statuses(kind) /\ status \in AllStatuses
  BY <1>3, ServiceStatuses
<1>5. row \in Row /\ RowOK(key, row)
  BY <1>2, <1>3, <1>4, InsertedRowOK
<1>6. TableOK(rows')
  BY <1>1, <1>3, <1>5, OneRowOK DEF Shape
<1>7. EffectOf(r, key, NoStatus, status, 0) \in Effect
  BY <1>2, <1>3, <1>4 DEF EffectOf, Effect, AuditStatuses, Ops
<1>8. /\ call'[r] = [call[r] EXCEPT !.key = key]
      /\ call'[r] \in Call
      /\ call' \in [Requests -> Call]
  <2>1. call \in [Requests -> Call] /\ call' = [call EXCEPT ![r].key = key]
    BY <1>1 DEF Shape, TypeOK
  <2>2. call'[r] = [call[r] EXCEPT !.key = key]
    BY <2>1
  <2>3. [call[r] EXCEPT !.key = key] \in Call
    BY <1>3, <2>1 DEF Call
  <2>4. QED
    BY <2>1, <2>2, <2>3
<1>9. TypeOK'
  <2>1. item' \in [Requests -> Row] /\ effects' \in SUBSET Effect
    BY <1>1, <1>5, <1>7 DEF Shape, TypeOK
  <2>2. auditLog' \in Seq(AuditEntry)
    BY <1>2 DEF Shape, TypeOK
  <2>3. QED
    BY <1>1, <1>6, <1>8, <2>1, <2>2, CommittedShape DEF TypeOK, TableOK
<1>10. ProgressOK(r)'
  <2>1. CallOK(call'[r]) /\ call'[r].op = "create" /\ call'[r].key = key
    BY <1>2, <1>8 DEF CallOK, Shape, TypeOK, Call
  <2>2. pc'[r] \in {"audit", "done"}
    BY <1>1, CommittedShape DEF Shape, TypeOK
  <2>3. QED
    BY <1>3, <2>1, <2>2 DEF ProgressOK
<1>11. ASSUME NEW s \in Requests PROVE ProgressOK(s)'
  BY <1>1, <1>10, CommittedShape, OthersProgress
<1>12. QED
  BY <1>6, <1>9, <1>11 DEF Shape

(* The struct Update and Transition write is a well-formed row's content. *)
LEMMA ChangedOK ==
  ASSUME Shape, NEW r \in Requests, pc[r] = "write", call[r].op \in CasOps
  PROVE  /\ Changed(r).status \in Statuses(call[r].kind)
         /\ Changed(r).status \in AllStatuses
         /\ call[r].op = "update" =>
              Changed(r).status = item[r].status /\ Changed(r).data = call[r].data
         /\ call[r].op = "transition" =>
              Changed(r).status = call[r].target /\ Changed(r).data = item[r].data
         /\ Changed(r).version = call[r].expected + 1
         /\ call[r].expected \in Nat /\ call[r].expected >= 1
<1>1. /\ item[r] \in Row /\ call[r] \in Call /\ CallOK(call[r])
      /\ item[r].status \in Statuses(call[r].kind)
      /\ call[r].op = "transition" =>
           Edge(call[r].kind, item[r].status, call[r].target)
  BY DEF Shape, TypeOK, ProgressOK
<1>2. call[r].kind \in EntityKinds
  BY <1>1 DEF CallOK
<1>3. call[r].op = "transition" => call[r].target \in Statuses(call[r].kind)
  BY <1>1, <1>2, GraphsClosed
<1>4. /\ Changed(r).version = call[r].expected + 1
      /\ Changed(r).status = IF call[r].op = "transition"
                             THEN call[r].target ELSE item[r].status
      /\ Changed(r).data = IF call[r].op = "update" THEN call[r].data ELSE item[r].data
  BY <1>1 DEF Changed, Row
<1>5. call[r].expected \in Nat /\ call[r].expected >= 1
  BY <1>1 DEF Call, CallOK
<1>6. QED
  BY <1>1, <1>2, <1>3, <1>4, <1>5, ServiceStatuses DEF CasOps

(* What the UPDATE does to the row it matches. *)
LEMMA WriteRow ==
  ASSUME Shape, NEW r \in Requests, Write(r)
  PROVE  LET key == call[r].key
             row == rows[key]
             new == Overwritten(row, Changed(r)) IN
         /\ key \in Keys /\ call[r].kind = KindOf[key]
         /\ pc[r] = "write" /\ call[r].op \in CasOps
         /\ row \in Row /\ row.life = "live" /\ row.version = call[r].expected
         /\ rows' = [rows EXCEPT ![key] = new]
         /\ new.life = "live" /\ new.code = row.code
         /\ new.status = Changed(r).status /\ new.version = row.version + 1
         /\ new.data = Changed(r).data
         /\ Changed(r).version = row.version + 1
         /\ row.version \in Nat /\ row.version >= 1
<1> DEFINE key == call[r].key
           row == rows[key]
<1>1. /\ key \in Keys /\ CallOK(call[r])
      /\ pc[r] = "write" /\ call[r].op \in CasOps
      /\ row.life = "live" /\ row.version = call[r].expected
      /\ rows' = [rows EXCEPT ![key] = Overwritten(row, Changed(r))]
  BY DEF Write, Matches, Shape, ProgressOK
<1>2. row \in Row /\ row.version \in Nat
  BY <1>1 DEF Shape, TypeOK, Row
<1>3. call[r].kind = KindOf[key]
  BY <1>1 DEF CallOK, CasOps
<1>4. Changed(r).version = row.version + 1 /\ row.version >= 1
  BY <1>1, ChangedOK
<1>5. QED
  BY <1>1, <1>2, <1>3, <1>4, OverwrittenColumns

LEMMA WriteShape ==
  ASSUME Shape, NEW r \in Requests, Write(r)
  PROVE  Shape'
<1> DEFINE key == call[r].key
           row == rows[key]
           new == Overwritten(row, Changed(r))
<1>1. /\ key \in Keys /\ call[r].kind = KindOf[key]
      /\ pc[r] = "write" /\ call[r].op \in CasOps
      /\ row \in Row /\ row.life = "live"
      /\ rows' = [rows EXCEPT ![key] = new]
      /\ Changed(r).version = row.version + 1
      /\ row.version \in Nat /\ row.version >= 1
  BY WriteRow
<1>2. /\ effects' = effects \union
           {EffectOf(r, key, row.status, Changed(r).status, row.version)}
      /\ Committed(r)
      /\ UNCHANGED <<auditLog, call, item>>
  BY DEF Write
<1>3. /\ Changed(r).status \in Statuses(KindOf[key])
      /\ Changed(r).status \in AllStatuses
  BY <1>1, ChangedOK
<1>4. /\ row.code \in Codes /\ row.status \in AllStatuses /\ row.data \in Data
  BY <1>1, KeysAssumption, ServiceStatuses DEF Shape, TableOK, RowOK
<1>5. Changed(r).data \in Data
  <2>1. CASE call[r].op = "update"
    BY <1>1, <2>1, ChangedOK DEF Shape, ProgressOK
  <2>2. CASE call[r].op = "transition"
    BY <1>1, <2>2, ChangedOK DEF Shape, ProgressOK
  <2>3. QED
    BY <1>1, <2>1, <2>2 DEF CasOps
<1>6. new \in Row /\ RowOK(key, new)
  <2>1. RowOK(key, row)
    BY <1>1 DEF Shape, TableOK
  <2>2. Changed(r).version \in Nat /\ Changed(r).version >= 1
    BY <1>1
  <2>3. QED
    BY <1>1, <1>3, <1>5, <2>1, <2>2, OverwrittenOK
<1>7. TableOK(rows')
  BY <1>1, <1>6, OneRowOK DEF Shape
<1>8. EffectOf(r, key, row.status, Changed(r).status, row.version) \in Effect
  BY <1>1, <1>3, <1>4 DEF EffectOf, Effect, AuditStatuses, Ops, CasOps
<1>9. TypeOK'
  <2>1. effects' \in SUBSET Effect
    BY <1>2, <1>8 DEF Shape, TypeOK
  <2>2. /\ auditLog' \in Seq(AuditEntry) /\ call' \in [Requests -> Call]
        /\ item' \in [Requests -> Row]
    BY <1>2 DEF Shape, TypeOK
  <2>3. QED
    BY <1>2, <1>7, <2>1, <2>2, CommittedShape DEF TypeOK, TableOK
<1>10. ProgressOK(r)'
  BY <1>1, <1>2, CommittedShape DEF Shape, TypeOK, ProgressOK
<1>11. ASSUME NEW s \in Requests PROVE ProgressOK(s)'
  BY <1>2, <1>10, CommittedShape, OthersProgress
<1>12. QED
  BY <1>7, <1>9, <1>11 DEF Shape

LEMMA RemoveShape ==
  ASSUME Shape, NEW r \in Requests, Remove(r)
  PROVE  Shape'
<1> DEFINE key == call[r].key
           row == rows[key]
           new == [row EXCEPT !.life = "gone"]
<1>1. /\ key \in Keys /\ pc[r] = "write" /\ call[r].op = "delete"
      /\ row.life = "live"
      /\ rows' = [rows EXCEPT ![key] = new]
      /\ effects' = effects \union {EffectOf(r, key, row.status, "deleted", row.version)}
      /\ Committed(r)
      /\ UNCHANGED <<auditLog, call, item>>
  BY DEF Remove, Shape, ProgressOK
<1>2. row \in Row /\ RowOK(key, row)
  BY <1>1 DEF Shape, TableOK
<1>3. new \in Row /\ RowOK(key, new)
  BY <1>1, <1>2 DEF Row, RowOK, Lives
<1>4. TableOK(rows')
  BY <1>1, <1>3, OneRowOK DEF Shape
<1>5. EffectOf(r, key, row.status, "deleted", row.version) \in Effect
  BY <1>1, <1>2 DEF EffectOf, Effect, AuditStatuses, Ops, Row
<1>6. TypeOK'
  <2>1. effects' \in SUBSET Effect
    BY <1>1, <1>5 DEF Shape, TypeOK
  <2>2. /\ auditLog' \in Seq(AuditEntry) /\ call' \in [Requests -> Call]
        /\ item' \in [Requests -> Row]
    BY <1>1 DEF Shape, TypeOK
  <2>3. QED
    BY <1>1, <1>4, <2>1, <2>2, CommittedShape DEF TypeOK, TableOK
<1>7. ProgressOK(r)'
  BY <1>1, CommittedShape DEF Shape, TypeOK, ProgressOK
<1>8. ASSUME NEW s \in Requests PROVE ProgressOK(s)'
  BY <1>1, <1>7, CommittedShape, OthersProgress
<1>9. QED
  BY <1>4, <1>6, <1>8 DEF Shape

(* The audit record a request writes has the columns' types. *)
LEMMA EntryType ==
  ASSUME Shape, NEW r \in Requests, pc[r] = "audit"
  PROVE  EntryOf(r) \in AuditEntry
<1>1. /\ item[r] \in Row /\ CallOK(call[r]) /\ call[r].key \in Keys
      /\ call[r].op = "transition" =>
           Edge(call[r].kind, item[r].status, call[r].target)
  BY DEF Shape, TypeOK, ProgressOK
<1>2. item[r].status \in AuditStatuses
  BY <1>1 DEF Row, AuditStatuses
<1>3. call[r].op = "transition" => call[r].target \in AuditStatuses
  BY <1>1, GraphsClosed, ServiceStatuses DEF CallOK, AuditStatuses
<1>4. Before(r) \in AuditStatuses
  BY <1>2 DEF Before, AuditStatuses
<1>5. After(r) \in AuditStatuses
  BY <1>2, <1>3 DEF After, AuditStatuses
<1>6. QED
  BY <1>1, <1>4, <1>5 DEF EntryOf, AuditEntry, CallOK

LEMMA AfterAuditShape ==
  ASSUME Shape, NEW r \in Requests, pc[r] = "audit",
         NEW ok \in BOOLEAN, AfterAudit(r, ok)
  PROVE  /\ pc' \in [Requests -> PCs] /\ reply' \in [Requests -> Replies]
         /\ \E p \in {"reread", "done"} : pc' = [pc EXCEPT ![r] = p]
<1>1. call[r].op \in Ops
  BY DEF Shape, ProgressOK, CallOK
<1>2. \/ GoTo(r, "reread")
      \/ Answer(r, "ok")
      \/ Answer(r, "internal")
  BY <1>1 DEF AfterAudit, Ops
<1>3. QED
  BY <1>2 DEF Shape, TypeOK, GoTo, Answer, PCs, Replies

LEMMA AuditShape ==
  ASSUME Shape, NEW r \in Requests, Audit(r) \/ AuditFails(r)
  PROVE  Shape'
<1>1. /\ pc[r] = "audit"
      /\ auditLog' \in {auditLog, Append(auditLog, EntryOf(r))}
      /\ \E ok \in BOOLEAN : AfterAudit(r, ok)
      /\ UNCHANGED <<rows, call, item, effects>>
  BY DEF Audit, AuditFails
<1>2. auditLog' \in Seq(AuditEntry)
  BY <1>1, EntryType DEF Shape, TypeOK
<1>3. /\ pc' \in [Requests -> PCs] /\ reply' \in [Requests -> Replies]
      /\ \E p \in {"reread", "done"} : pc' = [pc EXCEPT ![r] = p]
  BY <1>1, AfterAuditShape
<1>4. TypeOK'
  BY <1>1, <1>2, <1>3 DEF Shape, TypeOK
<1>5. ProgressOK(r)'
  BY <1>1, <1>3 DEF Shape, TypeOK, ProgressOK
<1>6. ASSUME NEW s \in Requests PROVE ProgressOK(s)'
  BY <1>1, <1>3, <1>5, OthersProgress
<1>7. QED
  BY <1>1, <1>4, <1>6 DEF Shape

LEMMA RereadShape ==
  ASSUME Shape, NEW r \in Requests, Reread(r)
  PROVE  Shape'
<1> DEFINE row == rows[call[r].key]
<1>1. row \in Row /\ pc[r] = "reread"
  BY DEF Reread, Shape, TypeOK, ProgressOK
<1>2. CASE row.life # "live"
  BY <1>1, <1>2, AnswerShape DEF Reread, Replies
<1>3. CASE row.life = "live"
  <2>1. /\ item' = [item EXCEPT ![r] = row]
        /\ Answer(r, "ok")
        /\ UNCHANGED <<rows, auditLog, call, effects>>
    BY <1>3 DEF Reread
  <2>2. TypeOK'
    BY <1>1, <2>1 DEF Shape, TypeOK, Answer, PCs, Replies
  <2>3. ProgressOK(r)'
    BY <1>1, <2>1 DEF Shape, TypeOK, Answer, ProgressOK
  <2>4. ASSUME NEW s \in Requests PROVE ProgressOK(s)'
    BY <2>1, <2>3, OthersProgress DEF Answer
  <2>5. QED
    BY <2>1, <2>2, <2>4 DEF Shape
<1>4. QED
  BY <1>2, <1>3

LEMMA CrashShape ==
  ASSUME Shape, Crash
  PROVE  Shape'
<1>1. TypeOK'
  BY DEF Shape, TypeOK, Crash, PCs, Replies
<1>2. ASSUME NEW s \in Requests PROVE ProgressOK(s)'
  BY DEF Shape, TypeOK, Crash, InFlight, ProgressOK
<1>3. QED
  BY <1>1, <1>2 DEF Shape, Crash

LEMMA NextShape == Shape /\ [Next]_vars => Shape'
<1> SUFFICES ASSUME Shape, [Next]_vars PROVE Shape'
  OBVIOUS
<1>1. ASSUME NEW r \in Requests, Arrive(r) PROVE Shape'
  BY <1>1, ArriveShape
<1>2. ASSUME NEW r \in Requests, Serve(r) PROVE Shape'
  <2>1. CASE RefuseUnread(r) \/ InsertDuplicate(r) \/ WriteConflict(r) \/ RemoveMissing(r)
    BY <2>1, AnswerShape
       DEF RefuseUnread, InsertDuplicate, WriteConflict, RemoveMissing, Replies
  <2>2. QED
    BY <1>2, <2>1, ReadShape, InsertShape, WriteShape, RemoveShape, AuditShape,
       RereadShape DEF Serve
<1>3. ASSUME NEW r \in Requests, StatementFails(r) PROVE Shape'
  BY <1>3, AnswerShape DEF StatementFails, Replies
<1>4. ASSUME NEW r \in Requests, AuditFails(r) PROVE Shape'
  BY <1>4, AuditShape
<1>5. CASE Crash
  BY <1>5, CrashShape
<1>6. CASE UNCHANGED vars
  BY <1>6 DEF vars, Shape, TypeOK, ProgressOK
<1>7. QED
  BY <1>1, <1>2, <1>3, <1>4, <1>5, <1>6 DEF Next, Finished

(* Every variable keeps its type, every row its columns' types, and every
   request has established what its next statement relies on. *)
THEOREM AlwaysShape == Spec => []Shape
  BY InitShape, NextShape, PTL DEF Spec

(* Type correctness of the record services' state. *)
THEOREM TypeCorrect == Spec => []TypeOK
<1>1. Shape => TypeOK
  BY DEF Shape
<1>2. QED
  BY <1>1, AlwaysShape, PTL

-----------------------------------------------------------------------------
(* Rows only move forward.                                                 *)

(* Only the three write statements touch the tables. *)
LEMMA RowsChange ==
  ASSUME [Next]_vars
  PROVE  UNCHANGED rows \/ \E r \in Requests : Insert(r) \/ Write(r) \/ Remove(r)
  BY DEF Next, vars, Finished, Crash, Arrive, ArriveCreate, ArriveUpdate,
     ArriveTransition, ArriveDelete, Enter, Serve, StatementFails, AuditFails,
     RefuseUnread, Read, InsertDuplicate, WriteConflict, RemoveMissing, Audit, Reread

(* What no step of any request takes back: a row stays stored, and as long
   as its version stays, so do its status and its fields. *)
Advances(key) ==
  /\ Latest(key) <= Latest(key)'
  /\ rows[key].version <= rows'[key].version
  /\ rows[key].life # "absent" =>
       /\ rows'[key].life # "absent"
       /\ rows'[key].version = rows[key].version =>
            rows'[key].status = rows[key].status /\ rows'[key].data = rows[key].data

LEMMA RowsAdvance ==
  ASSUME Shape, [Next]_vars, NEW key \in Keys
  PROVE  Advances(key)
<1>1. rows \in [Keys -> Row] /\ RowOK(key, rows[key]) /\ rows[key].version \in Nat
  BY DEF Shape, TableOK, Row
<1>2. CASE UNCHANGED rows
  BY <1>1, <1>2 DEF Advances, Latest
<1>3. ASSUME NEW r \in Requests, Insert(r) PROVE Advances(key)
  <2> DEFINE row == InsertedRow(call[r].code, Service[call[r].kind].initial, call[r].data)
  <2>0. row.version = 1
    BY DEF InsertedRow
  <2> HIDE DEF row
  <2>1. PICK k \in FreshKeys(rows, call[r].kind) : rows' = [rows EXCEPT ![k] = row]
    BY <1>3 DEF Insert, row
  <2>2. k \in Keys /\ rows[k].life = "absent" /\ rows[k].version = 0
    BY <2>1 DEF FreshKeys, Shape, TableOK, RowOK, EmptyRow
  <2>3. /\ rows'[k] = row
        /\ key # k => rows'[key] = rows[key]
    BY <1>1, <2>1, <2>2
  <2>4. QED
    BY <1>1, <2>0, <2>2, <2>3 DEF Advances, Latest
<1>4. ASSUME NEW r \in Requests, Write(r) PROVE Advances(key)
  <2>1. /\ call[r].key \in Keys /\ rows[call[r].key].version \in Nat
        /\ rows[call[r].key].version >= 1
        /\ rows'[call[r].key].life = "live"
        /\ rows'[call[r].key].version = rows[call[r].key].version + 1
        /\ key # call[r].key => rows'[key] = rows[key]
    BY <1>1, <1>4, WriteRow
  <2>2. QED
    BY <1>1, <2>1 DEF Advances, Latest
<1>5. ASSUME NEW r \in Requests, Remove(r) PROVE Advances(key)
  <2>1. /\ rows'[key].version = rows[key].version
        /\ rows'[key].status = rows[key].status /\ rows'[key].data = rows[key].data
        /\ rows[key].life # "absent" => rows'[key].life # "absent"
    BY <1>1, <1>5 DEF Remove, Row
  <2>2. QED
    BY <1>1, <2>1 DEF Advances, Latest
<1>6. UNCHANGED rows \/ \E r \in Requests : Insert(r) \/ Write(r) \/ Remove(r)
  BY RowsChange
<1>7. QED
  BY <1>2, <1>3, <1>4, <1>5, <1>6

-----------------------------------------------------------------------------
(* Snapshots are fresh enough when no caller guesses.                      *)

LEMMA InitSnapshots == Init => Snapshots
  BY DEF Init, Snapshots, FreshEnough

(* A request whose label, call and snapshot a step leaves alone. *)
LEMMA SnapshotKept ==
  ASSUME Shape, Snapshots, [Next]_vars, NEW s \in Requests,
         pc'[s] = pc[s] \/ pc'[s] \notin {"start", "write"},
         call'[s].op = call[s].op, call'[s].expected = call[s].expected,
         pc'[s] = pc[s] => call'[s].key = call[s].key /\ item'[s] = item[s]
  PROVE  FreshEnough(s)'
<1>1. CASE pc'[s] \notin {"start", "write"}
  BY <1>1 DEF FreshEnough
<1>2. CASE pc'[s] = pc[s] /\ pc[s] \in {"start", "write"} /\ call[s].op \in CasOps
  <2>0. call[s].key \in Keys
    BY <1>2 DEF Shape, ProgressOK, CallOK, CasOps
  <2>1. PICK key \in Keys : key = call[s].key /\ key = call'[s].key
    BY <1>2, <2>0
  <2>1a. call[s].expected \in Nat /\ item[s].version \in Nat
    BY DEF Shape, TypeOK, Call, Row
  <2>2. Advances(key) /\ FreshEnough(s)
    BY <2>1, RowsAdvance DEF Snapshots
  <2>3. /\ rows[key].version \in Nat /\ rows'[key].version \in Nat
        /\ Latest(key) \in Nat /\ Latest(key)' \in Nat
    <3>1. Shape'
      BY NextShape
    <3>2. QED
      BY <2>1, <3>1 DEF Shape, TypeOK, Row, Latest
  <2>4. CASE pc[s] = "start"
    BY <1>2, <2>1, <2>1a, <2>2, <2>3, <2>4 DEF FreshEnough, Advances
  <2>5. CASE pc[s] = "write"
    BY <1>2, <2>1, <2>1a, <2>2, <2>3, <2>5 DEF FreshEnough, Advances
  <2>6. QED
    BY <1>2, <2>4, <2>5
<1>3. CASE call[s].op \notin CasOps
  BY <1>3 DEF FreshEnough
<1>4. QED
  BY <1>1, <1>2, <1>3

LEMMA NextSnapshots ==
  ASSUME GuessAhead = 0, Shape, Snapshots, [Next]_vars
  PROVE  Snapshots'
<1> SUFFICES ASSUME NEW s \in Requests PROVE FreshEnough(s)'
  BY DEF Snapshots
<1> USE DEF Shape, TypeOK
<1>1. ASSUME NEW r \in Requests, Arrive(r) PROVE FreshEnough(s)'
  <2>1. PICK c \in Call : Enter(r, c) /\ (c.op \in CasOps => c.expected <= Latest(c.key))
    <3>1. PICK c \in Call :
            /\ Enter(r, c) /\ CallOK(c)
            /\ c.op \in CasOps => c.expected \in 1..(Latest(c.key) + GuessAhead)
      BY <1>1, ArrivingCall
    <3>2. c.op \in CasOps => c.key \in Keys /\ Latest(c.key) \in Nat
      BY <3>1 DEF CallOK, CasOps, Latest, Row
    <3>3. QED
      BY <3>1, <3>2
  <2>2. CASE s = r
    <3>1. pc'[s] = "start" /\ call'[s] = c /\ rows' = rows
      BY <2>1, <2>2 DEF Enter
    <3>2. QED
      BY <2>1, <3>1 DEF FreshEnough, Latest
  <2>3. CASE s # r
    BY <2>1, <2>3, SnapshotKept DEF Enter
  <2>4. QED
    BY <2>2, <2>3
<1>2. ASSUME NEW r \in Requests, Read(r) PROVE FreshEnough(s)'
  <2>1. CASE s = r
    <3> DEFINE row == rows[call[r].key]
    <3>1. /\ call' = call /\ rows' = rows /\ pc[r] = "start"
          /\ pc'[r] \in {"write", "done"}
          /\ pc'[r] = "write" => row.life = "live" /\ item'[r] = row
      BY <1>2 DEF Read, GoTo, Answer
    <3>2. CASE pc'[r] = "done" \/ call[r].op \notin CasOps
      BY <2>1, <3>1, <3>2 DEF FreshEnough
    <3>3. CASE pc'[r] = "write" /\ call[r].op \in CasOps
      <4>1. /\ call[r].expected <= Latest(call[r].key)
            /\ call[r].key \in Keys
        BY <3>1, <3>3 DEF Snapshots, FreshEnough, ProgressOK, CallOK, CasOps
      <4>2. row.version \in Nat /\ row.version >= 1
        BY <3>1, <3>3, <4>1 DEF TableOK, RowOK, Row
      <4>3. QED
        BY <2>1, <3>1, <3>3, <4>1, <4>2 DEF FreshEnough, Latest
    <3>4. QED
      BY <3>1, <3>2, <3>3
  <2>2. CASE s # r
    BY <1>2, <2>2, SnapshotKept DEF Read, GoTo, Answer
  <2>3. QED
    BY <2>1, <2>2
<1>3. ASSUME NEW r \in Requests, Insert(r) PROVE FreshEnough(s)'
  <2>1. /\ pc'[s] = pc[s] \/ pc'[s] \notin {"start", "write"}
        /\ pc'[s] = pc[s] => s # r
    BY <1>3, CommittedShape DEF Insert
  <2>2. /\ call'[s].op = call[s].op /\ call'[s].expected = call[s].expected
        /\ s # r => call'[s].key = call[s].key /\ item'[s] = item[s]
    BY <1>3 DEF Insert, Call
  <2>3. QED
    BY <2>1, <2>2, SnapshotKept
<1>4. ASSUME NEW r \in Requests, Write(r) \/ Remove(r) PROVE FreshEnough(s)'
  BY <1>4, CommittedShape, SnapshotKept DEF Write, Remove
<1>5. ASSUME NEW r \in Requests, Audit(r) \/ AuditFails(r) PROVE FreshEnough(s)'
  BY <1>5, AfterAuditShape, SnapshotKept DEF Audit, AuditFails
<1>6. ASSUME NEW r \in Requests,
             \/ RefuseUnread(r) \/ InsertDuplicate(r) \/ WriteConflict(r)
             \/ RemoveMissing(r) \/ Reread(r) \/ StatementFails(r)
      PROVE  FreshEnough(s)'
  BY <1>6, SnapshotKept DEF RefuseUnread, InsertDuplicate, WriteConflict,
     RemoveMissing, Reread, StatementFails, Answer
<1>7. CASE Crash
  BY <1>7, SnapshotKept DEF Crash
<1>8. CASE UNCHANGED vars
  BY <1>8, SnapshotKept DEF vars
<1>9. QED
  BY <1>1, <1>2, <1>3, <1>4, <1>5, <1>6, <1>7, <1>8 DEF Next, Serve, Finished

THEOREM AlwaysFreshEnough ==
  ASSUME GuessAhead = 0
  PROVE  Spec => []Snapshots
<1>1. Shape /\ Snapshots /\ [Next]_vars => Snapshots'
  BY NextSnapshots
<1>2. QED
  BY <1>1, InitSnapshots, AlwaysShape, PTL DEF Spec

-----------------------------------------------------------------------------
(* Refinement.                                                             *)

(* The instance's operators are the module's own. *)
LEMMA SameServices ==
  ASSUME NEW kind, NEW from, NEW to
  PROVE  /\ Records!Service[kind].initial = Service[kind].initial
         /\ Records!Service[kind].seeds = Service[kind].seeds
         /\ Records!Statuses(kind) = Statuses(kind)
         /\ Records!Edge(kind, from, to) = Edge(kind, from, to)
  BY DEF Records!Service, Service, Records!Statuses, Statuses, Records!Edge, Edge,
     Records!CanTransition, CanTransition,
     Records!SolarSiteService, SolarSiteService,
     Records!SolarSiteTransitions, SolarSiteTransitions,
     Records!InverterUnitService, InverterUnitService,
     Records!InverterUnitTransitions, InverterUnitTransitions,
     Records!FaultEventService, FaultEventService,
     Records!FaultEventTransitions, FaultEventTransitions,
     Records!MitigationActionService, MitigationActionService,
     Records!MitigationActionTransitions, MitigationActionTransitions

LEMMA InsertRefines ==
  ASSUME Shape, NEW r \in Requests, Insert(r)
  PROVE  \E key \in Keys : Records!Create(key)
<1> DEFINE kind == call[r].kind
<1>1. PICK key \in FreshKeys(rows, kind) :
        rows' = [rows EXCEPT ![key] =
                   InsertedRow(call[r].code, Service[kind].initial, call[r].data)]
  BY DEF Insert
<1>2. key \in Keys /\ KindOf[key] = kind /\ rows[key].life = "absent"
  BY DEF FreshKeys
<1>3. call[r].code \in Codes /\ call[r].data \in Data
  BY DEF Insert, Refusable, Shape, ProgressOK, CallOK
<1>4. ~Records!CodeTaken(rows, KindOf[key], call[r].code)
  BY <1>2 DEF Insert, CodeTaken, Records!CodeTaken
<1>5. rows' = [rows EXCEPT ![key] =
                 Records!InsertedRow(call[r].code,
                                     Records!Service[KindOf[key]].initial,
                                     call[r].data)]
  BY <1>1, <1>2, SameServices DEF InsertedRow, Records!InsertedRow
<1>6. QED
  BY <1>2, <1>3, <1>4, <1>5 DEF Records!Create

(* The snapshot a matching UPDATE writes from is the row it replaces: the
   version read cannot be older than the one the caller named, nor newer
   than the one the UPDATE found, which is the one the caller named. *)
LEMMA WriteFromCurrent ==
  ASSUME Shape, Snapshots, NEW r \in Requests, Write(r)
  PROVE  /\ item[r].status = rows[call[r].key].status
         /\ item[r].data = rows[call[r].key].data
<1>1. /\ pc[r] = "write" /\ call[r].op \in CasOps
      /\ rows[call[r].key].version = call[r].expected
  BY WriteRow
<1>2. /\ call[r].expected \in Nat /\ item[r].version \in Nat
  BY DEF Shape, TypeOK, Call, Row
<1>3. FreshEnough(r)
  BY DEF Snapshots
<1>4. QED
  BY <1>1, <1>2, <1>3 DEF FreshEnough

LEMMA SameStatusOverwrite ==
  ASSUME NEW row \in Row, NEW new, new.status = row.status,
         new.version = row.version + 1
  PROVE  Overwritten(row, new) = Records!Edited(row, new.data)
  BY DEF Overwritten, Records!Edited, Row

LEMMA SameDataOverwrite ==
  ASSUME NEW row \in Row, NEW new, new.data = row.data,
         new.version = row.version + 1
  PROVE  Overwritten(row, new) = Records!Moved(row, new.status)
  BY DEF Overwritten, Records!Moved, Row

LEMMA WriteRefines ==
  ASSUME Shape, Snapshots, NEW r \in Requests, Write(r)
  PROVE  \E key \in Keys : Records!Edit(key) \/ Records!Move(key)
<1> DEFINE key == call[r].key
           row == rows[key]
<1>1. /\ key \in Keys /\ call[r].kind = KindOf[key] /\ pc[r] = "write"
      /\ row \in Row /\ row.life = "live"
      /\ rows' = [rows EXCEPT ![key] = Overwritten(row, Changed(r))]
      /\ Changed(r).version = row.version + 1
      /\ call[r].op \in CasOps
  BY WriteRow
<1>2. item[r].status = row.status /\ item[r].data = row.data
  BY WriteFromCurrent
<1>3. CASE call[r].op = "update"
  <2>1. Changed(r).status = row.status /\ Changed(r).data \in Data
    BY <1>1, <1>2, <1>3, ChangedOK DEF Shape, ProgressOK
  <2>2. rows' = [rows EXCEPT ![key] = Records!Edited(row, Changed(r).data)]
    BY <1>1, <2>1, SameStatusOverwrite
  <2>3. QED
    BY <1>1, <2>1, <2>2 DEF Records!Edit
<1>4. CASE call[r].op = "transition"
  <2>1. Changed(r).status = call[r].target /\ Changed(r).data = row.data
    BY <1>1, <1>2, <1>4, ChangedOK
  <2>2. Edge(KindOf[key], row.status, call[r].target)
    BY <1>1, <1>2, <1>4 DEF Shape, ProgressOK
  <2>3. call[r].target \in Statuses(KindOf[key])
    BY <1>1, <2>2, GraphsClosed, KeysAssumption
  <2>4. rows' = [rows EXCEPT ![key] = Records!Moved(row, call[r].target)]
    BY <1>1, <2>1, SameDataOverwrite
  <2>5. /\ call[r].target \in Records!Statuses(KindOf[key])
        /\ Records!Edge(KindOf[key], row.status, call[r].target)
    BY <2>2, <2>3, SameServices
  <2>6. Records!Move(key)
    BY <1>1, <2>4, <2>5 DEF Records!Move
  <2>7. QED
    BY <1>1, <2>6
<1>5. QED
  BY <1>1, <1>3, <1>4 DEF CasOps

LEMMA RemoveRefines ==
  ASSUME Shape, NEW r \in Requests, Remove(r)
  PROVE  \E key \in Keys : Records!Remove(key)
  BY DEF Remove, Records!Remove, Shape, ProgressOK

LEMMA StepRefines ==
  ASSUME Shape, Snapshots, [Next]_vars
  PROVE  [Records!Next]_rows
<1>1. ASSUME NEW r \in Requests, Insert(r) PROVE Records!Next
  BY <1>1, InsertRefines DEF Records!Next
<1>2. ASSUME NEW r \in Requests, Write(r) PROVE Records!Next
  BY <1>2, WriteRefines DEF Records!Next
<1>3. ASSUME NEW r \in Requests, Remove(r) PROVE Records!Next
  BY <1>3, RemoveRefines DEF Records!Next
<1>4. UNCHANGED rows \/ \E r \in Requests : Insert(r) \/ Write(r) \/ Remove(r)
  BY RowsChange
<1>5. QED
  BY <1>1, <1>2, <1>3, <1>4

(* The instance's rows and tables are the module's own. *)
LEMMA SameTables ==
  /\ Records!SeededTables = SeededTables
  /\ Records!EmptyRow = EmptyRow
  /\ \A code, status, data :
       Records!InsertedRow(code, status, data) = InsertedRow(code, status, data)
<1>1. Records!SeedStatus = SeedStatus
  <2>1. Records!AllStatuses = AllStatuses
    BY SameServices DEF AllStatuses, Records!AllStatuses, EntityKinds, Records!EntityKinds
  <2>2. QED
    BY <2>1, SameServices DEF SeedStatus, Records!SeedStatus
<1>2. \A code, status, data :
        Records!InsertedRow(code, status, data) = InsertedRow(code, status, data)
  BY DEF InsertedRow, Records!InsertedRow
<1>3. Records!EmptyRow = EmptyRow
  BY DEF EmptyRow, Records!EmptyRow
<1>4. Records!SeededTables = SeededTables
  BY <1>1, <1>2, <1>3 DEF SeededTables, Records!SeededTables
<1>5. QED
  BY <1>2, <1>3, <1>4

LEMMA SameTableOK ==
  ASSUME NEW table
  PROVE  Records!TableOK(table) <=> TableOK(table)
<1>1. Records!Row = Row
  <2>1. Records!AllStatuses = AllStatuses
    BY SameServices DEF AllStatuses, Records!AllStatuses, EntityKinds, Records!EntityKinds
  <2>2. QED
    BY <2>1 DEF Row, Records!Row, Lives, Records!Lives
<1>2. ASSUME NEW key, NEW row PROVE Records!RowOK(key, row) <=> RowOK(key, row)
  BY SameTables, SameServices DEF RowOK, Records!RowOK
<1>3. QED
  BY <1>1, <1>2 DEF TableOK, Records!TableOK

LEMMA InitRefines == Init => Records!Init
  BY SameTables DEF Init, Records!Init

(* The record services implement the versioned records: when every caller
   names a version it was given (GuessAhead = 0), each step of the services
   is a step of VersionedRecords or leaves the rows alone, whatever overlaps,
   fails or crashes. *)
THEOREM RecordServiceImplementsRecords ==
  ASSUME GuessAhead = 0
  PROVE  Spec => RecordsImplemented
<1>1. Shape /\ Snapshots /\ [Next]_vars => [Records!Next]_rows
  BY StepRefines
<1>2. QED
  BY <1>1, InitRefines, AlwaysShape, AlwaysFreshEnough, PTL
     DEF Spec, RecordsImplemented, Records!Spec

-----------------------------------------------------------------------------
(* What the versioned records promise.                                     *)

(* What a new version of a row keeps and what it changes. *)
LEMMA EditedColumns ==
  ASSUME NEW row \in Row, NEW data
  PROVE  /\ Records!Edited(row, data).life = row.life
         /\ Records!Edited(row, data).code = row.code
         /\ Records!Edited(row, data).status = row.status
         /\ Records!Edited(row, data).version = row.version + 1
         /\ Records!Edited(row, data).data = data
<1>1. /\ Records!Edited(row, data).life = row.life /\ Records!Edited(row, data).code = row.code
      /\ Records!Edited(row, data).status = row.status
  BY DEF Records!Edited, Row
<1>2. Records!Edited(row, data).version = row.version + 1
  BY DEF Records!Edited, Row
<1>3. Records!Edited(row, data).data = data
  BY DEF Records!Edited, Row
<1>4. QED
  BY <1>1, <1>2, <1>3

LEMMA MovedColumns ==
  ASSUME NEW row \in Row, NEW status
  PROVE  /\ Records!Moved(row, status).life = row.life
         /\ Records!Moved(row, status).code = row.code
         /\ Records!Moved(row, status).status = status
         /\ Records!Moved(row, status).version = row.version + 1
         /\ Records!Moved(row, status).data = row.data
<1>1. /\ Records!Moved(row, status).life = row.life /\ Records!Moved(row, status).code = row.code
      /\ Records!Moved(row, status).data = row.data
  BY DEF Records!Moved, Row
<1>2. Records!Moved(row, status).version = row.version + 1
  BY DEF Records!Moved, Row
<1>3. Records!Moved(row, status).status = status
  BY DEF Records!Moved, Row
<1>4. QED
  BY <1>1, <1>2, <1>3

LEMMA EditedOK ==
  ASSUME NEW key \in Keys, NEW row \in Row, RowOK(key, row), row.life = "live",
         NEW data \in Data
  PROVE  Records!Edited(row, data) \in Row /\ RowOK(key, Records!Edited(row, data))
<1>1. row.version \in Nat /\ row.version + 1 \in Nat
  BY DEF Row
<1>2. Records!Edited(row, data) \in Row
  BY <1>1 DEF Records!Edited, Row
<1>3. QED
  BY <1>1, <1>2, EditedColumns DEF RowOK

LEMMA MovedOK ==
  ASSUME NEW key \in Keys, NEW row \in Row, RowOK(key, row), row.life = "live",
         NEW status \in Statuses(KindOf[key])
  PROVE  Records!Moved(row, status) \in Row /\ RowOK(key, Records!Moved(row, status))
<1>1. row.version \in Nat /\ row.version + 1 \in Nat
  BY DEF Row
<1>2. status \in AllStatuses
  BY KeysAssumption, ServiceStatuses
<1>3. Records!Moved(row, status) \in Row
  BY <1>1, <1>2 DEF Records!Moved, Row
<1>4. QED
  BY <1>1, <1>3, MovedColumns DEF RowOK

(* The initial states and the steps of the versioned records, in the
   module's own terms. *)
LEMMA RecordsStart == Records!Init => rows \in SeededTables
  BY SameTables DEF Records!Init

LEMMA RecordsStep ==
  ASSUME NEW key \in Keys
  PROVE  /\ Records!Create(key) =>
              \E code \in Codes, data \in Data :
                /\ ~CodeTaken(rows, KindOf[key], code)
                /\ rows' = [rows EXCEPT ![key] =
                             InsertedRow(code, Service[KindOf[key]].initial, data)]
         /\ Records!Edit(key) =>
              /\ rows[key].life = "live"
              /\ \E data \in Data :
                   rows' = [rows EXCEPT ![key] = Records!Edited(rows[key], data)]
         /\ Records!Move(key) =>
              /\ rows[key].life = "live"
              /\ \E status \in Statuses(KindOf[key]) :
                   rows' = [rows EXCEPT ![key] = Records!Moved(rows[key], status)]
         /\ Records!Remove(key) =>
              /\ rows[key].life = "live"
              /\ rows' = [rows EXCEPT ![key].life = "gone"]
<1>1. ASSUME Records!Create(key)
      PROVE  \E code \in Codes, data \in Data :
               /\ ~CodeTaken(rows, KindOf[key], code)
               /\ rows' = [rows EXCEPT ![key] =
                            InsertedRow(code, Service[KindOf[key]].initial, data)]
  <2>1. PICK code \in Codes, data \in Data :
          /\ ~Records!CodeTaken(rows, KindOf[key], code)
          /\ rows' = [rows EXCEPT ![key] =
                       Records!InsertedRow(code, Records!Service[KindOf[key]].initial,
                                           data)]
    BY <1>1 DEF Records!Create
  <2>2. ~CodeTaken(rows, KindOf[key], code)
    BY <2>1 DEF CodeTaken, Records!CodeTaken
  <2>3. QED
    BY <2>1, <2>2, SameTables, SameServices
<1>2. Records!Move(key) =>
        /\ rows[key].life = "live"
        /\ \E status \in Statuses(KindOf[key]) :
             rows' = [rows EXCEPT ![key] = Records!Moved(rows[key], status)]
  BY SameServices DEF Records!Move
<1>3. QED
  BY <1>1, <1>2 DEF Records!Edit, Records!Remove

(* Every row of the versioned records keeps its columns' types, has a status
   of its kind's, and only one never stored has zero values: the rows that
   repository/base.go reads and writes. *)
THEOREM RowsAlwaysOK == Records!Spec => []Records!RowsOK
<1>1. Records!RowsOK <=> TableOK(rows)
  BY SameTableOK DEF Records!RowsOK
<1>2. Records!Init => TableOK(rows)
  BY RecordsStart, SeededTablesOK
<1>3. TableOK(rows) /\ [Records!Next]_rows => TableOK(rows)'
  <2> SUFFICES ASSUME TableOK(rows), [Records!Next]_rows PROVE TableOK(rows')
    OBVIOUS
  <2>1. ASSUME NEW key \in Keys, Records!Create(key) PROVE TableOK(rows')
    <3>1. PICK code \in Codes, data \in Data :
            rows' = [rows EXCEPT ![key] =
                       InsertedRow(code, Service[KindOf[key]].initial, data)]
      BY <2>1, RecordsStep
    <3>2. Service[KindOf[key]].initial \in Statuses(KindOf[key])
      BY KeysAssumption, ServiceStatuses
    <3>3. QED
      BY <3>1, <3>2, InsertedRowOK, OneRowOK
  <2>2. ASSUME NEW key \in Keys, Records!Edit(key) PROVE TableOK(rows')
    <3>1. PICK data \in Data : rows' = [rows EXCEPT ![key] = Records!Edited(rows[key], data)]
      BY <2>2, RecordsStep
    <3>2. rows[key] \in Row /\ RowOK(key, rows[key]) /\ rows[key].life = "live"
      BY <2>2, RecordsStep DEF TableOK
    <3>3. QED
      BY <3>1, <3>2, EditedOK, OneRowOK
  <2>3. ASSUME NEW key \in Keys, Records!Move(key) PROVE TableOK(rows')
    <3>1. PICK status \in Statuses(KindOf[key]) :
            rows' = [rows EXCEPT ![key] = Records!Moved(rows[key], status)]
      BY <2>3, RecordsStep
    <3>2. rows[key] \in Row /\ RowOK(key, rows[key]) /\ rows[key].life = "live"
      BY <2>3, RecordsStep DEF TableOK
    <3>3. QED
      BY <3>1, <3>2, MovedOK, OneRowOK
  <2>4. ASSUME NEW key \in Keys, Records!Remove(key) PROVE TableOK(rows')
    BY <2>4, RecordsStep DEF TableOK, Row, RowOK, Lives
  <2>5. CASE UNCHANGED rows
    BY <2>5
  <2>6. QED
    BY <2>1, <2>2, <2>3, <2>4, <2>5 DEF Records!Next
<1>4. QED
  BY <1>1, <1>2, <1>3, PTL DEF Records!Spec

(* A creation takes a code no row of its kind has or had. *)
LEMMA CreationKeepsCodes ==
  ASSUME TableOK(rows), Records!UniqueCodes, NEW key \in Keys, Records!Create(key)
  PROVE  Records!UniqueCodes'
<1>1. PICK code \in Codes, data \in Data :
        /\ ~CodeTaken(rows, KindOf[key], code)
        /\ rows' = [rows EXCEPT ![key] =
                     InsertedRow(code, Service[KindOf[key]].initial, data)]
  BY RecordsStep
<1>2. rows'[key].code = code /\ \A k \in Keys \ {key} : rows'[k] = rows[k]
  BY <1>1 DEF TableOK, InsertedRow
<1>3. \A k \in Keys \ {key} :
        KindOf[k] = KindOf[key] /\ rows[k].life # "absent" => rows[k].code # code
  BY <1>1 DEF CodeTaken
<1>4. QED
  BY <1>2, <1>3 DEF Records!UniqueCodes

(* A step that changes no code and brings no row to life. *)
LEMMA OthersKeepCodes ==
  ASSUME Records!UniqueCodes,
         \A k \in Keys : /\ rows'[k].code = rows[k].code
                         /\ rows'[k].life # "absent" => rows[k].life # "absent"
  PROVE  Records!UniqueCodes'
  BY DEF Records!UniqueCodes

LEMMA StartingCodesUnique ==
  ASSUME rows \in SeededTables
  PROVE  Records!UniqueCodes
<1>1. ASSUME NEW key \in Keys, rows[key].life # "absent"
      PROVE  key \in SeedKeys /\ rows[key].code = SeedCode[key]
  <2>1. rows[key] # EmptyRow
    BY <1>1 DEF EmptyRow
  <2>2. PICK status \in Statuses(KindOf[key]) :
          rows[key] = InsertedRow(SeedCode[key], status, SeedData)
    BY <2>1, SeededRows
  <2>3. QED
    BY <2>1, <2>2, SeededRows DEF InsertedRow
<1>2. QED
  BY <1>1, SeedCodesAssumption DEF Records!UniqueCodes

(* A code, once used, is never given to another row of the same table:
   creation checks the unique index, which spans removed rows, and no other
   step writes a code (base.go:62 omits it). *)
THEOREM CodesStayUnique == Records!Spec => []Records!UniqueCodes
<1>1. Records!Init => Records!UniqueCodes
  BY RecordsStart, StartingCodesUnique
<1>2. Records!RowsOK /\ Records!UniqueCodes /\ [Records!Next]_rows => Records!UniqueCodes'
  <2> SUFFICES ASSUME TableOK(rows), Records!UniqueCodes, [Records!Next]_rows
               PROVE  Records!UniqueCodes'
    BY SameTableOK DEF Records!RowsOK
  <2>1. ASSUME NEW key \in Keys, Records!Create(key) PROVE Records!UniqueCodes'
    BY <2>1, CreationKeepsCodes
  <2>2. ASSUME NEW key \in Keys,
               Records!Edit(key) \/ Records!Move(key) \/ Records!Remove(key)
        PROVE  Records!UniqueCodes'
    <3>1. rows[key].life = "live"
      BY <2>2, RecordsStep
    <3>2. ASSUME NEW k \in Keys
          PROVE  /\ rows'[k].code = rows[k].code
                 /\ rows'[k].life # "absent" => rows[k].life # "absent"
      <4>1. CASE Records!Edit(key)
        <5>1. PICK data \in Data :
                rows' = [rows EXCEPT ![key] = Records!Edited(rows[key], data)]
          BY <4>1, RecordsStep
        <5>2. QED
          BY <5>1, EditedColumns DEF TableOK
      <4>2. CASE Records!Move(key)
        <5>1. PICK status \in Statuses(KindOf[key]) :
                rows' = [rows EXCEPT ![key] = Records!Moved(rows[key], status)]
          BY <4>2, RecordsStep
        <5>2. QED
          BY <5>1, MovedColumns DEF TableOK
      <4>3. CASE Records!Remove(key)
        BY <3>1, <4>3, RecordsStep DEF TableOK, Row
      <4>4. QED
        BY <2>2, <4>1, <4>2, <4>3
    <3>3. QED
      BY <3>2, OthersKeepCodes
  <2>3. CASE UNCHANGED rows
    BY <2>3 DEF Records!UniqueCodes
  <2>4. QED
    BY <2>1, <2>2, <2>3 DEF Records!Next
<1>3. QED
  BY <1>1, <1>2, RowsAlwaysOK, PTL DEF Records!Spec

(* The services themselves never give a code twice, whatever versions their
   callers name: an UPDATE leaves the code of the row it finds (base.go:62),
   and the INSERT checks the unique index. *)
THEOREM ServicesKeepCodesUnique == Spec => []Records!UniqueCodes
<1>1. Init => Records!UniqueCodes
  BY StartingCodesUnique DEF Init
<1>2. Shape /\ Records!UniqueCodes /\ [Next]_vars => Records!UniqueCodes'
  <2> SUFFICES ASSUME Shape, Records!UniqueCodes, [Next]_vars
               PROVE  Records!UniqueCodes'
    OBVIOUS
  <2>1. TableOK(rows)
    BY DEF Shape
  <2>2. ASSUME NEW r \in Requests, Insert(r) PROVE Records!UniqueCodes'
    BY <2>1, <2>2, InsertRefines, CreationKeepsCodes
  <2>3. ASSUME NEW r \in Requests, Write(r) PROVE Records!UniqueCodes'
    <3>1. /\ call[r].key \in Keys /\ rows[call[r].key] \in Row
          /\ rows[call[r].key].life = "live"
          /\ rows' = [rows EXCEPT ![call[r].key] =
                        Overwritten(rows[call[r].key], Changed(r))]
      BY <2>3, WriteRow
    <3>2. ASSUME NEW k \in Keys
          PROVE  /\ rows'[k].code = rows[k].code
                 /\ rows'[k].life # "absent" => rows[k].life # "absent"
      BY <2>1, <3>1, OverwrittenColumns DEF TableOK
    <3>3. QED
      BY <3>2, OthersKeepCodes
  <2>4. ASSUME NEW r \in Requests, Remove(r) PROVE Records!UniqueCodes'
    <3>1. PICK key \in Keys : Records!Remove(key)
      BY <2>4, RemoveRefines
    <3>2. ASSUME NEW k \in Keys
          PROVE  /\ rows'[k].code = rows[k].code
                 /\ rows'[k].life # "absent" => rows[k].life # "absent"
      BY <2>1, <3>1, RecordsStep DEF TableOK, Row
    <3>3. QED
      BY <3>2, OthersKeepCodes
  <2>5. CASE UNCHANGED rows
    BY <2>5 DEF Records!UniqueCodes
  <2>6. QED
    BY <2>2, <2>3, <2>4, <2>5, RowsChange
<1>3. QED
  BY <1>1, <1>2, AlwaysShape, PTL DEF Spec

-----------------------------------------------------------------------------
(* Committed writes.                                                       *)

(* The effects only grow, by one write of the request that took the step.  *)
LEMMA EffectsChange ==
  ASSUME [Next]_vars
  PROVE  \/ effects' = effects
         \/ \E r \in Requests : Insert(r) \/ Write(r) \/ Remove(r)
  BY DEF Next, vars, Finished, Crash, Arrive, ArriveCreate, ArriveUpdate,
     ArriveTransition, ArriveDelete, Enter, Serve, StatementFails, AuditFails,
     RefuseUnread, Read, InsertDuplicate, WriteConflict, RemoveMissing, Audit, Reread

LEMMA InsertEffect ==
  ASSUME Shape, NEW r \in Requests, Insert(r)
  PROVE  \E e \in Effect :
           /\ effects' = effects \union {e}
           /\ e.req = r /\ e.op = "create" /\ call'[r].op = "create"
           /\ e.key = call'[r].key /\ e.before = NoStatus
           /\ e.after = item'[r].status
<1> DEFINE status == Service[call[r].kind].initial
           row == InsertedRow(call[r].code, status, call[r].data)
<1>1. PICK key \in FreshKeys(rows, call[r].kind) :
        /\ effects' = effects \union {EffectOf(r, key, NoStatus, status, 0)}
        /\ call' = [call EXCEPT ![r].key = key]
        /\ item' = [item EXCEPT ![r] = row]
  BY DEF Insert
<1> DEFINE e == EffectOf(r, key, NoStatus, status, 0)
<1>2. /\ e.req = r /\ e.op = "create" /\ e \in effects' /\ e.key = key
      /\ e.before = NoStatus /\ e.after = status
  BY <1>1 DEF Insert, EffectOf
<1>3. effects' \in SUBSET Effect
  BY InsertShape DEF Shape, TypeOK
<1>4. call'[r].key = key /\ call'[r].op = "create"
  <2>1. call'[r] = [call[r] EXCEPT !.key = key] /\ call[r] \in Call
    BY <1>1 DEF Shape, TypeOK
  <2>2. QED
    BY <2>1 DEF Insert, Call
<1>5. item'[r].status = status
  <2>1. row.status = status
    BY DEF InsertedRow
  <2> HIDE DEF row
  <2>2. QED
    BY <1>1, <2>1 DEF Shape, TypeOK
<1>6. QED
  BY <1>1, <1>2, <1>3, <1>4, <1>5

(* The UPDATE is recorded with the version and the status it replaced. *)
LEMMA WriteEffect ==
  ASSUME Shape, NEW r \in Requests, Write(r)
  PROVE  \E e \in Effect :
           /\ effects' = effects \union {e}
           /\ e.req = r /\ e.op = call[r].op /\ e.op \in CasOps
           /\ e.key = call[r].key /\ e.key \in Keys
           /\ e.before = rows[e.key].status /\ e.after = Changed(r).status
           /\ e.base = rows[e.key].version
<1> DEFINE key == call[r].key
           e == EffectOf(r, key, rows[key].status, Changed(r).status, rows[key].version)
<1>1. /\ e.req = r /\ e.op = call[r].op /\ e.key = key
      /\ e.before = rows[key].status /\ e.after = Changed(r).status
      /\ e.base = rows[key].version
  BY DEF EffectOf
<1>2. effects' = effects \union {e} /\ call[r].op \in CasOps /\ key \in Keys
  BY WriteRow DEF Write
<1>3. effects' \in SUBSET Effect
  BY WriteShape DEF Shape, TypeOK
<1>4. QED
  BY <1>1, <1>2, <1>3

LEMMA RemoveEffect ==
  ASSUME Shape, NEW r \in Requests, Remove(r)
  PROVE  \E e \in Effect :
           /\ effects' = effects \union {e}
           /\ e.req = r /\ e.op = "delete" /\ e.after = "deleted"
           /\ e.key = call[r].key /\ e.key \in Keys
           /\ e.before = rows[e.key].status /\ e.base = rows[e.key].version
<1> DEFINE key == call[r].key
           e == EffectOf(r, key, rows[key].status, "deleted", rows[key].version)
<1>1. /\ e.req = r /\ e.op = call[r].op /\ e.key = key
      /\ e.before = rows[key].status /\ e.after = "deleted"
      /\ e.base = rows[key].version
  BY DEF EffectOf
<1>2. effects' = effects \union {e} /\ call[r].op = "delete" /\ key \in Keys
  BY DEF Remove, Shape, ProgressOK
<1>3. effects' \in SUBSET Effect
  BY RemoveShape DEF Shape, TypeOK
<1>4. QED
  BY <1>1, <1>2, <1>3

LEMMA EffectsGrow ==
  ASSUME Shape, [Next]_vars
  PROVE  effects \subseteq effects'
  BY EffectsChange, InsertEffect, WriteEffect, RemoveEffect

-----------------------------------------------------------------------------
(* Versions.                                                               *)

(* A step that adds no compare-and-swap keeps the history: rows keep their
   versions, or get the first one. *)
LEMMA HistoryKept ==
  ASSUME Shape, VersionHistory, rows' \in [Keys -> Row], CasEffects' = CasEffects,
         \A key \in Keys : \/ rows'[key].version = rows[key].version
                           \/ rows[key].version = 0 /\ rows'[key].version = 1
  PROVE  VersionHistory'
<1>0. \A e \in CasEffects : e.key \in Keys /\ e.base \in Nat
  BY DEF Shape, TypeOK, CasEffects, Effect
<1>1. \A key \in Keys : rows[key].version \in Nat /\ rows'[key].version \in Nat
  BY DEF Shape, TypeOK, Row
<1>2. ASSUME NEW e \in CasEffects
      PROVE  e.base \in 1..(rows'[e.key].version - 1)
  BY <1>0, <1>1 DEF VersionHistory
<1>3. ASSUME NEW key \in Keys, NEW v \in 1..(rows'[key].version - 1)
      PROVE  \E e \in CasEffects : e.key = key /\ e.base = v
  BY <1>1 DEF VersionHistory
<1>4. \A e, f \in CasEffects : e.key = f.key /\ e.base = f.base => e = f
  BY DEF VersionHistory
<1>5. QED
  BY <1>2, <1>3, <1>4 DEF VersionHistory

LEMMA WriteHistory ==
  ASSUME Shape, VersionHistory, NEW r \in Requests, Write(r)
  PROVE  VersionHistory'
<1>1. PICK e \in Effect :
        /\ effects' = effects \union {e}
        /\ e.op \in CasOps /\ e.key \in Keys /\ e.key = call[r].key
        /\ e.base = rows[e.key].version
  BY WriteEffect
<1>2. CasEffects' = CasEffects \union {e}
  BY <1>1 DEF CasEffects
<1>3. /\ rows'[e.key].version = rows[e.key].version + 1
      /\ rows[e.key].version \in Nat /\ rows[e.key].version >= 1
      /\ \A key \in Keys : key # e.key => rows'[key] = rows[key]
  BY <1>1, WriteRow DEF Shape, TypeOK
<1>4. \A key \in Keys : rows[key].version \in Nat
  BY DEF Shape, TypeOK, Row
<1>5. \A f \in CasEffects : f.key \in Keys /\ f.base \in Nat
  BY DEF Shape, TypeOK, CasEffects, Effect
<1>6. \A f \in CasEffects : f.base \in 1..(rows[f.key].version - 1)
  BY DEF VersionHistory
<1>7. ASSUME NEW f \in CasEffects'
      PROVE  f.base \in 1..(rows'[f.key].version - 1)
  <2>1. CASE f = e
    BY <1>1, <1>3, <2>1
  <2>2. CASE f \in CasEffects /\ f.key = e.key
    BY <1>3, <1>5, <1>6, <2>2
  <2>3. CASE f \in CasEffects /\ f.key # e.key
    BY <1>3, <1>5, <1>6, <2>3
  <2>4. QED
    BY <1>2, <2>1, <2>2, <2>3
<1>8. ASSUME NEW f \in CasEffects', NEW g \in CasEffects',
             f.key = g.key, f.base = g.base
      PROVE  f = g
  <2>1. \A h \in CasEffects : h.key = e.key => h.base # e.base
    BY <1>1, <1>3, <1>5, <1>6
  <2>2. QED
    BY <1>2, <1>8, <2>1 DEF VersionHistory
<1>9. ASSUME NEW key \in Keys, NEW v \in 1..(rows'[key].version - 1)
      PROVE  \E f \in CasEffects' : f.key = key /\ f.base = v
  <2>1. CASE key = e.key /\ v = e.base
    BY <1>2, <2>1
  <2>2. CASE v \in 1..(rows[key].version - 1)
    BY <1>2, <2>2 DEF VersionHistory
  <2>3. QED
    BY <1>1, <1>3, <1>4, <2>1, <2>2
<1>10. QED
  BY <1>7, <1>8, <1>9 DEF VersionHistory

LEMMA NextHistory == Shape /\ VersionHistory /\ [Next]_vars => VersionHistory'
<1> SUFFICES ASSUME Shape, VersionHistory, [Next]_vars PROVE VersionHistory'
  OBVIOUS
<1>0. rows' \in [Keys -> Row]
  BY NextShape DEF Shape, TypeOK
<1>1. ASSUME NEW r \in Requests, Insert(r) PROVE VersionHistory'
  <2>1. CasEffects' = CasEffects
    <3>1. PICK e \in Effect : effects' = effects \union {e} /\ e.op = "create"
      BY <1>1, InsertEffect
    <3>2. QED
      BY <3>1 DEF CasEffects, CasOps
  <2> DEFINE row == InsertedRow(call[r].code, Service[call[r].kind].initial, call[r].data)
  <2>2. PICK k \in FreshKeys(rows, call[r].kind) : rows' = [rows EXCEPT ![k] = row]
    BY <1>1 DEF Insert
  <2>3. row.version = 1
    BY DEF InsertedRow
  <2>4. k \in Keys /\ rows[k].version = 0
    BY <2>2 DEF FreshKeys, Shape, TableOK, RowOK, EmptyRow
  <2> HIDE DEF row
  <2>5. \A key \in Keys : \/ rows'[key].version = rows[key].version
                          \/ rows[key].version = 0 /\ rows'[key].version = 1
    BY <2>2, <2>3, <2>4 DEF Shape, TypeOK
  <2>6. QED
    BY <1>0, <2>1, <2>5, HistoryKept
<1>2. ASSUME NEW r \in Requests, Write(r) PROVE VersionHistory'
  BY <1>2, WriteHistory
<1>3. ASSUME NEW r \in Requests, Remove(r) PROVE VersionHistory'
  <2>1. CasEffects' = CasEffects
    <3>1. PICK e \in Effect : effects' = effects \union {e} /\ e.op = "delete"
      BY <1>3, RemoveEffect
    <3>2. QED
      BY <3>1 DEF CasEffects, CasOps
  <2>2. \A key \in Keys : rows'[key].version = rows[key].version
    BY <1>3 DEF Remove, Shape, TypeOK, Row
  <2>3. QED
    BY <1>0, <2>1, <2>2, HistoryKept
<1>4. CASE effects' = effects /\ UNCHANGED rows
  <2>1. CasEffects' = CasEffects
    BY <1>4 DEF CasEffects
  <2>2. QED
    BY <1>0, <1>4, <2>1, HistoryKept
<1>5. QED
  BY <1>1, <1>2, <1>3, <1>4, EffectsChange, RowsChange

(* Compare-and-swap, for any number of overlapping requests and whatever
   versions their callers name: each version of a row beyond the first was
   written by exactly one committed update or transition, so no version is
   replaced twice and none is skipped. *)
THEOREM AlwaysVersionHistory == Spec => []VersionHistory
<1>1. Init => VersionHistory
  <2> SUFFICES ASSUME Init PROVE VersionHistory
    OBVIOUS
  <2>1. CasEffects = {}
    BY DEF Init, CasEffects
  <2>2. \A key \in Keys : rows[key].version \in {0, 1}
    BY DEF Init, SeededTables, InsertedRow, EmptyRow
  <2>3. \A key \in Keys : 1..(rows[key].version - 1) = {}
    BY <2>2
  <2>4. QED
    BY <2>1, <2>3 DEF VersionHistory
<1>2. QED
  BY <1>1, NextHistory, AlwaysShape, PTL DEF Spec

-----------------------------------------------------------------------------
(* What each request leaves behind.                                        *)

(* One audit record at a time, by a request that is at its audit statement. *)
LEMMA LogChange ==
  ASSUME [Next]_vars
  PROVE  \/ auditLog' = auditLog
         \/ \E r \in Requests : /\ pc[r] = "audit"
                                /\ auditLog' = Append(auditLog, EntryOf(r))
  BY DEF Next, vars, Finished, Crash, Arrive, ArriveCreate, ArriveUpdate,
     ArriveTransition, ArriveDelete, Enter, Serve, StatementFails, AuditFails,
     RefuseUnread, Read, Insert, InsertDuplicate, Write, WriteConflict, Remove,
     RemoveMissing, Audit, Reread

(* Appending one record to the log. *)
LEMMA AppendedLog ==
  ASSUME Shape, NEW r \in Requests, auditLog' = Append(auditLog, EntryOf(r))
  PROVE  /\ DOMAIN auditLog' = DOMAIN auditLog \union {Len(auditLog) + 1}
         /\ Len(auditLog) + 1 \notin DOMAIN auditLog
         /\ auditLog'[Len(auditLog) + 1] = EntryOf(r)
         /\ EntryOf(r).req = r
         /\ \A i \in DOMAIN auditLog : auditLog'[i] = auditLog[i]
<1>1. auditLog \in Seq(AuditEntry)
  BY DEF Shape, TypeOK
<1>2. EntryOf(r).req = r
  BY DEF EntryOf
<1>3. Len(auditLog) \in Nat /\ DOMAIN auditLog = 1..Len(auditLog)
  BY <1>1
<1>4. /\ Len(auditLog') = Len(auditLog) + 1
      /\ DOMAIN auditLog' = 1..(Len(auditLog) + 1)
      /\ auditLog'[Len(auditLog) + 1] = EntryOf(r)
      /\ \A i \in 1..Len(auditLog) : auditLog'[i] = auditLog[i]
  BY <1>1, AppendProperties
<1>5. QED
  BY <1>2, <1>3, <1>4

LEMMA AppendedBy ==
  ASSUME Shape, NEW r \in Requests, auditLog' = Append(auditLog, EntryOf(r))
  PROVE  /\ Logged(r)'
         /\ \A s \in Requests : s # r => (Logged(s)' <=> Logged(s))
  BY AppendedLog DEF Logged

LEMMA WrittenBy ==
  ASSUME NEW r \in Requests, NEW e, effects' = effects \union {e}, e.req = r
  PROVE  /\ Wrote(r)'
         /\ \A s \in Requests : s # r => (Wrote(s)' <=> Wrote(s))
  BY DEF Wrote

(* A request that the step of another one leaves where it was. *)
LEMMA TraceKept ==
  ASSUME NEW s \in Requests, Trace(s),
         pc'[s] = pc[s], call'[s].op = call[s].op, reply'[s] = reply[s],
         Wrote(s)' <=> Wrote(s), Logged(s)' <=> Logged(s)
  PROVE  Trace(s)'
  BY DEF Trace

(* A request that takes a step which writes no row and no audit record. *)
LEMMA QuietTrace ==
  ASSUME Shape, Traces, NEW r \in Requests, UNCHANGED <<auditLog, effects>>,
         NEW p \in PCs, pc' = [pc EXCEPT ![r] = p],
         NEW a \in Replies, reply' = [reply EXCEPT ![r] = a],
         call' = call \/ \E c : call' = [call EXCEPT ![r] = c],
         Trace(r)'
  PROVE  Traces'
<1>1. LoggedOnce'
  BY DEF Traces, LoggedOnce
<1>2. ASSUME NEW s \in Requests, s # r PROVE Trace(s)'
  <2>1. pc'[s] = pc[s] /\ call'[s] = call[s] /\ reply'[s] = reply[s]
    BY <1>2 DEF Shape, TypeOK
  <2>2. (Wrote(s)' <=> Wrote(s)) /\ (Logged(s)' <=> Logged(s))
    BY DEF Wrote, Logged
  <2>3. QED
    BY <2>1, <2>2, TraceKept DEF Traces
<1>3. QED
  BY <1>1, <1>2 DEF Traces

(* An answer other than a success, by a request that changed nothing. *)
LEMMA RefusedTrace ==
  ASSUME Shape, Traces, NEW r \in Requests, pc[r] \in {"start", "write"},
         NEW a \in Replies \ {"ok"}, Answer(r, a), UNCHANGED <<auditLog, call, effects>>,
         a = "conflict" => call[r].op \in CasOps
  PROVE  Traces'
<1>1. pc'[r] = "done" /\ reply'[r] = a /\ call'[r] = call[r]
  BY DEF Shape, TypeOK, Answer
<1>2. ~Wrote(r)' /\ ~Logged(r)'
  BY DEF Traces, Trace, Wrote, Logged
<1>3. Trace(r)'
  BY <1>1, <1>2 DEF Trace
<1>4. QED
  BY <1>3, QuietTrace DEF Answer, PCs

(* A committed write statement. *)
LEMMA CommitTrace ==
  ASSUME Shape, Traces, NEW r \in Requests, pc[r] \in {"start", "write"},
         NEW e, effects' = effects \union {e}, e.req = r,
         Committed(r), UNCHANGED auditLog,
         call' = call \/ \E k : call' = [call EXCEPT ![r].key = k]
  PROVE  Traces'
<1>1. LoggedOnce'
  BY DEF Traces, LoggedOnce
<1>2. Wrote(r)' /\ ~Logged(r)'
  BY WrittenBy DEF Traces, Trace, Logged
<1>3. \/ pc'[r] = "audit" /\ reply'[r] = "none"
      \/ pc'[r] = "done" /\ reply'[r] = "internal"
  BY DEF Committed, GoTo, Answer, Traces, Trace, Shape, TypeOK
<1>4. Trace(r)'
  BY <1>2, <1>3 DEF Trace
<1>5. ASSUME NEW s \in Requests, s # r PROVE Trace(s)'
  <2>1. pc'[s] = pc[s] /\ call'[s] = call[s] /\ reply'[s] = reply[s]
    BY <1>5 DEF Committed, GoTo, Answer, Shape, TypeOK
  <2>2. (Wrote(s)' <=> Wrote(s)) /\ (Logged(s)' <=> Logged(s))
    BY <1>5, WrittenBy DEF Logged
  <2>3. QED
    BY <2>1, <2>2, TraceKept DEF Traces
<1>6. QED
  BY <1>1, <1>4, <1>5 DEF Traces

(* How a request ends its audit statement: an error stops a transition and
   a deletion, and nothing else. *)
LEMMA AfterAuditEnds ==
  ASSUME Shape, NEW r \in Requests, pc[r] = "audit",
         NEW ok \in BOOLEAN, AfterAudit(r, ok)
  PROVE  \/ /\ GoTo(r, "reread") /\ call[r].op \in CasOps
            /\ call[r].op = "transition" => ok
         \/ /\ Answer(r, "ok") /\ call[r].op \in {"create", "delete"}
            /\ call[r].op = "delete" => ok
         \/ Answer(r, "internal")
<1>1. call[r].op \in {"create", "update", "transition", "delete"}
  BY DEF Shape, ProgressOK, CallOK, Ops
<1>2. CASE call[r].op = "create"
  BY <1>2 DEF AfterAudit
<1>3. CASE call[r].op = "update"
  BY <1>3 DEF AfterAudit, CasOps
<1>4. CASE call[r].op = "transition"
  BY <1>4 DEF AfterAudit, CasOps
<1>5. CASE call[r].op = "delete"
  BY <1>5 DEF AfterAudit
<1>6. QED
  BY <1>1, <1>2, <1>3, <1>4, <1>5

(* The audit statement, with or without its record and its error. *)
LEMMA AuditTrace ==
  ASSUME Shape, Traces, NEW r \in Requests, Audit(r) \/ AuditFails(r)
  PROVE  Traces'
<1>1. /\ pc[r] = "audit" /\ call' = call /\ effects' = effects
      /\ \/ AfterAudit(r, TRUE) /\ auditLog' = Append(auditLog, EntryOf(r))
         \/ AfterAudit(r, FALSE) /\ auditLog' \in {auditLog, Append(auditLog, EntryOf(r))}
  BY DEF Audit, AuditFails
<1>2. Wrote(r) /\ ~Logged(r) /\ reply[r] = "none"
  BY <1>1 DEF Traces, Trace
<1>3. \A s \in Requests : Wrote(s)' <=> Wrote(s)
  BY <1>1 DEF Wrote
<1>4. \A s \in Requests : s # r => (Logged(s)' <=> Logged(s))
  <2>1. CASE auditLog' = auditLog
    BY <2>1 DEF Logged
  <2>2. CASE auditLog' = Append(auditLog, EntryOf(r))
    BY <2>2, AppendedBy
  <2>3. QED
    BY <1>1, <2>1, <2>2
<1>5. LoggedOnce'
  <2>1. CASE auditLog' = auditLog
    BY <2>1 DEF Traces, LoggedOnce
  <2>2. CASE auditLog' = Append(auditLog, EntryOf(r))
    <3>1. \A i \in DOMAIN auditLog : auditLog[i].req # r
      BY <1>2 DEF Logged
    <3>2. QED
      BY <2>2, <3>1, AppendedLog DEF Traces, LoggedOnce
  <2>3. QED
    BY <1>1, <2>1, <2>2
<1>6. GoTo(r, "reread") \/ Answer(r, "ok") \/ Answer(r, "internal")
  BY <1>1, AfterAuditEnds
<1>7. Trace(r)'
  <2>1. CASE AfterAudit(r, TRUE) /\ auditLog' = Append(auditLog, EntryOf(r))
    <3>1. Logged(r)' /\ Wrote(r)'
      BY <1>2, <1>3, <2>1, AppendedBy
    <3>2. \/ /\ pc'[r] = "reread" /\ reply'[r] = "none"
             /\ call'[r].op \in CasOps
          \/ pc'[r] = "done"
      <4>1. \/ GoTo(r, "reread") /\ call[r].op \in CasOps
            \/ Answer(r, "ok")
            \/ Answer(r, "internal")
        BY <1>1, <2>1, AfterAuditEnds
      <4>2. QED
        BY <1>1, <1>2, <4>1 DEF GoTo, Answer, Shape, TypeOK
    <3>3. reply'[r] \in {"none", "ok", "internal"}
      BY <1>2, <1>6 DEF GoTo, Answer, Shape, TypeOK
    <3>4. QED
      BY <3>1, <3>2, <3>3 DEF Trace
  <2>2. CASE AfterAudit(r, FALSE)
    <3>1. \/ /\ pc'[r] = "reread" /\ reply'[r] = "none" /\ call[r].op = "update"
          \/ /\ pc'[r] = "done" /\ reply'[r] \in {"ok", "internal"}
             /\ reply'[r] = "ok" => call[r].op = "create"
      <4>1. \/ GoTo(r, "reread") /\ call[r].op = "update"
            \/ Answer(r, "ok") /\ call[r].op = "create"
            \/ Answer(r, "internal")
        BY <1>1, <2>2, AfterAuditEnds DEF CasOps
      <4>2. QED
        BY <1>2, <4>1 DEF GoTo, Answer, Shape, TypeOK
    <3>2. Wrote(r)' /\ call'[r] = call[r]
      BY <1>1, <1>2, <1>3
    <3>3. QED
      BY <3>1, <3>2 DEF Trace, CasOps
  <2>3. QED
    BY <1>1, <2>1, <2>2
<1>8. ASSUME NEW s \in Requests, s # r PROVE Trace(s)'
  <2>1. pc'[s] = pc[s] /\ call'[s] = call[s] /\ reply'[s] = reply[s]
    BY <1>1, <1>6, <1>8 DEF GoTo, Answer, Shape, TypeOK
  <2>2. QED
    BY <1>3, <1>4, <1>8, <2>1, TraceKept DEF Traces
<1>9. QED
  BY <1>5, <1>7, <1>8 DEF Traces

LEMMA CrashTrace ==
  ASSUME Shape, Traces, Crash
  PROVE  Traces'
<1>1. LoggedOnce'
  BY DEF Crash, Traces, LoggedOnce
<1>2. ASSUME NEW s \in Requests PROVE Trace(s)'
  <2>1. /\ Wrote(s)' <=> Wrote(s)
        /\ Logged(s)' <=> Logged(s)
        /\ call'[s] = call[s]
    BY DEF Crash, Wrote, Logged
  <2>2. \/ pc'[s] = pc[s] /\ reply'[s] = reply[s]
        \/ pc'[s] = "done" /\ reply'[s] = "lost"
    BY DEF Crash
  <2>3. QED
    BY <2>1, <2>2 DEF Traces, Trace
<1>3. QED
  BY <1>1, <1>2 DEF Traces

LEMMA InitTraces == Init => Traces
  BY DEF Init, Traces, LoggedOnce, Trace, Wrote, Logged

LEMMA NextTraces == Shape /\ Traces /\ [Next]_vars => Traces'
<1> SUFFICES ASSUME Shape, Traces, [Next]_vars PROVE Traces'
  OBVIOUS
<1>1. ASSUME NEW r \in Requests, Arrive(r) PROVE Traces'
  <2>1. PICK c \in Call : Enter(r, c)
    BY <1>1, ArrivingCall
  <2>2. ~Wrote(r)' /\ ~Logged(r)' /\ pc'[r] = "start" /\ reply'[r] = "none"
    BY <2>1 DEF Enter, Traces, Trace, Wrote, Logged, Shape, TypeOK
  <2>3. Trace(r)'
    BY <2>2 DEF Trace
  <2>4. /\ pc' = [pc EXCEPT ![r] = "start"] /\ "start" \in PCs
        /\ reply' = [reply EXCEPT ![r] = reply[r]] /\ reply[r] \in Replies
        /\ call' = [call EXCEPT ![r] = c]
        /\ UNCHANGED <<auditLog, effects>>
    BY <2>1 DEF Enter, PCs, Shape, TypeOK
  <2>5. QED
    BY <2>3, <2>4, QuietTrace
<1>2. ASSUME NEW r \in Requests,
             \/ RefuseUnread(r) \/ InsertDuplicate(r) \/ WriteConflict(r)
             \/ RemoveMissing(r)
      PROVE  Traces'
  BY <1>2, RefusedTrace
     DEF RefuseUnread, InsertDuplicate, WriteConflict, RemoveMissing, Replies
<1>3. ASSUME NEW r \in Requests, Read(r) PROVE Traces'
  <2>1. CASE Answer(r, "not_found") \/ Answer(r, "unprocessable")
    BY <1>3, <2>1, RefusedTrace DEF Read, Replies
  <2>2. CASE GoTo(r, "write")
    <3>1. /\ pc[r] = "start" /\ pc'[r] = "write" /\ reply' = reply
          /\ UNCHANGED <<auditLog, effects, call>>
      BY <1>3, <2>2 DEF Read, GoTo, Shape, TypeOK
    <3>2. Trace(r)'
      BY <3>1 DEF Traces, Trace, Wrote, Logged
    <3>3. /\ pc' = [pc EXCEPT ![r] = "write"] /\ "write" \in PCs
          /\ reply' = [reply EXCEPT ![r] = reply[r]] /\ reply[r] \in Replies
      BY <2>2 DEF GoTo, PCs, Shape, TypeOK
    <3>4. QED
      BY <3>1, <3>2, <3>3, QuietTrace
  <2>3. QED
    BY <1>3, <2>1, <2>2 DEF Read
<1>4. ASSUME NEW r \in Requests, Insert(r) PROVE Traces'
  <2>1. PICK e \in Effect : effects' = effects \union {e} /\ e.req = r
    BY <1>4, InsertEffect
  <2>2. /\ pc[r] = "start" /\ Committed(r) /\ UNCHANGED auditLog
        /\ \E key : call' = [call EXCEPT ![r].key = key]
    BY <1>4 DEF Insert
  <2>3. QED
    BY <2>1, <2>2, CommitTrace
<1>5. ASSUME NEW r \in Requests, Write(r) PROVE Traces'
  BY <1>5, WriteEffect, CommitTrace DEF Write
<1>6. ASSUME NEW r \in Requests, Remove(r) PROVE Traces'
  BY <1>6, RemoveEffect, CommitTrace DEF Remove
<1>7. ASSUME NEW r \in Requests, Audit(r) \/ AuditFails(r) PROVE Traces'
  BY <1>7, AuditTrace
<1>8. ASSUME NEW r \in Requests,
             pc[r] = "reread",
             NEW a \in {"ok", "not_found", "internal"}, Answer(r, a),
             UNCHANGED <<auditLog, call, effects>>
      PROVE  Traces'
  <2>1. Wrote(r)' /\ (call'[r].op = "transition" => Logged(r)')
    BY <1>8 DEF Traces, Trace, Wrote, Logged
  <2>2. pc'[r] = "done" /\ reply'[r] = a /\ (a = "ok" => call'[r].op \in CasOps)
    BY <1>8 DEF Answer, Traces, Trace, Shape, TypeOK
  <2>3. Trace(r)'
    BY <2>1, <2>2 DEF Trace, CasOps
  <2>4. QED
    BY <1>8, <2>3, QuietTrace DEF Answer, PCs, Replies
<1>9. ASSUME NEW r \in Requests, Reread(r) \/ StatementFails(r) PROVE Traces'
  <2>1. CASE pc[r] = "reread"
    BY <1>8, <1>9, <2>1 DEF Reread, StatementFails
  <2>2. CASE pc[r] \in {"start", "write"}
    BY <1>9, <2>2, RefusedTrace DEF Reread, StatementFails, Replies
  <2>3. QED
    BY <1>9, <2>1, <2>2 DEF Reread, StatementFails
<1>10. CASE Crash
  BY <1>10, CrashTrace
<1>11. CASE UNCHANGED vars
  BY <1>11 DEF vars, Traces, LoggedOnce, Trace, Wrote, Logged
<1>12. QED
  BY <1>1, <1>2, <1>3, <1>4, <1>5, <1>6, <1>7, <1>9, <1>10, <1>11
     DEF Next, Serve, Finished

THEOREM AlwaysTraces == Spec => []Traces
  BY InitTraces, NextTraces, AlwaysShape, PTL DEF Spec

(* A caller answered 409 or 422 has changed no row and left no audit record,
   however many requests overlap with its own. *)
THEOREM AlwaysRefusedLeavesNoTrace == Spec => []RefusedLeavesNoTrace
<1>1. Traces => RefusedLeavesNoTrace
  BY DEF Traces, Trace, RefusedLeavesNoTrace, Wrote, Logged
<1>2. QED
  BY <1>1, AlwaysTraces, PTL

(* A transition or a deletion answered with a success is in the audit log,
   whatever statements failed and whether the process crashed meanwhile. *)
THEOREM AlwaysOkIsAudited == Spec => []OkIsAudited
<1>1. Traces => OkIsAudited
  BY DEF Traces, Trace, OkIsAudited, Wrote, Logged, Audited
<1>2. QED
  BY <1>1, AlwaysTraces, PTL

-----------------------------------------------------------------------------
(* The audit log is complete when nothing fails.                           *)

LEMMA NextAuditPending ==
  ASSUME ~Faulty, Shape, AuditPending, [Next]_vars
  PROVE  AuditPending'
<1>0. \A e \in effects : e.req \in Requests
  BY DEF Shape, TypeOK, Effect
(* A step that neither writes nor reaches or leaves an audit statement. *)
<1>1. ASSUME UNCHANGED <<effects, auditLog>>,
             \A s \in Requests : pc[s] = "audit" => pc'[s] = "audit"
      PROVE  AuditPending'
  BY <1>0, <1>1 DEF AuditPending, Audited
<1>2. ASSUME NEW r \in Requests, NEW e, e.req = r, effects' = effects \union {e},
             UNCHANGED auditLog, Committed(r)
      PROVE  AuditPending'
  <2>1. pc' = [pc EXCEPT ![r] = "audit"]
    BY <1>2 DEF Committed, GoTo
  <2>2. pc'[r] = "audit" /\ \A s \in Requests : pc[s] = "audit" => pc'[s] = "audit"
    BY <2>1 DEF Shape, TypeOK
  <2>3. QED
    BY <1>0, <1>2, <2>2 DEF AuditPending, Audited
<1>3. ASSUME NEW r \in Requests, Audit(r) PROVE AuditPending'
  <2>1. Logged(r)'
    BY <1>3, AppendedBy DEF Audit
  <2>2. \A e \in effects : Audited(e) => Audited(e)'
    BY <1>3, AppendedLog DEF Audit, Audited
  <2>3. \A s \in Requests : s # r => pc'[s] = pc[s]
    <3>1. GoTo(r, "reread") \/ Answer(r, "ok") \/ Answer(r, "internal")
      BY <1>3, AfterAuditEnds DEF Audit
    <3>2. QED
      BY <3>1 DEF GoTo, Answer, Shape, TypeOK
  <2>4. effects' = effects
    BY <1>3 DEF Audit
  <2>5. ASSUME NEW e \in effects PROVE Audited(e)' \/ pc'[e.req] = "audit"
    <3>1. CASE e.req = r
      BY <2>1, <3>1 DEF Logged, Audited
    <3>2. CASE e.req # r
      BY <1>0, <2>2, <2>3, <3>2 DEF AuditPending
    <3>3. QED
      BY <3>1, <3>2
  <2>6. QED
    BY <2>4, <2>5 DEF AuditPending
<1>4. ASSUME NEW r \in Requests, Arrive(r) PROVE AuditPending'
  <2>1. PICK c \in Call : Enter(r, c)
    BY <1>4, ArrivingCall
  <2>2. QED
    BY <1>1, <2>1 DEF Enter, Shape, TypeOK
<1>5. ASSUME NEW r \in Requests,
             \/ RefuseUnread(r) \/ Read(r) \/ InsertDuplicate(r)
             \/ WriteConflict(r) \/ RemoveMissing(r) \/ Reread(r)
      PROVE  AuditPending'
  <2>1. /\ pc[r] # "audit"
        /\ \E p : pc' = [pc EXCEPT ![r] = p]
        /\ UNCHANGED <<effects, auditLog>>
    BY <1>5 DEF RefuseUnread, Read, InsertDuplicate, WriteConflict, RemoveMissing,
       Reread, GoTo, Answer
  <2>2. QED
    BY <1>1, <2>1 DEF Shape, TypeOK
<1>6. ASSUME NEW r \in Requests, Insert(r) \/ Write(r) \/ Remove(r)
      PROVE  AuditPending'
  <2>1. \E e \in Effect : effects' = effects \union {e} /\ e.req = r
    BY <1>6, InsertEffect, WriteEffect, RemoveEffect
  <2>2. Committed(r) /\ UNCHANGED auditLog
    BY <1>6 DEF Insert, Write, Remove
  <2>3. QED
    BY <1>2, <2>1, <2>2
<1>7. CASE UNCHANGED vars
  BY <1>1, <1>7 DEF vars
<1>8. QED
  BY <1>3, <1>4, <1>5, <1>6, <1>7
     DEF Next, Serve, StatementFails, AuditFails, Crash, Finished

(* When no statement fails and the process does not crash, every committed
   write is in the audit log once nothing is under way.  The hypothesis is
   needed: run unaudited shows a write without its record. *)
THEOREM AlwaysChangesAudited ==
  ASSUME ~Faulty
  PROVE  Spec => []ChangesAudited
<1>1. Init => AuditPending
  BY DEF Init, AuditPending
<1>2. Shape /\ AuditPending /\ [Next]_vars => AuditPending'
  BY NextAuditPending
<1>3. Shape /\ AuditPending => ChangesAudited
  BY DEF Shape, TypeOK, Effect, AuditPending, ChangesAudited, Quiescent, InFlight
<1>4. QED
  BY <1>1, <1>2, <1>3, AlwaysShape, PTL DEF Spec

-----------------------------------------------------------------------------
(* Reading one's own write back.                                           *)

(* Once a row shows a request's write it keeps showing it: versions only
   grow, and a version has one content. *)
LEMMA StillShown ==
  ASSUME Shape, [Next]_vars, NEW s \in Requests, NEW key \in Keys,
         call'[s] = call[s],
         rows[key].life # "absent", ShowsWrite(s, rows[key])
  PROVE  rows'[key].life # "absent" /\ ShowsWrite(s, rows[key])'
<1>1. Advances(key)
  BY RowsAdvance
<1>2. /\ rows[key].version \in Nat /\ rows'[key].version \in Nat
      /\ call[s].expected \in Nat
  BY NextShape DEF Shape, TypeOK, Row, Call
<1>3. QED
  BY <1>1, <1>2 DEF Advances, ShowsWrite

(* A request whose own call and snapshot a step leaves alone, and which the
   step takes neither to its audit statement nor to a success. *)
LEMMA OwnWriteKept ==
  ASSUME Shape, OwnWrites, [Next]_vars, NEW s \in Requests,
         call'[s] = call[s],
         pc'[s] \in {"audit", "reread"} => pc[s] \in {"audit", "reread"},
         reply'[s] = "ok" => reply[s] = "ok" /\ item'[s] = item[s]
  PROVE  OwnWrite(s)'
<1>1. SUFFICES ASSUME call[s].op \in CasOps PROVE OwnWrite(s)'
  BY DEF OwnWrite
<1>2. CASE pc'[s] \in {"audit", "reread"}
  <2>1. call[s].key \in Keys
    BY <1>2 DEF Shape, ProgressOK
  <2>2. /\ rows[call[s].key].life # "absent"
        /\ ShowsWrite(s, rows[call[s].key])
    BY <1>1, <1>2 DEF OwnWrites, OwnWrite
  <2>3. /\ rows'[call[s].key].life # "absent"
        /\ ShowsWrite(s, rows[call[s].key])'
    BY <2>1, <2>2, StillShown
  <2>4. QED
    BY <1>1, <2>3 DEF OwnWrites, OwnWrite, ShowsWrite
<1>3. CASE pc'[s] \notin {"audit", "reread"}
  BY <1>1, <1>3 DEF OwnWrites, OwnWrite, ShowsWrite
<1>4. QED
  BY <1>2, <1>3

LEMMA WriteOwn ==
  ASSUME Shape, NEW r \in Requests, Write(r), reply[r] # "ok"
  PROVE  OwnWrite(r)'
<1> DEFINE key == call[r].key
<1>1. /\ key \in Keys /\ pc[r] = "write" /\ call[r].op \in CasOps
      /\ rows[key].version = call[r].expected
      /\ rows'[key].life = "live"
      /\ rows'[key].version = rows[key].version + 1
      /\ rows'[key].status = Changed(r).status
      /\ rows'[key].data = Changed(r).data
  BY WriteRow DEF Shape, TypeOK
<1>2. /\ call[r].op = "update" => rows'[key].data = call[r].data
      /\ call[r].op = "transition" => rows'[key].status = call[r].target
      /\ call[r].expected \in Nat
  BY <1>1, ChangedOK
<1>3. call' = call /\ reply'[r] # "ok"
  BY DEF Write, Committed, GoTo, Answer, Shape, TypeOK
<1>4. QED
  BY <1>1, <1>2, <1>3 DEF OwnWrite, ShowsWrite

LEMMA NextOwnWrites == Shape /\ Traces /\ OwnWrites /\ [Next]_vars => OwnWrites'
<1> SUFFICES ASSUME Shape, Traces, OwnWrites, [Next]_vars,
                    NEW s \in Requests
             PROVE  OwnWrite(s)'
  BY DEF OwnWrites
<1>0. pc[s] # "done" => reply[s] = "none"
  BY DEF Traces, Trace
<1>1. ASSUME NEW r \in Requests, s # r,
             call' = call \/ \E c : call' = [call EXCEPT ![r] = c],
             item' = item \/ \E i : item' = [item EXCEPT ![r] = i],
             \E p : pc' = [pc EXCEPT ![r] = p],
             reply' = reply \/ \E a : reply' = [reply EXCEPT ![r] = a]
      PROVE  OwnWrite(s)'
  <2>1. call'[s] = call[s] /\ item'[s] = item[s] /\ pc'[s] = pc[s] /\ reply'[s] = reply[s]
    BY <1>1 DEF Shape, TypeOK
  <2>2. QED
    BY <2>1, OwnWriteKept
<1>2. ASSUME NEW r \in Requests, Arrive(r) PROVE OwnWrite(s)'
  <2>1. PICK c \in Call : Enter(r, c)
    BY <1>2, ArrivingCall
  <2>2. CASE s = r
    BY <1>0, <2>1, <2>2 DEF Enter, OwnWrite, Shape, TypeOK
  <2>3. CASE s # r
    BY <1>1, <2>1, <2>3 DEF Enter
  <2>4. QED
    BY <2>2, <2>3
<1>3. ASSUME NEW r \in Requests, Insert(r) PROVE OwnWrite(s)'
  <2>1. CASE s = r
    <3>1. call'[r].op = "create"
      BY <1>3 DEF Insert, Shape, TypeOK, Call
    <3>2. QED
      BY <2>1, <3>1 DEF OwnWrite, CasOps
  <2>2. CASE s # r
    <3>1. PICK key, row :
            /\ call' = [call EXCEPT ![r].key = key]
            /\ item' = [item EXCEPT ![r] = row]
            /\ Committed(r)
      BY <1>3 DEF Insert
    <3>2. call' = [call EXCEPT ![r] = [call[r] EXCEPT !.key = key]]
      BY <3>1
    <3>3. /\ \E p : pc' = [pc EXCEPT ![r] = p]
          /\ reply' = reply \/ \E a : reply' = [reply EXCEPT ![r] = a]
      BY <3>1 DEF Committed, GoTo, Answer
    <3>4. QED
      BY <1>1, <2>2, <3>1, <3>2, <3>3
  <2>3. QED
    BY <2>1, <2>2
<1>4. ASSUME NEW r \in Requests, Write(r) \/ Remove(r) PROVE OwnWrite(s)'
  <2>1. CASE s = r /\ Write(r)
    BY <1>0, <2>1, WriteOwn DEF Write
  <2>2. CASE s = r /\ Remove(r)
    BY <2>2 DEF Remove, OwnWrite, CasOps
  <2>3. CASE s # r
    BY <1>1, <1>4, <2>3 DEF Write, Remove, Committed, GoTo, Answer
  <2>4. QED
    BY <1>4, <2>1, <2>2, <2>3
<1>5. ASSUME NEW r \in Requests, Audit(r) \/ AuditFails(r) PROVE OwnWrite(s)'
  <2>1. /\ pc[r] = "audit" /\ call' = call /\ item' = item
        /\ \E ok \in BOOLEAN : AfterAudit(r, ok)
    BY <1>5 DEF Audit, AuditFails
  <2>2. \/ GoTo(r, "reread") \/ Answer(r, "internal")
        \/ Answer(r, "ok") /\ call[r].op \notin CasOps
    BY <2>1, AfterAuditEnds DEF CasOps
  <2>3. CASE s = r /\ (GoTo(r, "reread") \/ Answer(r, "internal"))
    BY <1>0, <2>1, <2>3, OwnWriteKept DEF GoTo, Answer, Shape, TypeOK
  <2>4. CASE s = r /\ call[r].op \notin CasOps
    BY <2>1, <2>4 DEF OwnWrite
  <2>5. CASE s # r
    BY <1>1, <2>1, <2>2, <2>5 DEF GoTo, Answer
  <2>6. QED
    BY <2>2, <2>3, <2>4, <2>5
<1>6. ASSUME NEW r \in Requests, Reread(r) PROVE OwnWrite(s)'
  <2>1. CASE s = r /\ Answer(r, "ok")
    <3>1. /\ pc[r] = "reread" /\ pc'[r] = "done" /\ call' = call
          /\ item'[r] = rows[call[r].key]
      BY <1>6, <2>1 DEF Reread, Answer, Shape, TypeOK
    <3>2. QED
      BY <2>1, <3>1 DEF OwnWrites, OwnWrite, ShowsWrite
  <2>2. CASE s = r /\ Answer(r, "not_found")
    BY <1>6, <2>2, OwnWriteKept DEF Reread, Answer, Shape, TypeOK
  <2>3. CASE s # r
    BY <1>1, <1>6, <2>3 DEF Reread, Answer
  <2>4. QED
    BY <1>6, <2>1, <2>2, <2>3 DEF Reread
<1>7. ASSUME NEW r \in Requests, Read(r) PROVE OwnWrite(s)'
  <2>1. CASE s = r
    <3>1. call' = call /\ pc'[r] \in {"write", "done"} /\ reply'[r] # "ok"
      BY <1>0, <1>7, <2>1 DEF Read, GoTo, Answer, Shape, TypeOK
    <3>2. QED
      BY <2>1, <3>1, OwnWriteKept
  <2>2. CASE s # r
    BY <1>1, <1>7, <2>2 DEF Read, GoTo, Answer
  <2>3. QED
    BY <2>1, <2>2
<1>8. ASSUME NEW r \in Requests,
             \/ RefuseUnread(r) \/ InsertDuplicate(r) \/ WriteConflict(r)
             \/ RemoveMissing(r) \/ StatementFails(r)
      PROVE  OwnWrite(s)'
  <2>1. /\ UNCHANGED <<call, item>>
        /\ \E a \in Replies \ {"ok"} : Answer(r, a)
    BY <1>8 DEF RefuseUnread, InsertDuplicate, WriteConflict, RemoveMissing,
       StatementFails, Replies
  <2>2. QED
    BY <2>1, OwnWriteKept DEF Answer, Shape, TypeOK
<1>9. CASE Crash
  BY <1>9, OwnWriteKept DEF Crash, Shape, TypeOK
<1>10. CASE UNCHANGED vars
  BY <1>10, OwnWriteKept DEF vars
<1>11. QED
  BY <1>2, <1>3, <1>4, <1>5, <1>6, <1>7, <1>8, <1>9, <1>10 DEF Next, Serve, Finished

(* The row a successful update or transition answers with shows the caller's
   own write or a later version, never an earlier one, although the second
   Get runs outside the write's transaction. *)
THEOREM AlwaysReadsOwnWrite == Spec => []ReadsOwnWrite
<1>1. Init => OwnWrites
  BY DEF Init, OwnWrites, OwnWrite
<1>2. OwnWrites => ReadsOwnWrite
  BY DEF OwnWrites, OwnWrite, ShowsWrite, ReadsOwnWrite
<1>3. QED
  BY <1>1, <1>2, NextOwnWrites, AlwaysTraces, AlwaysShape, PTL DEF Spec

-----------------------------------------------------------------------------
(* A conflict is never spurious.                                           *)

(* What a request that finds another version at its UPDATE can conclude. *)
LEMMA ConflictFound ==
  ASSUME Shape, Snapshots, VersionHistory, Traces, NEW r \in Requests, WriteConflict(r)
  PROVE  \/ rows[call[r].key].life = "gone"
         \/ \E e \in CasEffects : /\ e.key = call[r].key /\ e.req # r
                                  /\ e.base >= call[r].expected
<1> DEFINE key == call[r].key
           row == rows[key]
<1>1. /\ pc[r] = "write" /\ call[r].op \in CasOps /\ key \in Keys
      /\ row.life # "live" \/ row.version # call[r].expected
      /\ call[r].expected \in Nat /\ call[r].expected >= 1
  BY ChangedOK DEF WriteConflict, Matches, Shape, ProgressOK
<1>2. row.version \in Nat /\ item[r].version \in Nat /\ row.life \in Lives
  BY <1>1 DEF Shape, TypeOK, Row
<1>3. row.life # "absent" /\ call[r].expected <= row.version
  BY <1>1, <1>2 DEF Snapshots, FreshEnough
<1>4. CASE row.life = "live"
  <2>1. call[r].expected \in 1..(row.version - 1)
    BY <1>1, <1>2, <1>3, <1>4
  <2>2. PICK e \in CasEffects : e.key = key /\ e.base = call[r].expected
    BY <1>1, <2>1 DEF VersionHistory
  <2>3. e.req # r
    BY <1>1 DEF Traces, Trace, Wrote, CasEffects
  <2>4. QED
    BY <1>1, <2>2, <2>3
<1>5. CASE row.life = "gone"
  BY <1>5
<1>6. QED
  BY <1>2, <1>3, <1>4, <1>5 DEF Lives

(* A removed row stays removed. *)
LEMMA GoneStays ==
  ASSUME Shape, [Next]_vars, NEW key \in Keys, rows[key].life = "gone"
  PROVE  rows'[key].life = "gone"
<1>1. ASSUME NEW r \in Requests, Insert(r) PROVE rows'[key].life = "gone"
  <2>1. PICK k \in FreshKeys(rows, call[r].kind) :
          \E row : rows' = [rows EXCEPT ![k] = row]
    BY <1>1 DEF Insert
  <2>2. k # key
    BY <2>1 DEF FreshKeys
  <2>3. QED
    BY <2>1, <2>2 DEF Shape, TypeOK
<1>2. ASSUME NEW r \in Requests, Write(r) PROVE rows'[key].life = "gone"
  <2>1. rows[call[r].key].life = "live" /\ \E row : rows' = [rows EXCEPT ![call[r].key] = row]
    BY <1>2 DEF Write, Matches
  <2>2. QED
    BY <2>1 DEF Shape, TypeOK
<1>3. ASSUME NEW r \in Requests, Remove(r) PROVE rows'[key].life = "gone"
  BY <1>3 DEF Remove, Shape, TypeOK, Row
<1>4. QED
  BY <1>1, <1>2, <1>3, RowsChange

(* A call that was answered stays as it is. *)
LEMMA AnsweredStays ==
  ASSUME Shape, [Next]_vars, NEW s \in Requests, pc[s] = "done"
  PROVE  call'[s] = call[s]
<1>1. ASSUME NEW r \in Requests, Arrive(r) PROVE call'[s] = call[s]
  <2>1. PICK c \in Call : Enter(r, c)
    BY <1>1, ArrivingCall
  <2>2. QED
    BY <2>1 DEF Enter, Shape, TypeOK
<1>2. ASSUME NEW r \in Requests, Insert(r) PROVE call'[s] = call[s]
  <2>1. pc[r] = "start" /\ \E key : call' = [call EXCEPT ![r].key = key]
    BY <1>2 DEF Insert
  <2>2. QED
    BY <2>1 DEF Shape, TypeOK
<1>3. call' = call \/ \E r \in Requests : Arrive(r) \/ Insert(r)
  BY DEF Next, vars, Finished, Crash, Serve, StatementFails, AuditFails,
     RefuseUnread, Read, InsertDuplicate, Write, WriteConflict, Remove,
     RemoveMissing, Audit, Reread
<1>4. QED
  BY <1>1, <1>2, <1>3

(* Only an UPDATE that matches no row is answered with a conflict. *)
LEMMA ConflictAnswered ==
  ASSUME Shape, [Next]_vars, NEW s \in Requests,
         reply[s] # "conflict", reply'[s] = "conflict"
  PROVE  WriteConflict(s)
<1>1. ASSUME NEW r \in Requests, reply' = reply \/ \E a : Answer(r, a) /\ a # "conflict"
      PROVE  FALSE
  BY <1>1 DEF Answer, Shape, TypeOK
<1>2. ASSUME NEW r \in Requests, Arrive(r) PROVE FALSE
  BY <1>1, <1>2, ArrivingCall DEF Enter
<1>3. ASSUME NEW r \in Requests,
             \/ RefuseUnread(r) \/ Read(r) \/ InsertDuplicate(r)
             \/ RemoveMissing(r) \/ Reread(r) \/ StatementFails(r)
      PROVE  FALSE
  BY <1>1, <1>3 DEF RefuseUnread, Read, InsertDuplicate, RemoveMissing, Reread,
     StatementFails, GoTo
<1>4. ASSUME NEW r \in Requests, Insert(r) \/ Write(r) \/ Remove(r) PROVE FALSE
  <2>1. Committed(r)
    BY <1>4 DEF Insert, Write, Remove
  <2>2. QED
    BY <1>1, <2>1 DEF Committed, GoTo
<1>5. ASSUME NEW r \in Requests, Audit(r) \/ AuditFails(r) PROVE FALSE
  <2>1. pc[r] = "audit" /\ \E ok \in BOOLEAN : AfterAudit(r, ok)
    BY <1>5 DEF Audit, AuditFails
  <2>2. GoTo(r, "reread") \/ Answer(r, "ok") \/ Answer(r, "internal")
    BY <2>1, AfterAuditEnds
  <2>3. QED
    BY <1>1, <2>2 DEF GoTo
<1>6. ASSUME NEW r \in Requests, WriteConflict(r) PROVE r = s
  BY <1>6 DEF WriteConflict, Answer, Shape, TypeOK
<1>7. CASE Crash \/ UNCHANGED vars
  BY <1>7 DEF Crash, vars
<1>8. QED
  BY <1>2, <1>3, <1>4, <1>5, <1>6, <1>7 DEF Next, Serve, Finished

LEMMA NextConflict ==
  ASSUME Shape, Snapshots, VersionHistory, Traces, ConflictMeansProgress, [Next]_vars
  PROVE  ConflictMeansProgress'
<1> DEFINE Progress(s) ==
             \/ rows[call[s].key].life = "gone"
             \/ \E e \in CasEffects : /\ e.key = call[s].key /\ e.req # s
                                      /\ e.base >= call[s].expected
<1> SUFFICES ASSUME NEW s \in Requests, reply'[s] = "conflict" PROVE Progress(s)'
  BY DEF ConflictMeansProgress
<1>1. ASSUME call'[s] = call[s], Progress(s), call[s].key \in Keys PROVE Progress(s)'
  <2>1. CASE rows[call[s].key].life = "gone"
    BY <1>1, <2>1, GoneStays
  <2>2. ASSUME NEW e \in CasEffects, e.key = call[s].key, e.req # s,
               e.base >= call[s].expected
        PROVE  Progress(s)'
    <3>1. e \in CasEffects'
      BY EffectsGrow DEF CasEffects
    <3>2. QED
      BY <1>1, <2>2, <3>1
  <2>3. QED
    BY <1>1, <2>1, <2>2
<1>2. CASE reply[s] = "conflict"
  <2>1. pc[s] = "done"
    BY <1>2 DEF Traces, Trace
  <2>2. call'[s] = call[s] /\ call[s].op \in CasOps /\ call[s].key \in Keys
    BY <1>2, <2>1, AnsweredStays DEF Traces, Trace, Shape, ProgressOK, CallOK, CasOps
  <2>3. QED
    BY <1>1, <1>2, <2>2 DEF ConflictMeansProgress
<1>3. CASE reply[s] # "conflict"
  <2>1. WriteConflict(s)
    BY <1>3, ConflictAnswered
  <2>2. QED
    BY <1>1, <2>1, ConflictFound DEF WriteConflict, Shape, ProgressOK
<1>4. QED
  BY <1>2, <1>3

(* A 409 is never spurious when callers name versions they were given
   (GuessAhead = 0): the row was removed, or another request replaced the
   version the caller named or a later one. *)
THEOREM AlwaysConflictMeansProgress ==
  ASSUME GuessAhead = 0
  PROVE  Spec => []ConflictMeansProgress
<1>1. Init => ConflictMeansProgress
  BY DEF Init, ConflictMeansProgress
<1>2. Shape /\ Snapshots /\ VersionHistory /\ Traces /\ ConflictMeansProgress /\ [Next]_vars
        => ConflictMeansProgress'
  BY NextConflict
<1>3. QED
  BY <1>1, <1>2, AlwaysShape, AlwaysFreshEnough, AlwaysVersionHistory, AlwaysTraces, PTL
     DEF Spec

-----------------------------------------------------------------------------
(* The audit log tells the truth.                                          *)

LEMMA StillTruthful ==
  ASSUME Shape, [Next]_vars, NEW entry, Truthful(entry)
  PROVE  Truthful(entry)'
  BY EffectsGrow DEF Truthful, Tells, TellsRemoval

(* The entry of a request depends on its call and its snapshot only. *)
LEMMA SameEntry ==
  ASSUME NEW s \in Requests, call'[s] = call[s], item'[s] = item[s]
  PROVE  EntryOf(s)' = EntryOf(s)
  BY DEF EntryOf, Before, After

(* The status a deletion read is still the row's or was replaced by a
   transition, whatever other requests do to the row. *)
LEMMA RemovalKept ==
  ASSUME Shape, Snapshots, [Next]_vars, NEW s \in Requests, Truth(s),
         pc[s] = "write", call[s].op = "delete",
         call'[s] = call[s], item'[s] = item[s]
  PROVE  /\ rows'[call[s].key].life # "absent"
         /\ \/ item[s].status = rows'[call[s].key].status
            \/ \E f \in effects' : /\ f.op = "transition" /\ f.key = call[s].key
                                   /\ f.before = item[s].status
                                   /\ f.base < rows'[call[s].key].version
<1> DEFINE key == call[s].key
<1>1. /\ key \in Keys /\ rows[key].life # "absent" /\ Advances(key)
      /\ \/ item[s].status = rows[key].status
         \/ \E f \in effects : /\ f.op = "transition" /\ f.key = key
                               /\ f.before = item[s].status
                               /\ f.base < rows[key].version
  BY RowsAdvance DEF Truth, Shape, ProgressOK
<1>2. /\ rows[key].version \in Nat /\ rows'[key].version \in Nat
      /\ \A f \in effects : f.base \in Nat
  BY <1>1, NextShape DEF Shape, TypeOK, Row, Effect
<1>3. rows'[key].life # "absent"
  BY <1>1 DEF Advances
<1>4. ASSUME NEW f \in effects, f.op = "transition", f.key = key,
             f.before = item[s].status, f.base < rows[key].version
      PROVE  f \in effects' /\ f.base < rows'[key].version
  BY <1>1, <1>2, <1>4, EffectsGrow DEF Advances
<1>5. CASE rows'[key].status = rows[key].status
  BY <1>1, <1>3, <1>4, <1>5
<1>6. ASSUME NEW r \in Requests, Write(r), call[r].key = key
      PROVE  \/ rows'[key].status = rows[key].status
             \/ \E f \in effects' : /\ f.op = "transition" /\ f.key = key
                                    /\ f.before = rows[key].status
                                    /\ f.base < rows'[key].version
  <2>1. PICK e \in Effect :
          /\ effects' = effects \union {e}
          /\ e.op = call[r].op /\ e.op \in CasOps /\ e.key = key
          /\ e.before = rows[key].status /\ e.base = rows[key].version
    BY <1>6, WriteEffect
  <2>2. /\ rows'[key].version = rows[key].version + 1
        /\ rows'[key].status = Changed(r).status
        /\ pc[r] = "write" /\ call[r].op \in CasOps
    BY <1>6, WriteRow DEF Shape, TypeOK
  <2>3. CASE call[r].op = "update"
    <3>1. Changed(r).status = item[r].status
      BY <2>2, <2>3, ChangedOK
    <3>2. item[r].status = rows[key].status
      BY <1>6, WriteFromCurrent
    <3>3. QED
      BY <2>2, <3>1, <3>2
  <2>4. CASE call[r].op = "transition"
    BY <1>2, <2>1, <2>2, <2>4
  <2>5. QED
    BY <2>2, <2>3, <2>4 DEF CasOps
<1>7. \/ rows'[key].status = rows[key].status
      \/ \E r \in Requests : Write(r) /\ call[r].key = key
  <2>1. ASSUME NEW r \in Requests, Insert(r) PROVE rows'[key] = rows[key]
    <3>1. PICK k \in FreshKeys(rows, call[r].kind) :
            \E row : rows' = [rows EXCEPT ![k] = row]
      BY <2>1 DEF Insert
    <3>2. QED
      BY <1>1, <3>1 DEF FreshKeys, Shape, TypeOK
  <2>2. ASSUME NEW r \in Requests, Write(r), call[r].key # key
        PROVE  rows'[key] = rows[key]
    BY <1>1, <2>2 DEF Write, Shape, TypeOK
  <2>3. ASSUME NEW r \in Requests, Remove(r) PROVE rows'[key].status = rows[key].status
    BY <1>1, <2>3 DEF Remove, Shape, TypeOK, Row
  <2>4. QED
    BY <2>1, <2>2, <2>3, RowsChange
<1>8. QED
  BY <1>1, <1>3, <1>4, <1>5, <1>6, <1>7

(* A request that a step leaves at its write or audit statement. *)
LEMMA TruthKept ==
  ASSUME Shape, Snapshots, [Next]_vars, NEW s \in Requests, Truth(s),
         pc'[s] = pc[s] \/ pc'[s] \notin {"write", "audit"},
         pc'[s] = pc[s] => call'[s] = call[s] /\ item'[s] = item[s]
  PROVE  Truth(s)'
<1>1. CASE pc'[s] \notin {"write", "audit"}
  BY <1>1 DEF Truth
<1>2. CASE pc'[s] = "write" /\ pc[s] = "write"
  <2>1. call'[s] = call[s] /\ item'[s] = item[s]
    BY <1>2
  <2>2. CASE call[s].op = "delete"
    BY <1>2, <2>1, <2>2, RemovalKept DEF Truth
  <2>3. CASE call[s].op # "delete"
    BY <1>2, <2>1, <2>3 DEF Truth
  <2>4. QED
    BY <2>2, <2>3
<1>3. CASE pc'[s] = "audit" /\ pc[s] = "audit"
  <2>1. PICK entry : entry = EntryOf(s) /\ entry = EntryOf(s)'
    BY <1>3, SameEntry
  <2>2. Truthful(entry)
    BY <1>3, <2>1 DEF Truth
  <2>3. Truthful(entry)'
    BY <2>2, StillTruthful
  <2>4. Truthful(EntryOf(s))'
    BY <2>1, <2>3 DEF Truthful, Tells, TellsRemoval
  <2>5. QED
    BY <1>3, <2>4 DEF Truth
<1>4. QED
  BY <1>1, <1>2, <1>3

(* The request whose write committed: the audit record it is about to make
   tells of that write. *)
LEMMA InsertTruth ==
  ASSUME Shape, NEW r \in Requests, Insert(r)
  PROVE  Truth(r)'
<1>1. PICK e \in Effect :
        /\ effects' = effects \union {e}
        /\ e.req = r /\ e.op = "create" /\ call'[r].op = "create"
        /\ e.key = call'[r].key /\ e.before = NoStatus
        /\ e.after = item'[r].status
  BY InsertEffect
<1>2. Tells(EntryOf(r), e)'
  BY <1>1 DEF Tells, EntryOf, Before, After
<1>3. Truthful(EntryOf(r))'
  BY <1>1, <1>2 DEF Truthful
<1>4. QED
  BY <1>1, <1>3 DEF Truth

LEMMA WriteTruth ==
  ASSUME Shape, Snapshots, NEW r \in Requests, Write(r)
  PROVE  Truth(r)'
<1>1. PICK e \in Effect :
        /\ effects' = effects \union {e}
        /\ e.req = r /\ e.op = call[r].op /\ e.op \in CasOps
        /\ e.key = call[r].key
        /\ e.before = rows[e.key].status /\ e.after = Changed(r).status
  BY WriteEffect
<1>2. call' = call /\ item' = item /\ pc[r] = "write"
  BY DEF Write
<1>3. e.before = item[r].status
  BY <1>1, WriteFromCurrent
<1>4. e.after = After(r)
  BY <1>1, <1>2, ChangedOK DEF After, CasOps
<1>5. Tells(EntryOf(r), e)'
  BY <1>1, <1>2, <1>3, <1>4, SameEntry DEF Tells, EntryOf, Before, CasOps
<1>6. Truthful(EntryOf(r))'
  BY <1>1, <1>5 DEF Truthful
<1>7. QED
  BY <1>1, <1>2, <1>6 DEF Truth, CasOps

LEMMA RemoveTruth ==
  ASSUME Shape, NEW r \in Requests, Truth(r), Remove(r)
  PROVE  Truth(r)'
<1>1. PICK e \in Effect :
        /\ effects' = effects \union {e}
        /\ e.req = r /\ e.op = "delete" /\ e.after = "deleted"
        /\ e.key = call[r].key
        /\ e.before = rows[e.key].status /\ e.base = rows[e.key].version
  BY RemoveEffect
<1>2. call' = call /\ item' = item /\ pc[r] = "write" /\ call[r].op = "delete"
  BY DEF Remove
<1>3. /\ EntryOf(r).req = r /\ EntryOf(r).op = "delete"
      /\ EntryOf(r).key = e.key /\ EntryOf(r).after = "deleted"
      /\ EntryOf(r).before = item[r].status
  BY <1>1, <1>2 DEF EntryOf, Before, After
<1>4. \/ item[r].status = e.before
      \/ \E f \in effects' : /\ f.op = "transition" /\ f.key = e.key
                             /\ f.before = item[r].status /\ f.base < e.base
  BY <1>1, <1>2 DEF Truth
<1>5. TellsRemoval(EntryOf(r), e)'
  BY <1>1, <1>2, <1>3, <1>4, SameEntry DEF TellsRemoval
<1>6. Truthful(EntryOf(r))'
  BY <1>1, <1>5 DEF Truthful
<1>7. pc'[r] \in {"audit", "done"}
  BY DEF Remove, Committed, GoTo, Answer, Shape, TypeOK
<1>8. QED
  BY <1>6, <1>7 DEF Truth

LEMMA NextTruth ==
  ASSUME Shape, Snapshots, Truths, [Next]_vars, NEW s \in Requests
  PROVE  Truth(s)'
<1>0. Truth(s)
  BY DEF Truths
<1>1. ASSUME NEW r \in Requests, s # r,
             call' = call \/ \E c : call' = [call EXCEPT ![r] = c],
             item' = item \/ \E i : item' = [item EXCEPT ![r] = i],
             \E p : pc' = [pc EXCEPT ![r] = p]
      PROVE  Truth(s)'
  <2>1. call'[s] = call[s] /\ item'[s] = item[s] /\ pc'[s] = pc[s]
    BY <1>1 DEF Shape, TypeOK
  <2>2. QED
    BY <1>0, <2>1, TruthKept
(* Answers, and labels where nothing has to be known. *)
<1>2. ASSUME pc'[s] \notin {"write", "audit"} PROVE Truth(s)'
  BY <1>2 DEF Truth
<1>3. ASSUME NEW r \in Requests, Arrive(r) PROVE Truth(s)'
  <2>1. PICK c \in Call : Enter(r, c)
    BY <1>3, ArrivingCall
  <2>2. CASE s = r
    BY <1>2, <2>1, <2>2 DEF Enter, Shape, TypeOK
  <2>3. CASE s # r
    BY <1>1, <2>1, <2>3 DEF Enter
  <2>4. QED
    BY <2>2, <2>3
<1>4. ASSUME NEW r \in Requests, Read(r) PROVE Truth(s)'
  <2>1. CASE s = r /\ pc'[s] = "write"
    <3>1. /\ rows[call[r].key].life = "live" /\ rows' = rows /\ call' = call
          /\ item'[r] = rows[call[r].key]
      BY <1>4, <2>1 DEF Read, GoTo, Answer, Shape, TypeOK
    <3>2. QED
      BY <2>1, <3>1 DEF Truth
  <2>2. CASE s = r /\ pc'[s] # "write"
    BY <1>2, <1>4, <2>2 DEF Read, GoTo, Answer, Shape, TypeOK
  <2>3. CASE s # r
    BY <1>1, <1>4, <2>3 DEF Read, GoTo, Answer
  <2>4. QED
    BY <2>1, <2>2, <2>3
<1>5. ASSUME NEW r \in Requests, Insert(r) PROVE Truth(s)'
  <2>1. CASE s # r
    <3>1. PICK key, row :
            /\ call' = [call EXCEPT ![r].key = key]
            /\ item' = [item EXCEPT ![r] = row]
            /\ Committed(r)
      BY <1>5 DEF Insert
    <3>2. call' = [call EXCEPT ![r] = [call[r] EXCEPT !.key = key]]
      BY <3>1
    <3>3. \E p : pc' = [pc EXCEPT ![r] = p]
      BY <3>1 DEF Committed, GoTo, Answer
    <3>4. QED
      BY <1>1, <2>1, <3>1, <3>2, <3>3
  <2>2. QED
    BY <1>5, <2>1, InsertTruth
<1>6. ASSUME NEW r \in Requests, Write(r) PROVE Truth(s)'
  <2>1. CASE s # r
    BY <1>1, <1>6, <2>1 DEF Write, Committed, GoTo, Answer
  <2>2. QED
    BY <1>6, <2>1, WriteTruth
<1>7. ASSUME NEW r \in Requests, Remove(r) PROVE Truth(s)'
  <2>1. CASE s # r
    BY <1>1, <1>7, <2>1 DEF Remove, Committed, GoTo, Answer
  <2>2. QED
    BY <1>0, <1>7, <2>1, RemoveTruth
<1>8. ASSUME NEW r \in Requests, Audit(r) \/ AuditFails(r) PROVE Truth(s)'
  <2>1. /\ pc[r] = "audit" /\ call' = call /\ item' = item
        /\ \E ok \in BOOLEAN : AfterAudit(r, ok)
    BY <1>8 DEF Audit, AuditFails
  <2>2. \E p \in {"reread", "done"} : pc' = [pc EXCEPT ![r] = p]
    BY <2>1, AfterAuditShape
  <2>3. QED
    BY <1>1, <1>2, <2>1, <2>2 DEF Shape, TypeOK
<1>9. ASSUME NEW r \in Requests,
             \/ RefuseUnread(r) \/ InsertDuplicate(r) \/ WriteConflict(r)
             \/ RemoveMissing(r) \/ Reread(r) \/ StatementFails(r)
      PROVE  Truth(s)'
  <2>1. /\ call' = call /\ pc' = [pc EXCEPT ![r] = "done"]
        /\ item' = item \/ \E i : item' = [item EXCEPT ![r] = i]
    BY <1>9 DEF RefuseUnread, InsertDuplicate, WriteConflict, RemoveMissing, Reread,
       StatementFails, Answer
  <2>2. QED
    BY <1>1, <1>2, <2>1 DEF Shape, TypeOK
<1>10. CASE Crash
  <2>1. call' = call /\ item' = item
    BY <1>10 DEF Crash
  <2>2. pc'[s] = "done" \/ pc'[s] = pc[s]
    BY <1>10 DEF Crash
  <2>3. QED
    BY <1>0, <2>1, <2>2, TruthKept
<1>11. CASE UNCHANGED vars
  BY <1>0, <1>11, TruthKept DEF vars
<1>12. QED
  BY <1>3, <1>4, <1>5, <1>6, <1>7, <1>8, <1>9, <1>10, <1>11 DEF Next, Serve, Finished

LEMMA NextTruths == Shape /\ Snapshots /\ Truths /\ [Next]_vars => Truths'
<1> SUFFICES ASSUME Shape, Snapshots, Truths, [Next]_vars PROVE Truths'
  OBVIOUS
<1>1. ASSUME NEW i \in DOMAIN auditLog' PROVE Truthful(auditLog[i])'
  <2>1. PICK entry : entry = auditLog'[i]
    OBVIOUS
  <2>2. Truthful(entry)
    <3>1. CASE i \in DOMAIN auditLog /\ entry = auditLog[i]
      BY <3>1 DEF Truths
    <3>2. ASSUME NEW r \in Requests, pc[r] = "audit", entry = EntryOf(r)
          PROVE  Truthful(entry)
      BY <3>2 DEF Truths, Truth
    <3>3. \/ i \in DOMAIN auditLog /\ entry = auditLog[i]
          \/ \E r \in Requests : pc[r] = "audit" /\ entry = EntryOf(r)
      BY <1>1, <2>1, LogChange, AppendedLog
    <3>4. QED
      BY <3>1, <3>2, <3>3
  <2>3. Truthful(entry)'
    BY <2>2, StillTruthful
  <2>4. QED
    BY <2>1, <2>3 DEF Truthful, Tells, TellsRemoval
<1>2. QED
  BY <1>1, NextTruth DEF Truths

(* The audit log tells of committed writes only, of none twice, and truly,
   when callers name versions they were given (GuessAhead = 0): the status a
   record names as replaced is the one the write replaced, or, for a removal,
   one that a transition had replaced before the row was removed. *)
THEOREM AlwaysAuditTruthful ==
  ASSUME GuessAhead = 0
  PROVE  Spec => []AuditTruthful
<1>1. Init => Truths
  BY DEF Init, Truths, Truth
<1>2. Truths /\ Traces => AuditTruthful
  BY DEF Truths, Truthful, Traces, LoggedOnce, AuditTruthful
<1>3. QED
  BY <1>1, <1>2, NextTruths, AlwaysShape, AlwaysFreshEnough, AlwaysTraces, PTL DEF Spec
===============================================================================
