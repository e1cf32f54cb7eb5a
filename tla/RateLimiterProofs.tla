-------------------------- MODULE RateLimiterProofs --------------------------
(***************************************************************************)
(* The limiter, for any number of requests, clients and processes and any  *)
(* limit: types, the bound on what is admitted and on what is refused, and *)
(* the bound on a process's table.  The argument: a Redis key that may     *)
(* still be hit, and a bucket of the current minute, stand at the last     *)
(* count they handed out (Tallies); hence no count is handed out twice,    *)
(* and the requests admitted for a client and a minute inject into the     *)
(* places that counted them times 1..Limit.                                *)
(***************************************************************************)
EXTENDS RateLimiter, FiniteSetTheorems, TLAPS

-----------------------------------------------------------------------------
(* Types.                                                                  *)

LEMMA InitTypes == Init => TypeOK
<1> SUFFICES ASSUME Init PROVE TypeOK
  OBVIOUS
<1>1. 0 \in Minutes /\ NoBucket \in Bucket
  BY LimiterAssumption DEF Minutes, NoBucket, Bucket
<1>2. Redis \in Places
  BY DEF Redis, Places
<1>3. slot \in [Requests -> Slot]
  BY <1>1, <1>2 DEF Init, Slot
<1>4. QED
  BY <1>1, <1>3 DEF Init, TypeOK, PCs, Replies

(* Taking a count writes a slot of the right type. *)
LEMMA CountedTypes ==
  ASSUME TypeOK, NEW r \in Requests, NEW place \in Places, NEW minute \in Minutes,
         NEW count \in Nat, Counted(r, place, minute, count)
  PROVE  /\ slot' \in [Requests -> Slot]
         /\ slot'[r].place = place /\ slot'[r].minute = minute
         /\ slot'[r].count = count
         /\ slot'[r].client = slot[r].client /\ slot'[r].at = slot[r].at
         /\ \A s \in Requests : s # r => slot'[s] = slot[s]
         /\ pc' \in [Requests -> PCs]
         /\ pc'[r] = "judge"
         /\ \A s \in Requests : s # r => pc'[s] = pc[s]
<1>1. slot' = [slot EXCEPT ![r] = [slot[r] EXCEPT !.place = place,
                                     !.minute = minute, !.count = count]]
  BY DEF Counted, TypeOK
<1> DEFINE new == [slot[r] EXCEPT !.place = place, !.minute = minute, !.count = count]
<1>2. slot[r] \in Slot
  BY DEF TypeOK
<1>3. /\ new \in Slot
      /\ new.place = place /\ new.minute = minute /\ new.count = count
      /\ new.client = slot[r].client /\ new.at = slot[r].at
  BY <1>2 DEF Slot
<1>4. slot' = [slot EXCEPT ![r] = new]
  BY <1>1
<1> HIDE DEF new
<1>5. slot'[r] = new /\ slot' \in [Requests -> Slot]
      /\ \A s \in Requests : s # r => slot'[s] = slot[s]
  BY <1>3, <1>4 DEF TypeOK
<1>6. pc' = [pc EXCEPT ![r] = "judge"]
  BY DEF Counted
<1>7. /\ pc' \in [Requests -> PCs] /\ pc'[r] = "judge"
      /\ \A s \in Requests : s # r => pc'[s] = pc[s]
  BY <1>6 DEF TypeOK, PCs
<1>8. QED
  BY <1>3, <1>5, <1>7

LEMMA SweptType ==
  ASSUME NEW table \in [Clients -> Bucket]
  PROVE  Swept(table) \in [Clients -> Bucket]
  BY LimiterAssumption DEF Swept, NoBucket, Bucket, Minutes

LEMMA IncrementedType ==
  ASSUME TypeOK, NEW s \in Slot
  PROVE  /\ Incremented(s) \in [Minutes -> [Clients -> Nat]]
         /\ Incremented(s)[s.minute][s.client] = counters[s.minute][s.client] + 1
         /\ \A minute \in Minutes, client \in Clients :
              minute # s.minute \/ client # s.client =>
                Incremented(s)[minute][client] = counters[minute][client]
  BY DEF TypeOK, Slot, Incremented

(* What incrementLocal does: the swept table of the process gets a bucket   *)
(* of this minute, whose count the request takes. *)
Bucketed(i, client, count) ==
  [Swept(local[i]) EXCEPT ![client] = [window |-> clock, count |-> count]]

CountsIn(r, i, client, count) ==
  /\ pc[r] = "local" /\ i = slot[r].at /\ client = slot[r].client
  /\ Swept(local[i]) \in [Clients -> Bucket]
  /\ [window |-> clock, count |-> count] \in Bucket
  /\ count = 1 + IF Swept(local[i])[client].window = clock
                 THEN Swept(local[i])[client].count ELSE 0
  /\ local' = [local EXCEPT ![i] = Bucketed(i, client, count)]
  /\ clock \in Minutes /\ runs[i] \in Nat
  /\ <<i, runs[i]>> \in Places
  /\ Counted(r, <<i, runs[i]>>, clock, count)
  /\ clock' = clock /\ counters' = counters /\ runs' = runs
  /\ repeats' = repeats /\ reply' = reply

LEMMA CountLocalStep ==
  ASSUME TypeOK, NEW r \in Requests, CountLocal(r)
  PROVE  \E i \in Instances, client \in Clients, count \in Nat \ {0} :
           CountsIn(r, i, client, count)
<1> DEFINE i == slot[r].at
           client == slot[r].client
           table == Swept(local[i])
           count == 1 + IF table[client].window = clock THEN table[client].count ELSE 0
           bucket == [window |-> clock, count |-> count]
<1>1. i \in Instances /\ client \in Clients /\ clock \in Minutes /\ runs[i] \in Nat
  BY DEF TypeOK, Slot
<1>2. table \in [Clients -> Bucket]
  BY <1>1, SweptType DEF TypeOK
<1>3. count \in Nat \ {0}
  BY <1>1, <1>2 DEF Bucket
<1>4. bucket \in Bucket
  BY <1>1, <1>3 DEF Bucket
<1>5. <<i, runs[i]>> \in Places
  BY <1>1 DEF Places
<1>6. /\ pc[r] = "local"
      /\ local' = [local EXCEPT ![i] = [table EXCEPT ![client] = bucket]]
      /\ Counted(r, <<i, runs[i]>>, clock, count)
      /\ clock' = clock /\ counters' = counters /\ runs' = runs
      /\ repeats' = repeats /\ reply' = reply
  BY DEF CountLocal
<1>7. CountsIn(r, i, client, count)
  BY <1>1, <1>2, <1>3, <1>4, <1>5, <1>6 DEF CountsIn, Bucketed
<1> HIDE DEF i, client, count
<1>8. QED
  BY <1>1, <1>3, <1>7

(* A restart, without the bound on their number. *)
LEMMA RestartStep ==
  ASSUME TypeOK, NEW i \in Instances, Restart(i)
  PROVE  /\ runs' = [runs EXCEPT ![i] = @ + 1]
         /\ local' = [local EXCEPT ![i] = [client \in Clients |-> NoBucket]]
         /\ pc' \in [Requests -> PCs]
         /\ reply' \in [Requests -> Replies]
         /\ \A r \in Requests : \/ pc'[r] = pc[r] /\ reply'[r] = reply[r]
                                \/ pc'[r] = "done" /\ reply'[r] = "lost"
         /\ clock' = clock /\ counters' = counters /\ repeats' = repeats
         /\ slot' = slot
<1> DEFINE lost == {r \in Requests : slot[r].at = i /\ pc[r] \notin {"idle", "done"}}
<1>1. /\ runs' = [runs EXCEPT ![i] = @ + 1]
      /\ local' = [local EXCEPT ![i] = [client \in Clients |-> NoBucket]]
      /\ pc' = [r \in Requests |-> IF r \in lost THEN "done" ELSE pc[r]]
      /\ reply' = [r \in Requests |-> IF r \in lost THEN "lost" ELSE reply[r]]
      /\ clock' = clock /\ counters' = counters /\ repeats' = repeats
      /\ slot' = slot
  BY Zenon DEF Restart
<1> HIDE DEF lost
<1>2. pc' \in [Requests -> PCs]
  BY <1>1 DEF TypeOK, PCs
<1>3. reply' \in [Requests -> Replies]
  BY <1>1 DEF TypeOK, Replies
<1>4. \A r \in Requests : \/ pc'[r] = pc[r] /\ reply'[r] = reply[r]
                          \/ pc'[r] = "done" /\ reply'[r] = "lost"
  BY <1>1
<1>5. QED
  BY <1>1, <1>2, <1>3, <1>4

LEMMA NextTypes == TypeOK /\ [Next]_vars => TypeOK'
<1> SUFFICES ASSUME TypeOK, [Next]_vars PROVE TypeOK'
  OBVIOUS
<1>1. ASSUME NEW r \in Requests, Stamp(r) PROVE TypeOK'
  <2>1. [slot[r] EXCEPT !.minute = clock] \in Slot
    BY DEF TypeOK, Slot
  <2>2. slot' \in [Requests -> Slot]
    BY <1>1, <2>1 DEF Stamp, TypeOK
  <2>3. QED
    BY <1>1, <2>2 DEF Stamp, TypeOK, PCs
<1>2. ASSUME NEW r \in Requests, Exec(r) PROVE TypeOK'
  <2>1. slot[r] \in Slot /\ Redis \in Places
    BY DEF TypeOK, Redis, Places
  <2>2. Hits(slot[r]) + 1 \in Nat /\ slot[r].minute \in Minutes
    BY <2>1 DEF Hits, TypeOK, Slot
  <2>3. slot' \in [Requests -> Slot] /\ pc' \in [Requests -> PCs]
    BY <1>2, <2>1, <2>2, CountedTypes DEF Exec
  <2>4. QED
    BY <1>2, <2>1, <2>3, IncrementedType DEF Exec, TypeOK
<1>3. ASSUME NEW r \in Requests, ExecRepeats(r) PROVE TypeOK'
  <2>1. slot[r] \in Slot
    BY DEF TypeOK
  <2>2. repeats' \in [Minutes -> [Clients -> Nat]]
    BY <1>3, <2>1 DEF ExecRepeats, TypeOK, Slot
  <2>3. QED
    BY <1>3, <2>1, <2>2, IncrementedType DEF ExecRepeats, TypeOK
<1>4. ASSUME NEW r \in Requests, ExecFails(r) PROVE TypeOK'
  BY <1>4 DEF ExecFails, TypeOK, PCs
<1>5. ASSUME NEW r \in Requests, CountLocal(r) PROVE TypeOK'
  <2>1. PICK i \in Instances, client \in Clients, count \in Nat \ {0} :
          CountsIn(r, i, client, count)
    BY <1>5, CountLocalStep
  <2>2. local' \in [Instances -> [Clients -> Bucket]]
    BY <2>1 DEF TypeOK, CountsIn, Bucketed
  <2>3. slot' \in [Requests -> Slot] /\ pc' \in [Requests -> PCs]
    BY <2>1, CountedTypes DEF CountsIn
  <2>4. QED
    BY <2>1, <2>2, <2>3 DEF TypeOK, CountsIn
<1>6. ASSUME NEW r \in Requests, Judge(r) PROVE TypeOK'
  BY <1>6 DEF Judge, TypeOK, PCs, Replies
<1>7. CASE Tick
  BY <1>7, LimiterAssumption DEF Tick, TypeOK, Minutes
<1>8. ASSUME NEW minute \in Minutes, Expire(minute) PROVE TypeOK'
  BY <1>8 DEF Expire, TypeOK
<1>9. ASSUME NEW i \in Instances, Restart(i) PROVE TypeOK'
  <2>1. NoBucket \in Bucket
    BY LimiterAssumption DEF NoBucket, Bucket, Minutes
  <2>2. /\ runs' = [runs EXCEPT ![i] = @ + 1]
        /\ local' = [local EXCEPT ![i] = [client \in Clients |-> NoBucket]]
        /\ pc' \in [Requests -> PCs] /\ reply' \in [Requests -> Replies]
        /\ clock' = clock /\ counters' = counters /\ repeats' = repeats
        /\ slot' = slot
    BY <1>9, RestartStep
  <2>3. runs' \in [Instances -> Nat]
    BY <2>2 DEF TypeOK
  <2>4. local' \in [Instances -> [Clients -> Bucket]]
    BY <2>1, <2>2 DEF TypeOK
  <2>5. QED
    BY <2>2, <2>3, <2>4 DEF TypeOK
<1>10. CASE UNCHANGED vars
  BY <1>10 DEF vars, TypeOK
<1>11. QED
  BY <1>1, <1>2, <1>3, <1>4, <1>5, <1>6, <1>7, <1>8, <1>9, <1>10 DEF Next, Finished

(* Type correctness of the limiter's state. *)
THEOREM TypeCorrect == Spec => []TypeOK
  BY InitTypes, NextTypes, PTL DEF Spec
-----------------------------------------------------------------------------
(* What counting one more request, or none, does to the counted ones.      *)

LEMMA CountedAtFinite ==
  ASSUME IsFiniteSet({r \in Requests : Hit(r)}), NEW place, NEW client, NEW minute
  PROVE  /\ IsFiniteSet(CountedAt(place, client, minute))
         /\ Cardinality(CountedAt(place, client, minute)) \in Nat
<1>1. CountedAt(place, client, minute) \subseteq {r \in Requests : Hit(r)}
  BY DEF CountedAt
<1>2. QED
  BY <1>1, FS_Subset, FS_CardinalityType

(* A request takes its count: one place counted one request more.          *)
LEMMA CountAdds ==
  ASSUME TypeOK, IsFiniteSet({r \in Requests : Hit(r)}),
         NEW r \in Requests, slot[r].count = 0,
         NEW client \in Clients, client = slot[r].client,
         NEW place \in Places, NEW minute \in Minutes, NEW count \in Nat \ {0},
         Counted(r, place, minute, count)
  PROVE  /\ IsFiniteSet({q \in Requests : Hit(q)})'
         /\ \A p, m : \A c \in Clients :
              p # place \/ c # client \/ m # minute =>
                CountedAt(p, c, m)' = CountedAt(p, c, m)
         /\ r \notin CountedAt(place, client, minute)
         /\ CountedAt(place, client, minute)'
              = CountedAt(place, client, minute) \union {r}
         /\ Cardinality(CountedAt(place, client, minute)')
              = Cardinality(CountedAt(place, client, minute)) + 1
<1>1. /\ slot'[r].place = place /\ slot'[r].minute = minute
      /\ slot'[r].count = count /\ slot'[r].client = client
      /\ \A s \in Requests : s # r => slot'[s] = slot[s]
  BY CountedTypes
<1>2. Hit(r)' /\ ~Hit(r)
  BY <1>1 DEF Hit
<1>3. \A s \in Requests : s # r => (Hit(s)' <=> Hit(s))
  BY <1>1 DEF Hit
<1>4. {q \in Requests : Hit(q)}' = {q \in Requests : Hit(q)} \union {r}
  BY <1>2, <1>3
<1>5. IsFiniteSet({q \in Requests : Hit(q)})'
  BY <1>4, FS_AddElement
<1>6. ASSUME NEW p, NEW m, NEW c \in Clients,
             p # place \/ c # client \/ m # minute
      PROVE  CountedAt(p, c, m)' = CountedAt(p, c, m)
  BY <1>1, <1>2, <1>3, <1>6 DEF CountedAt
<1>7. CountedAt(place, client, minute)'
        = CountedAt(place, client, minute) \union {r}
  BY <1>1, <1>2, <1>3 DEF CountedAt
<1>8. r \notin CountedAt(place, client, minute)
  BY <1>2 DEF CountedAt
<1>9. Cardinality(CountedAt(place, client, minute)')
        = Cardinality(CountedAt(place, client, minute)) + 1
  <2>1. IsFiniteSet(CountedAt(place, client, minute))
    BY CountedAtFinite
  <2>2. QED
    BY <1>7, <1>8, <2>1, FS_AddElement
<1>10. QED
  BY <1>5, <1>6, <1>7, <1>8, <1>9

(* If the count is above those handed out before, and one above as many as *)
(* the place counted, no count is handed out twice and none is left out.   *)
LEMMA CountInTurn ==
  ASSUME TypeOK, CountedApart, CountedInTurn, repeats' = repeats,
         NEW r \in Requests, slot[r].count = 0,
         NEW client \in Clients, client = slot[r].client,
         NEW place \in Places, NEW minute \in Minutes, NEW count \in Nat \ {0},
         Counted(r, place, minute, count),
         \A q \in CountedAt(place, client, minute) : slot[q].count < count,
         Cardinality(CountedAt(place, client, minute))
           + Unseen(place, client, minute) >= count - 1
  PROVE  CountedApart' /\ CountedInTurn'
<1>1. /\ slot'[r].place = place /\ slot'[r].minute = minute
      /\ slot'[r].count = count /\ slot'[r].client = client
      /\ \A s \in Requests : s # r => slot'[s] = slot[s]
  BY CountedTypes
<1>2. Hit(r)' /\ ~Hit(r)
  BY <1>1 DEF Hit
<1>3. \A s \in Requests : s # r => (Hit(s)' <=> Hit(s))
  BY <1>1 DEF Hit
<1>4. \A s \in Requests : slot[s].count \in Nat
  BY DEF TypeOK, Slot
<1>5. \A s \in Requests :
        Hit(s) /\ slot[s].place = place /\ slot[s].client = client
               /\ slot[s].minute = minute => slot[s].count < count
  BY DEF CountedAt
<1>6. CountedApart'
  <2> SUFFICES ASSUME NEW s \in Requests, NEW t \in Requests, Hit(s)',
                      slot'[s].place = slot'[t].place,
                      slot'[s].client = slot'[t].client,
                      slot'[s].minute = slot'[t].minute,
                      slot'[s].count = slot'[t].count
               PROVE  s = t
    BY DEF CountedApart
  <2>1. Hit(t)'
    BY DEF Hit
  <2>2. CASE s = r
    BY <1>1, <1>3, <1>4, <1>5, <2>1, <2>2
  <2>3. CASE t = r
    BY <1>1, <1>3, <1>4, <1>5, <2>1, <2>3
  <2>4. CASE s # r /\ t # r
    BY <1>1, <1>3, <2>4 DEF CountedApart
  <2>5. QED
    BY <2>2, <2>3, <2>4
<1>7. CountedInTurn'
  <2> SUFFICES ASSUME NEW s \in Requests, Hit(s)'
               PROVE  Cardinality(Earlier(s)')
                        + Unseen(slot[s].place, slot[s].client, slot[s].minute)'
                        >= slot'[s].count - 1
    BY DEF CountedInTurn
  <2>1. CASE s # r
    <3>1. Hit(s) /\ slot'[s] = slot[s]
      BY <1>1, <1>3, <2>1
    <3>2. Earlier(s)' = Earlier(s)
      <4>1. \A q \in Requests : q # r => (q \in Earlier(s)' <=> q \in Earlier(s))
        BY <1>1, <1>3, <3>1 DEF Earlier, CountedAt
      <4>2. r \notin Earlier(s)
        BY <1>2 DEF Earlier, CountedAt
      <4>3. r \notin Earlier(s)'
        BY <1>1, <1>4, <1>5, <3>1 DEF Earlier, CountedAt
      <4>4. Earlier(s)' \subseteq Requests /\ Earlier(s) \subseteq Requests
        BY DEF Earlier, CountedAt
      <4>5. QED
        BY <4>1, <4>2, <4>3, <4>4
    <3>3. Unseen(slot[s].place, slot[s].client, slot[s].minute)'
            = Unseen(slot[s].place, slot[s].client, slot[s].minute)
      BY <3>1 DEF Unseen
    <3>4. QED
      BY <3>1, <3>2, <3>3 DEF CountedInTurn
  <2>2. CASE s = r
    <3>1. Earlier(r)' = CountedAt(place, client, minute)
      BY <1>1, <1>2, <1>3, <1>5 DEF Earlier, CountedAt
    <3>2. Unseen(slot[r].place, slot[r].client, slot[r].minute)'
            = Unseen(place, client, minute)
      BY <1>1 DEF Unseen
    <3>3. QED
      BY <1>1, <2>2, <3>1, <3>2
  <2>3. QED
    BY <2>1, <2>2
<1>8. QED
  BY <1>6, <1>7

(* A step that gives no request a count leaves all that was counted.       *)
LEMMA NoneCounted ==
  ASSUME \A q \in Requests : slot'[q].count = slot[q].count,
         \A q \in Requests : slot[q].count > 0 => slot'[q] = slot[q]
  PROVE  /\ {q \in Requests : Hit(q)}' = {q \in Requests : Hit(q)}
         /\ \A p, client, m : CountedAt(p, client, m)' = CountedAt(p, client, m)
         /\ CountedApart => CountedApart'
         /\ \A q \in Requests : Hit(q) => Earlier(q)' = Earlier(q)
         /\ \A q \in Requests : Hit(q)' => Hit(q) /\ slot'[q] = slot[q]
<1>1. \A q \in Requests : Hit(q)' <=> Hit(q)
  BY DEF Hit
<1>2. \A q \in Requests : Hit(q) => slot'[q] = slot[q]
  BY DEF Hit
<1>3. \A p, client, m : CountedAt(p, client, m)' = CountedAt(p, client, m)
  BY <1>1, <1>2 DEF CountedAt
<1>4. CountedApart => CountedApart'
  <2> SUFFICES ASSUME CountedApart, NEW s \in Requests, NEW t \in Requests, Hit(s)',
                      slot'[s].place = slot'[t].place,
                      slot'[s].client = slot'[t].client,
                      slot'[s].minute = slot'[t].minute,
                      slot'[s].count = slot'[t].count
               PROVE  s = t
    BY DEF CountedApart
  <2>1. Hit(t)'
    BY DEF Hit
  <2>2. QED
    BY <1>1, <1>2, <2>1 DEF CountedApart
<1>5. ASSUME NEW q \in Requests, Hit(q) PROVE Earlier(q)' = Earlier(q)
  <2>1. slot'[q] = slot[q]
    BY <1>2, <1>5
  <2>2. \A s \in Requests : s \in Earlier(q)' <=> s \in Earlier(q)
    BY <1>1, <1>2, <2>1 DEF Earlier, CountedAt
  <2>3. QED
    BY <2>2 DEF Earlier, CountedAt
<1>6. QED
  BY <1>1, <1>2, <1>3, <1>4, <1>5
-----------------------------------------------------------------------------
(* Every step preserves Tallies.                                           *)

LEMMA InitTallies == Init => Tallies
<1> SUFFICES ASSUME Init PROVE Tallies
  OBVIOUS
<1>1. TypeOK
  BY InitTypes
<1>2. \A r \in Requests : slot[r].count = 0 /\ slot[r].minute = 0
  BY DEF Init
<1>3. \A r \in Requests : ~Hit(r)
  BY <1>2 DEF Hit
<1>4. {r \in Requests : Hit(r)} = {}
  BY <1>3
<1>5. IsFiniteSet({r \in Requests : Hit(r)})
  BY <1>4, FS_EmptySet
<1>6. \A r \in Requests : Progress(r) /\ PlaceKnown(r)
  BY <1>2, <1>3 DEF Progress, PlaceKnown, Init
<1>7. CountedApart /\ CountedInTurn
  BY <1>3 DEF CountedApart, CountedInTurn
<1>8. \A p, client, m : CountedAt(p, client, m) = {}
  BY <1>3 DEF CountedAt
<1>9. Cardinality({}) = 0
  BY FS_EmptySet
<1>10. SharedTally
  <2> SUFFICES ASSUME NEW client \in Clients, NEW minute \in Minutes
               PROVE  LET hits == CountedAt(Redis, client, minute) IN
                      /\ \A r \in hits : slot[r].count <= counters[minute][client]
                      /\ Cardinality(hits) + repeats[minute][client]
                           >= counters[minute][client]
    BY DEF SharedTally
  <2>1. counters[minute][client] = 0 /\ repeats[minute][client] = 0
    BY DEF Init
  <2>2. QED
    BY <1>8, <1>9, <2>1
<1>11. LocalTally
  <2> SUFFICES ASSUME NEW i \in Instances, NEW client \in Clients
               PROVE  LET hits == CountedAt(<<i, runs[i]>>, client, clock)
                          bucket == local[i][client] IN
                      /\ bucket.window <= clock
                      /\ hits # {} => bucket.window = clock
                      /\ \A r \in hits : slot[r].count <= bucket.count
                      /\ bucket.window = clock => Cardinality(hits) >= bucket.count
    BY DEF LocalTally
  <2>1. local[i][client].window = 0 /\ local[i][client].count = 0 /\ clock = 0
    BY DEF Init, NoBucket
  <2>2. CountedAt(<<i, runs[i]>>, client, clock) = {}
    BY <1>8
  <2>3. QED
    BY <1>9, <2>1, <2>2
<1>12. QED
  BY <1>1, <1>5, <1>6, <1>7, <1>10, <1>11 DEF Tallies

(* No place is both Redis and a run of a process.                          *)
LEMMA PlacesApart ==
  ASSUME NEW i \in Instances, NEW n PROVE <<i, n>> # Redis
  BY LimiterAssumption DEF Redis

(* Steps that count nothing and leave the tallies and the clock alone.     *)
LEMMA TalliesKept ==
  ASSUME Tallies, TypeOK',
         \A q \in Requests : slot'[q].count = slot[q].count,
         \A q \in Requests : slot[q].count > 0 => slot'[q] = slot[q],
         \A q \in Requests : Progress(q)',
         clock' = clock, counters' = counters, local' = local, runs' = runs,
         repeats' = repeats
  PROVE  Tallies'
<1>1. IsFiniteSet({r \in Requests : Hit(r)})'
  BY NoneCounted DEF Tallies
<1>2. \A q \in Requests : PlaceKnown(q)'
  BY NoneCounted DEF Tallies, PlaceKnown
<1>3. CountedApart'
  BY NoneCounted DEF Tallies
<1>4. CountedInTurn'
  BY NoneCounted DEF Tallies, CountedInTurn, Unseen
<1>5. SharedTally'
  <2>1. \A client, m : CountedAt(Redis, client, m)' = CountedAt(Redis, client, m)
    BY NoneCounted
  <2>2. \A client, m : \A q \in CountedAt(Redis, client, m) : slot'[q].count = slot[q].count
    BY DEF CountedAt
  <2>3. QED
    BY <2>1, <2>2 DEF Tallies, SharedTally, Redis
<1>6. LocalTally'
  <2>1. \A i, client :
          CountedAt(<<i, runs[i]>>, client, clock)' = CountedAt(<<i, runs[i]>>, client, clock)
    BY NoneCounted
  <2>2. \A p, client, m : \A q \in CountedAt(p, client, m) : slot'[q].count = slot[q].count
    BY DEF CountedAt
  <2>3. QED
    BY <2>1, <2>2 DEF Tallies, LocalTally
<1>7. QED
  BY <1>1, <1>2, <1>3, <1>4, <1>5, <1>6 DEF Tallies

LEMMA StampTallies ==
  ASSUME Tallies, TypeOK', NEW r \in Requests, Stamp(r) PROVE Tallies'
<1>1. TypeOK /\ pc[r] = "idle" /\ slot[r].count = 0
  BY DEF Tallies, Progress, Stamp
<1>2. slot[r] \in Slot
  BY <1>1 DEF TypeOK
<1>3. slot' = [slot EXCEPT ![r] = [slot[r] EXCEPT !.minute = clock]]
  BY <1>1 DEF Stamp, TypeOK
<1>4. slot'[r].count = 0 /\ slot'[r].minute = clock
  BY <1>1, <1>2, <1>3 DEF TypeOK, Slot
<1>5. \A q \in Requests : q # r => slot'[q] = slot[q]
  BY <1>1, <1>3 DEF TypeOK
<1>6. \A q \in Requests : q # r => pc'[q] = pc[q]
  BY <1>1 DEF Stamp, TypeOK
<1>7. pc'[r] = "exec" /\ reply' = reply /\ clock' = clock
  BY <1>1 DEF Stamp, TypeOK
<1>8. \A q \in Requests : q # r => Progress(q)'
  BY <1>5, <1>6, <1>7 DEF Tallies, Progress, Hit
<1>9. Progress(r)'
  BY <1>1, <1>4, <1>7 DEF Tallies, Progress, TypeOK, Minutes
<1>10. QED
  BY <1>1, <1>4, <1>5, <1>8, <1>9, TalliesKept DEF Stamp

LEMMA ExecFailsTallies ==
  ASSUME Tallies, TypeOK', NEW r \in Requests, ExecFails(r) PROVE Tallies'
<1>1. \A q \in Requests : Progress(q)'
  BY DEF Tallies, Progress, ExecFails, TypeOK, Hit
<1>2. QED
  BY <1>1, TalliesKept DEF ExecFails

LEMMA JudgeTallies ==
  ASSUME Tallies, TypeOK', NEW r \in Requests, Judge(r) PROVE Tallies'
<1>1. slot[r].count \in Nat /\ Hit(r)
  BY DEF Tallies, TypeOK, Slot, Judge, Progress
<1>2. \A q \in Requests : q # r => Progress(q)'
  BY DEF Tallies, Progress, Judge, TypeOK, Hit
<1>3. Progress(r)'
  BY <1>1, LimiterAssumption DEF Tallies, Progress, Judge, TypeOK, Hit
<1>4. QED
  BY <1>2, <1>3, TalliesKept DEF Judge

(* INCR: the key stood at the last count handed out for this minute. *)
LEMMA ExecTallies ==
  ASSUME Tallies, TypeOK', NEW r \in Requests, Exec(r) PROVE Tallies'
<1>1. TypeOK /\ IsFiniteSet({q \in Requests : Hit(q)}) /\ repeats' = repeats
      /\ CountedApart /\ CountedInTurn /\ SharedTally /\ LocalTally
      /\ local' = local /\ runs' = runs /\ clock' = clock /\ reply' = reply
  BY DEF Tallies, Exec
<1>a. PICK client \in Clients, minute \in Minutes :
        client = slot[r].client /\ minute = slot[r].minute
  BY <1>1 DEF TypeOK, Slot
<1>b. counters[minute][client] \in Nat
  BY <1>1 DEF TypeOK
<1>c. PICK count \in Nat : count = counters[minute][client] + 1
  BY <1>b
<1>0. /\ client = slot[r].client /\ minute = slot[r].minute
      /\ count = counters[minute][client] + 1
  BY <1>a, <1>c
<1>2. slot[r] \in Slot
      /\ counters[minute][client] \in Nat /\ repeats[minute][client] \in Nat
      /\ clock \in Nat /\ minute \in Nat
  BY <1>1, LimiterAssumption DEF TypeOK, Minutes
<1>3. slot[r].count = 0 /\ pc[r] = "exec" /\ clock <= minute + 1 /\ minute <= clock
  BY <1>0 DEF Tallies, Progress, Exec
<1>4. Redis \in Places /\ count \in Nat \ {0}
  BY <1>0, <1>2 DEF Redis, Places
<1>5. Counted(r, Redis, minute, count)
  BY <1>0 DEF Exec, Hits
<1>6. /\ counters'[minute][client] = count
      /\ \A m \in Minutes, c \in Clients :
           m # minute \/ c # client => counters'[m][c] = counters[m][c]
  BY <1>0, <1>1, <1>2, IncrementedType DEF Exec
<1>7. /\ slot'[r].place = Redis /\ slot'[r].minute = minute
      /\ slot'[r].count = count /\ slot'[r].client = client
      /\ \A s \in Requests : s # r => slot'[s] = slot[s] /\ pc'[s] = pc[s]
      /\ pc'[r] = "judge"
  BY <1>0, <1>1, <1>2, <1>4, <1>5, CountedTypes
<1>8. /\ \A q \in CountedAt(Redis, client, minute) : slot[q].count <= counters[minute][client]
      /\ Cardinality(CountedAt(Redis, client, minute)) + repeats[minute][client] >= counters[minute][client]
      /\ Cardinality(CountedAt(Redis, client, minute)) \in Nat
  BY <1>1, <1>2, <1>3, CountedAtFinite DEF SharedTally
<1>9. /\ IsFiniteSet({q \in Requests : Hit(q)})'
      /\ \A p, m : \A c \in Clients :
           p # Redis \/ c # client \/ m # minute =>
             CountedAt(p, c, m)' = CountedAt(p, c, m)
      /\ r \notin CountedAt(Redis, client, minute)
      /\ CountedAt(Redis, client, minute)' = CountedAt(Redis, client, minute) \union {r}
      /\ Cardinality(CountedAt(Redis, client, minute)') = Cardinality(CountedAt(Redis, client, minute)) + 1
  BY <1>0, <1>1, <1>2, <1>3, <1>4, <1>5, CountAdds
<1>10. \A p, c, m : \A q \in CountedAt(p, c, m) : q \in Requests /\ Hit(q)
  BY DEF CountedAt
<1>11. ~Hit(r)
  BY <1>3 DEF Hit
<1>12. CountedApart' /\ CountedInTurn'
  <2>1. \A q \in CountedAt(Redis, client, minute) : slot[q].count < count
    <3>1. \A q \in Requests : slot[q].count \in Nat
      BY <1>1 DEF TypeOK, Slot
    <3>2. QED
      BY <1>0, <1>2, <1>8, <1>10, <3>1
  <2>2. Cardinality(CountedAt(Redis, client, minute))
          + Unseen(Redis, client, minute) >= count - 1
    BY <1>0, <1>2, <1>8 DEF Unseen
  <2>3. QED
    BY <1>0, <1>1, <1>2, <1>3, <1>4, <1>5, <2>1, <2>2, CountInTurn
<1>13. SharedTally'
  <2> SUFFICES ASSUME NEW c \in Clients, NEW m \in Minutes, clock < m + 2
               PROVE  LET hits == CountedAt(Redis, c, m)' IN
                      /\ \A q \in hits : slot'[q].count <= counters'[m][c]
                      /\ Cardinality(hits) + repeats[m][c] >= counters'[m][c]
    BY <1>1 DEF SharedTally, Redis
  <2>1. CASE c = client /\ m = minute
    <3>1. \A q \in CountedAt(Redis, client, minute) : slot'[q].count <= counters[minute][client]
      BY <1>7, <1>8, <1>9, <1>10
    <3>2. \A q \in CountedAt(Redis, client, minute) : slot'[q].count \in Nat
      BY <1>1, <1>7, <1>9, <1>10 DEF TypeOK, Slot
    <3>3. \A q \in CountedAt(Redis, client, minute) \union {r} : slot'[q].count <= count
      BY <1>0, <1>2, <1>7, <3>1, <3>2
    <3>4. CountedAt(Redis, c, m)' = CountedAt(Redis, client, minute) \union {r}
      BY <1>9, <2>1
    <3>5. Cardinality(CountedAt(Redis, c, m)') = Cardinality(CountedAt(Redis, client, minute)) + 1
      BY <1>9, <2>1
    <3>6. Cardinality(CountedAt(Redis, c, m)') + repeats[m][c] >= count
      BY <1>0, <1>2, <1>8, <2>1, <3>5
    <3>7. QED
      BY <1>6, <2>1, <3>3, <3>4, <3>6
  <2>2. CASE c # client \/ m # minute
    <3>1. CountedAt(Redis, c, m)' = CountedAt(Redis, c, m)
      BY <1>9, <2>2
    <3>2. \A q \in CountedAt(Redis, c, m) : slot'[q] = slot[q]
      BY <1>7, <1>10, <1>11
    <3>3. counters'[m][c] = counters[m][c]
      BY <1>6, <2>2
    <3>4. QED
      BY <1>1, <3>1, <3>2, <3>3 DEF SharedTally
  <2>3. QED
    BY <2>1, <2>2
<1>14. LocalTally'
  <2>1. \A i \in Instances, c \in Clients :
          CountedAt(<<i, runs[i]>>, c, clock)' = CountedAt(<<i, runs[i]>>, c, clock)
    <3> SUFFICES ASSUME NEW i \in Instances, NEW c \in Clients
                 PROVE  CountedAt(<<i, runs[i]>>, c, clock)'
                          = CountedAt(<<i, runs[i]>>, c, clock)
      OBVIOUS
    <3>1. PICK n, m : n = runs[i] /\ m = clock
      OBVIOUS
    <3>2. CountedAt(<<i, n>>, c, m)' = CountedAt(<<i, n>>, c, m)
      BY <1>9, PlacesApart
    <3>3. runs'[i] = n /\ clock' = m
      BY <1>1, <3>1
    <3>4. QED
      BY <3>1, <3>2, <3>3
  <2>2. \A p, c, m : \A q \in CountedAt(p, c, m) : slot'[q] = slot[q]
    BY <1>7, <1>10, <1>11
  <2>3. QED
    BY <1>1, <2>1, <2>2 DEF LocalTally
<1>15. \A q \in Requests : PlaceKnown(q)'
  <2>1. PlaceKnown(r)'
    BY <1>7 DEF PlaceKnown, Redis
  <2>2. \A q \in Requests : q # r => PlaceKnown(q)'
    BY <1>1, <1>7 DEF Tallies, PlaceKnown, Redis, Hit
  <2>3. QED
    BY <2>1, <2>2
<1>16. \A q \in Requests : Progress(q)'
  <2>1. Progress(r)'
    BY <1>0, <1>1, <1>2, <1>3, <1>7 DEF Tallies, Progress, Hit
  <2>2. \A q \in Requests : q # r => Progress(q)'
    BY <1>1, <1>7 DEF Tallies, Progress, Hit
  <2>3. QED
    BY <2>1, <2>2
<1>17. QED
  BY <1>9, <1>12, <1>13, <1>14, <1>15, <1>16 DEF Tallies

(* A repeated transaction: the key and the repetitions both grow by one. *)
LEMMA ExecRepeatsTallies ==
  ASSUME Tallies, TypeOK', NEW r \in Requests, ExecRepeats(r) PROVE Tallies'
<1>1. TypeOK /\ IsFiniteSet({q \in Requests : Hit(q)}) /\ slot' = slot /\ pc' = pc
      /\ CountedApart /\ CountedInTurn /\ SharedTally /\ LocalTally
      /\ local' = local /\ runs' = runs /\ clock' = clock /\ reply' = reply
  BY DEF Tallies, ExecRepeats
<1>2. slot[r] \in Slot
  BY <1>1 DEF TypeOK
<1>3. PICK client \in Clients, minute \in Minutes :
        client = slot[r].client /\ minute = slot[r].minute
  BY <1>2 DEF Slot
<1>4. /\ counters'[minute][client] = counters[minute][client] + 1
      /\ \A m \in Minutes, c \in Clients :
           m # minute \/ c # client => counters'[m][c] = counters[m][c]
  BY <1>1, <1>2, <1>3, IncrementedType DEF ExecRepeats
<1>5. repeats' = [repeats EXCEPT ![minute] = [repeats[minute] EXCEPT ![client] = @ + 1]]
  BY <1>1, <1>3 DEF ExecRepeats
<1>6. repeats[minute] \in [Clients -> Nat]
  BY <1>1 DEF TypeOK
<1>7. /\ repeats'[minute][client] = repeats[minute][client] + 1
      /\ \A m \in Minutes, c \in Clients :
           m # minute \/ c # client => repeats'[m][c] = repeats[m][c]
  BY <1>1, <1>5, <1>6 DEF TypeOK
<1>8. \A m \in Minutes, c \in Clients :
        counters[m][c] \in Nat /\ repeats[m][c] \in Nat /\ m \in Nat /\ clock \in Nat
  BY <1>1, LimiterAssumption DEF TypeOK, Minutes
<1>9. /\ {q \in Requests : Hit(q)}' = {q \in Requests : Hit(q)}
      /\ CountedApart'
      /\ \A q \in Requests : Hit(q) => Earlier(q)' = Earlier(q)
      /\ \A q \in Requests : Hit(q)' => Hit(q)
      /\ \A p, c, m : CountedAt(p, c, m)' = CountedAt(p, c, m)
  BY <1>1, NoneCounted
<1>10. IsFiniteSet({q \in Requests : Hit(q)})'
  BY <1>1, <1>9
<1>11. \A q \in Requests : Progress(q)' /\ PlaceKnown(q)'
  BY <1>1 DEF Tallies, Progress, PlaceKnown, Hit, Redis
<1>12. CountedInTurn'
  <2> SUFFICES ASSUME NEW s \in Requests, Hit(s)'
               PROVE  Cardinality(Earlier(s)')
                        + Unseen(slot[s].place, slot[s].client, slot[s].minute)'
                        >= slot'[s].count - 1
    BY DEF CountedInTurn
  <2>1. Hit(s) /\ Earlier(s)' = Earlier(s)
    BY <1>9
  <2>2. Cardinality(Earlier(s))
          + Unseen(slot[s].place, slot[s].client, slot[s].minute) >= slot[s].count - 1
    BY <1>1, <2>1 DEF CountedInTurn
  <2>3. slot[s].minute \in Minutes /\ slot[s].client \in Clients /\ slot[s].count \in Nat
    BY <1>1 DEF TypeOK, Slot
  <2>4. Cardinality(Earlier(s)) \in Nat
    <3>1. Earlier(s) \subseteq {q \in Requests : Hit(q)}
      BY DEF Earlier, CountedAt
    <3>2. QED
      BY <1>1, <3>1, FS_Subset, FS_CardinalityType
  <2>5. Unseen(slot[s].place, slot[s].client, slot[s].minute)'
          >= Unseen(slot[s].place, slot[s].client, slot[s].minute)
        /\ Unseen(slot[s].place, slot[s].client, slot[s].minute)' \in Nat
        /\ Unseen(slot[s].place, slot[s].client, slot[s].minute) \in Nat
    BY <1>1, <1>7, <1>8, <2>3 DEF Unseen, Redis
  <2>6. QED
    BY <1>1, <2>1, <2>2, <2>3, <2>4, <2>5
<1>13. SharedTally'
  <2> SUFFICES ASSUME NEW c \in Clients, NEW m \in Minutes, clock < m + 2
               PROVE  LET hits == CountedAt(Redis, c, m)' IN
                      /\ \A q \in hits : slot[q].count <= counters'[m][c]
                      /\ Cardinality(hits) + repeats'[m][c] >= counters'[m][c]
    BY <1>1 DEF SharedTally, Redis
  <2>1. CountedAt(Redis, c, m)' = CountedAt(Redis, c, m)
    BY <1>9
  <2>2. /\ \A q \in CountedAt(Redis, c, m) : slot[q].count <= counters[m][c]
        /\ Cardinality(CountedAt(Redis, c, m)) + repeats[m][c] >= counters[m][c]
        /\ Cardinality(CountedAt(Redis, c, m)) \in Nat
    BY <1>1, CountedAtFinite DEF SharedTally
  <2>3. \A q \in CountedAt(Redis, c, m) : slot[q].count \in Nat
    BY <1>1 DEF CountedAt, TypeOK, Slot
  <2>4. CASE c = client /\ m = minute
    BY <1>4, <1>7, <1>8, <2>1, <2>2, <2>3, <2>4
  <2>5. CASE c # client \/ m # minute
    BY <1>4, <1>7, <2>1, <2>2, <2>5
  <2>6. QED
    BY <2>4, <2>5
<1>14. LocalTally'
  <2>1. \A i \in Instances, c \in Clients :
          CountedAt(<<i, runs[i]>>, c, clock)' = CountedAt(<<i, runs[i]>>, c, clock)
    BY <1>1, <1>9
  <2>2. QED
    BY <1>1, <2>1 DEF LocalTally
<1>15. QED
  BY <1>9, <1>10, <1>11, <1>12, <1>13, <1>14 DEF Tallies

(* The clock moves on: no request has a count of the new minute. *)
LEMMA TickTallies ==
  ASSUME Tallies, TypeOK', Tick PROVE Tallies'
<1>1. TypeOK /\ IsFiniteSet({q \in Requests : Hit(q)})
      /\ CountedApart /\ CountedInTurn /\ SharedTally /\ LocalTally
      /\ slot' = slot /\ pc' = pc /\ counters' = counters /\ repeats' = repeats
      /\ local' = local /\ runs' = runs /\ clock' = clock + 1 /\ reply' = reply
  BY DEF Tallies, Tick
<1>2. clock \in Nat /\ \A m \in Minutes : m \in Nat
  BY <1>1, LimiterAssumption DEF TypeOK, Minutes
<1>3. /\ {q \in Requests : Hit(q)}' = {q \in Requests : Hit(q)}
      /\ CountedApart'
      /\ \A q \in Requests : Hit(q) => Earlier(q)' = Earlier(q)
      /\ \A q \in Requests : Hit(q)' => Hit(q)
      /\ \A p, c, m : CountedAt(p, c, m)' = CountedAt(p, c, m)
  BY <1>1, NoneCounted
<1>4. IsFiniteSet({q \in Requests : Hit(q)})'
  BY <1>1, <1>3
<1>5. \A q \in Requests : slot[q].minute \in Nat /\ slot[q].minute <= clock
  BY <1>1, LimiterAssumption DEF Tallies, Progress, TypeOK, Slot, Minutes
<1>6. \A q \in Requests : Progress(q)'
  BY <1>1, <1>2, <1>5 DEF Tallies, Progress, Hit, Tick
<1>7. \A q \in Requests : PlaceKnown(q)'
  BY <1>1 DEF Tallies, PlaceKnown, Hit, Redis
<1>8. CountedInTurn'
  BY <1>1, <1>3 DEF CountedInTurn, Unseen, Redis
<1>9. SharedTally'
  <2> SUFFICES ASSUME NEW c \in Clients, NEW m \in Minutes, clock + 1 < m + 2
               PROVE  LET hits == CountedAt(Redis, c, m)' IN
                      /\ \A q \in hits : slot[q].count <= counters[m][c]
                      /\ Cardinality(hits) + repeats[m][c] >= counters[m][c]
    BY <1>1 DEF SharedTally, Redis
  <2>1. clock < m + 2
    BY <1>2
  <2>2. QED
    BY <1>1, <1>3, <2>1 DEF SharedTally
<1>10. LocalTally'
  <2> SUFFICES ASSUME NEW i \in Instances, NEW c \in Clients
               PROVE  /\ local[i][c].window <= clock + 1
                      /\ local[i][c].window # clock + 1
                      /\ CountedAt(<<i, runs[i]>>, c, clock)' = {}
    BY <1>1 DEF LocalTally
  <2>1. local[i][c].window <= clock /\ local[i][c].window \in Nat
    <3>1. local[i][c] \in Bucket
      BY <1>1 DEF TypeOK
    <3>2. local[i][c].window <= clock
      BY <1>1 DEF LocalTally
    <3>3. local[i][c].window \in Nat
      BY <3>1, LimiterAssumption DEF Bucket, Minutes
    <3>4. QED
      BY <3>2, <3>3
  <2>2. CountedAt(<<i, runs[i]>>, c, clock)' = {}
    BY <1>1, <1>2, <1>5 DEF CountedAt
  <2>3. QED
    BY <1>2, <2>1, <2>2
<1>11. QED
  BY <1>3, <1>4, <1>6, <1>7, <1>8, <1>9, <1>10 DEF Tallies

(* A key expires that no request will hit again. *)
LEMMA ExpireTallies ==
  ASSUME Tallies, TypeOK', NEW minute \in Minutes, Expire(minute) PROVE Tallies'
<1>1. TypeOK /\ IsFiniteSet({q \in Requests : Hit(q)})
      /\ CountedApart /\ CountedInTurn /\ SharedTally /\ LocalTally
      /\ slot' = slot /\ pc' = pc /\ repeats' = repeats
      /\ local' = local /\ runs' = runs /\ clock' = clock /\ reply' = reply
      /\ clock >= minute + 2
      /\ counters' = [counters EXCEPT ![minute] = [client \in Clients |-> 0]]
  BY DEF Tallies, Expire
<1>2. clock \in Nat /\ \A m \in Minutes : m \in Nat
  BY <1>1, LimiterAssumption DEF TypeOK, Minutes
<1>3. /\ {q \in Requests : Hit(q)}' = {q \in Requests : Hit(q)}
      /\ CountedApart'
      /\ \A q \in Requests : Hit(q) => Earlier(q)' = Earlier(q)
      /\ \A q \in Requests : Hit(q)' => Hit(q)
      /\ \A p, c, m : CountedAt(p, c, m)' = CountedAt(p, c, m)
  BY <1>1, NoneCounted
<1>4. IsFiniteSet({q \in Requests : Hit(q)})'
  BY <1>1, <1>3
<1>5. \A q \in Requests : Progress(q)' /\ PlaceKnown(q)'
  BY <1>1 DEF Tallies, Progress, PlaceKnown, Hit, Redis
<1>6. CountedInTurn'
  BY <1>1, <1>3 DEF CountedInTurn, Unseen, Redis
<1>7. SharedTally'
  <2> SUFFICES ASSUME NEW c \in Clients, NEW m \in Minutes, clock < m + 2
               PROVE  LET hits == CountedAt(Redis, c, m)' IN
                      /\ \A q \in hits : slot[q].count <= counters'[m][c]
                      /\ Cardinality(hits) + repeats[m][c] >= counters'[m][c]
    BY <1>1 DEF SharedTally, Redis
  <2>1. m # minute
    BY <1>1, <1>2
  <2>2. counters'[m] = counters[m]
    BY <1>1, <2>1 DEF TypeOK
  <2>3. QED
    BY <1>1, <1>3, <2>2 DEF SharedTally
<1>8. LocalTally'
  BY <1>1, <1>3 DEF LocalTally
<1>9. QED
  BY <1>3, <1>4, <1>5, <1>6, <1>7, <1>8 DEF Tallies

(* The process comes back as a place that has counted nothing. *)
LEMMA RestartTallies ==
  ASSUME Tallies, TypeOK', NEW i \in Instances, Restart(i) PROVE Tallies'
<1>1. TypeOK /\ IsFiniteSet({q \in Requests : Hit(q)})
      /\ CountedApart /\ CountedInTurn /\ SharedTally /\ LocalTally
  BY DEF Tallies
<1>2. /\ runs' = [runs EXCEPT ![i] = @ + 1]
      /\ local' = [local EXCEPT ![i] = [client \in Clients |-> NoBucket]]
      /\ \A r \in Requests : \/ pc'[r] = pc[r] /\ reply'[r] = reply[r]
                             \/ pc'[r] = "done" /\ reply'[r] = "lost"
      /\ clock' = clock /\ counters' = counters /\ repeats' = repeats
      /\ slot' = slot
  BY <1>1, RestartStep
<1>3. clock \in Nat /\ runs \in [Instances -> Nat]
  BY <1>1, LimiterAssumption DEF TypeOK, Minutes
<1>4. runs'[i] = runs[i] + 1 /\ \A j \in Instances : j # i => runs'[j] = runs[j]
  BY <1>2, <1>3
<1>5. /\ {q \in Requests : Hit(q)}' = {q \in Requests : Hit(q)}
      /\ CountedApart'
      /\ \A q \in Requests : Hit(q) => Earlier(q)' = Earlier(q)
      /\ \A q \in Requests : Hit(q)' => Hit(q)
      /\ \A p, c, m : CountedAt(p, c, m)' = CountedAt(p, c, m)
  BY <1>1, <1>2, NoneCounted
<1>6. IsFiniteSet({q \in Requests : Hit(q)})'
  BY <1>1, <1>5
<1>7. \A q \in Requests : Progress(q)'
  <2> SUFFICES ASSUME NEW q \in Requests PROVE Progress(q)'
    OBVIOUS
  <2>1. Progress(q)
    BY DEF Tallies
  <2>2. CASE pc'[q] = pc[q] /\ reply'[q] = reply[q]
    BY <1>2, <2>1, <2>2 DEF Progress, Hit
  <2>3. CASE pc'[q] = "done" /\ reply'[q] = "lost"
    BY <1>2, <2>1, <2>3 DEF Progress, Hit
  <2>4. QED
    BY <1>2, <2>2, <2>3
<1>8. \A q \in Requests : PlaceKnown(q)'
  <2> SUFFICES ASSUME NEW q \in Requests, Hit(q), slot[q].place # Redis,
                      NEW j \in Instances, NEW n \in 0..runs[j], slot[q].place = <<j, n>>
               PROVE  n \in 0..runs'[j]
    BY <1>2, <1>5 DEF Tallies, PlaceKnown, Redis
  <2>1. runs[j] \in Nat
    BY <1>3
  <2>2. QED
    BY <1>4, <2>1
<1>9. CountedInTurn'
  BY <1>2, <1>1, <1>5 DEF CountedInTurn, Unseen, Redis
<1>10. SharedTally'
  BY <1>1, <1>2, <1>5 DEF SharedTally, Redis
<1>11. LocalTally'
  <2> SUFFICES ASSUME NEW j \in Instances, NEW c \in Clients
               PROVE  LET hits == CountedAt(<<j, runs[j]>>, c, clock)'
                          bucket == local'[j][c] IN
                      /\ bucket.window <= clock
                      /\ hits # {} => bucket.window = clock
                      /\ \A q \in hits : slot[q].count <= bucket.count
                      /\ bucket.window = clock => Cardinality(hits) >= bucket.count
    BY <1>2 DEF LocalTally
  <2>1. CASE j # i
    <3>1. local'[j] = local[j] /\ runs'[j] = runs[j]
      BY <1>1, <1>2, <1>4, <2>1 DEF TypeOK
    <3>2. CountedAt(<<j, runs[j]>>, c, clock)' = CountedAt(<<j, runs[j]>>, c, clock)
      BY <1>2, <1>5, <3>1
    <3>3. QED
      BY <1>1, <3>1, <3>2 DEF LocalTally
  <2>2. CASE j = i
    <3>1. local'[j][c].window = 0 /\ local'[j][c].count = 0
      BY <1>1, <1>2, <2>2 DEF TypeOK, NoBucket
    <3>2. CountedAt(<<j, runs[j]>>, c, clock)' = {}
      <4> SUFFICES ASSUME NEW q \in Requests, Hit(q), slot[q].place = <<i, runs[i] + 1>>
                   PROVE  FALSE
        BY <1>2, <1>4, <1>5, <2>2 DEF CountedAt
      <4>1. slot[q].place # Redis
        BY PlacesApart
      <4>2. PICK k \in Instances : \E n \in 0..runs[k] : slot[q].place = <<k, n>>
        BY <4>1 DEF Tallies, PlaceKnown
      <4>3. PICK n \in 0..runs[k] : slot[q].place = <<k, n>>
        BY <4>2
      <4>4. k = i /\ n = runs[i] + 1 /\ runs[i] \in Nat
        BY <1>3, <4>3
      <4>5. QED
        BY <4>3, <4>4
    <3>3. QED
      BY <1>3, <3>1, <3>2, FS_EmptySet
  <2>3. QED
    BY <2>1, <2>2
<1>12. QED
  BY <1>5, <1>6, <1>7, <1>8, <1>9, <1>10, <1>11 DEF Tallies

(* The sweep keeps the buckets of this minute; the others are of no use.   *)
LEMMA SweptBuckets ==
  ASSUME NEW table \in [Clients -> Bucket], clock \in Minutes, NEW client \in Clients
  PROVE  /\ \/ Swept(table)[client] = table[client]
            \/ table[client].window < clock /\ Swept(table)[client] = NoBucket
         /\ table[client].window <= clock => Swept(table)[client].window <= clock
         /\ Swept(table)[client].window = clock => Swept(table)[client] = table[client]
         /\ table[client].window = clock => Swept(table)[client] = table[client]
<1>1. /\ table[client].window \in Nat /\ clock \in Nat
      /\ NoBucket.window = 0
  BY LimiterAssumption DEF Bucket, Minutes, NoBucket
<1>2. \/ Swept(table)[client] = table[client]
      \/ table[client].window < clock /\ Swept(table)[client] = NoBucket
  <2>1. CASE Cardinality(Tracked(table)) < CleanupAt
    BY <2>1 DEF Swept
  <2>2. CASE ~(Cardinality(Tracked(table)) < CleanupAt)
    <3>1. Swept(table)[client] = IF table[client].window < clock THEN NoBucket
                                                                ELSE table[client]
      BY <2>2 DEF Swept
    <3>2. QED
      BY <3>1
  <2>3. QED
    BY <2>1, <2>2
<1>3. QED
  BY <1>1, <1>2

(* incrementLocal: a bucket of this minute stood at the last count handed  *)
(* out, and none means that none was. *)
LEMMA CountLocalTallies ==
  ASSUME Tallies, TypeOK', NEW r \in Requests, CountLocal(r) PROVE Tallies'
<1>1. TypeOK /\ IsFiniteSet({q \in Requests : Hit(q)})
      /\ CountedApart /\ CountedInTurn /\ SharedTally /\ LocalTally
  BY DEF Tallies
<1>2. PICK i \in Instances, client \in Clients, count \in Nat \ {0} :
        CountsIn(r, i, client, count)
  BY <1>1, CountLocalStep
<1>3. /\ pc[r] = "local" /\ i = slot[r].at /\ client = slot[r].client
      /\ Swept(local[i]) \in [Clients -> Bucket]
      /\ [window |-> clock, count |-> count] \in Bucket
      /\ count = 1 + IF Swept(local[i])[client].window = clock
                     THEN Swept(local[i])[client].count ELSE 0
      /\ local' = [local EXCEPT ![i] = Bucketed(i, client, count)]
      /\ clock \in Minutes /\ runs[i] \in Nat
      /\ <<i, runs[i]>> \in Places
      /\ Counted(r, <<i, runs[i]>>, clock, count)
      /\ clock' = clock /\ counters' = counters /\ runs' = runs
      /\ repeats' = repeats /\ reply' = reply
  BY <1>2 DEF CountsIn
<1>4. PICK place \in Places, minute \in Minutes : place = <<i, runs[i]>> /\ minute = clock
  BY <1>3
<1>c. Counted(r, place, minute, count) /\ client = slot[r].client
  BY <1>3, <1>4
<1>5. slot[r].count = 0
  BY <1>3 DEF Tallies, Progress
<1>6. /\ slot'[r].place = place /\ slot'[r].minute = minute
      /\ slot'[r].count = count /\ slot'[r].client = client
      /\ \A s \in Requests : s # r => slot'[s] = slot[s] /\ pc'[s] = pc[s]
      /\ pc'[r] = "judge"
  BY <1>1, <1>c, CountedTypes
<1>7. /\ IsFiniteSet({q \in Requests : Hit(q)})'
      /\ \A p, m : \A c \in Clients :
           p # place \/ c # client \/ m # minute =>
             CountedAt(p, c, m)' = CountedAt(p, c, m)
      /\ r \notin CountedAt(place, client, minute)
      /\ CountedAt(place, client, minute)' = CountedAt(place, client, minute) \union {r}
      /\ Cardinality(CountedAt(place, client, minute)')
           = Cardinality(CountedAt(place, client, minute)) + 1
  <2>1. TypeOK /\ IsFiniteSet({q \in Requests : Hit(q)})
    BY <1>1
  <2>2. place \in Places /\ minute \in Minutes /\ count \in Nat \ {0} /\ client \in Clients
    BY <1>4
  <2>3. QED
    BY <2>1, <2>2, <1>c, <1>5, CountAdds, SMTT(30)
<1>8. local[i] \in [Clients -> Bucket] /\ clock \in Nat
  BY <1>1, LimiterAssumption DEF TypeOK, Minutes
<1>9. \A q \in Requests : slot[q].count \in Nat
  BY <1>1 DEF TypeOK, Slot
<1>10. \A p, c, m : \A q \in CountedAt(p, c, m) : q \in Requests /\ Hit(q)
  BY DEF CountedAt
<1>11. ~Hit(r)
  BY <1>5 DEF Hit
(* The tally of the place before the step. *)
<1>12. /\ \A q \in CountedAt(place, client, minute) : slot[q].count < count
       /\ Cardinality(CountedAt(place, client, minute)) >= count - 1
       /\ Cardinality(CountedAt(place, client, minute)) \in Nat
  <2>1. /\ CountedAt(place, client, minute) # {} => local[i][client].window = clock
        /\ \A q \in CountedAt(place, client, minute) :
             slot[q].count <= local[i][client].count
        /\ local[i][client].window = clock =>
             Cardinality(CountedAt(place, client, minute)) >= local[i][client].count
    BY <1>1, <1>4 DEF LocalTally
  <2>2. Cardinality(CountedAt(place, client, minute)) \in Nat
    BY <1>1, CountedAtFinite
  <2>3. local[i][client].count \in Nat
    BY <1>8 DEF Bucket
  <2>7. /\ Swept(local[i])[client].window = clock <=> local[i][client].window = clock
        /\ Swept(local[i])[client].window = clock => Swept(local[i])[client] = local[i][client]
    BY <1>3, <1>8, SweptBuckets
  <2>8. count = 1 + IF Swept(local[i])[client].window = clock
                    THEN Swept(local[i])[client].count ELSE 0
    BY <1>3
  <2>4. CASE local[i][client].window = clock
    <3>1. count = 1 + local[i][client].count
      BY <2>4, <2>7, <2>8
    <3>2. QED
      BY <1>9, <1>10, <2>1, <2>2, <2>3, <2>4, <3>1
  <2>5. CASE local[i][client].window # clock
    <3>1. CountedAt(place, client, minute) = {}
      BY <2>1, <2>5
    <3>2. count = 1
      BY <2>5, <2>7, <2>8
    <3>3. QED
      BY <2>2, <3>1, <3>2
  <2>6. QED
    BY <2>4, <2>5
<1>13. CountedApart' /\ CountedInTurn'
  <2>1. Unseen(place, client, minute) = 0
    BY <1>4, PlacesApart DEF Unseen
  <2>2. Cardinality(CountedAt(place, client, minute)) + Unseen(place, client, minute)
          >= count - 1
    BY <1>12, <2>1
  <2>3. QED
    BY <1>1, <1>3, <1>c, <1>5, <1>12, <2>2, CountInTurn
<1>14. SharedTally'
  <2>1. \A c \in Clients, m \in Minutes :
          CountedAt(Redis, c, m)' = CountedAt(Redis, c, m)
    BY <1>4, <1>7, PlacesApart
  <2>2. \A p, c, m : \A q \in CountedAt(p, c, m) : slot'[q] = slot[q]
    BY <1>6, <1>10, <1>11
  <2>3. clock' = clock /\ counters' = counters /\ repeats' = repeats
    BY <1>3
  <2>4. QED
    BY <1>1, <2>1, <2>2, <2>3 DEF SharedTally, Redis
<1>15. LocalTally'
  <2> SUFFICES ASSUME NEW j \in Instances, NEW c \in Clients
               PROVE  LET hits == CountedAt(<<j, runs[j]>>, c, clock)'
                          bucket == local'[j][c] IN
                      /\ bucket.window <= clock
                      /\ hits # {} => bucket.window = clock
                      /\ \A q \in hits : slot'[q].count <= bucket.count
                      /\ bucket.window = clock => Cardinality(hits) >= bucket.count
    BY <1>3 DEF LocalTally
  <2>1. CASE j = i /\ c = client
    <3>1. local'[j][c] = [window |-> clock, count |-> count]
      BY <1>1, <1>3, <2>1 DEF TypeOK, Bucketed
    <3>2. CountedAt(<<j, runs[j]>>, c, clock)' = CountedAt(place, client, minute) \union {r}
      BY <1>3, <1>4, <1>7, <2>1
    <3>3. Cardinality(CountedAt(<<j, runs[j]>>, c, clock)')
            = Cardinality(CountedAt(place, client, minute)) + 1
      BY <1>7, <3>2
    <3>4. \A q \in CountedAt(place, client, minute) \union {r} : slot'[q].count <= count
      BY <1>6, <1>9, <1>10, <1>11, <1>12
    <3>5. QED
      BY <1>8, <1>12, <3>1, <3>2, <3>3, <3>4
  <2>2. CASE ~(j = i /\ c = client)
    <3>1. PICK p, m : p = <<j, runs[j]>> /\ m = clock
      OBVIOUS
    <3>2. p # place \/ c # client
      BY <1>4, <2>2, <3>1
    <3>3. CountedAt(<<j, runs[j]>>, c, clock)' = CountedAt(p, c, m)
      BY <1>3, <1>7, <3>1, <3>2
    <3>4. \A q \in CountedAt(p, c, m) : slot'[q] = slot[q]
      BY <1>6, <1>10, <1>11
    <3>5. LET bucket == local[j][c] IN
          /\ bucket.window <= clock
          /\ CountedAt(p, c, m) # {} => bucket.window = clock
          /\ \A q \in CountedAt(p, c, m) : slot[q].count <= bucket.count
          /\ bucket.window = clock => Cardinality(CountedAt(p, c, m)) >= bucket.count
      BY <1>1, <3>1 DEF LocalTally
    <3>6. CASE j # i
      <4>1. local'[j] = local[j]
        BY <1>1, <1>3, <3>6 DEF TypeOK
      <4>2. QED
        BY <3>3, <3>4, <3>5, <4>1
    <3>7. CASE j = i
      <4>1. local'[j][c] = Swept(local[i])[c]
        BY <1>1, <1>3, <2>2, <3>7 DEF TypeOK, Bucketed
      <4>2. CASE local'[j][c] = local[j][c]
        BY <3>3, <3>4, <3>5, <4>2
      <4>3. CASE local'[j][c] # local[j][c]
        <5>1. /\ local[j][c].window < clock /\ local'[j][c].window <= clock
              /\ local'[j][c].window # clock
          <6>1. /\ \/ Swept(local[i])[c] = local[i][c]
                   \/ local[i][c].window < clock /\ Swept(local[i])[c] = NoBucket
                /\ local[i][c].window <= clock => Swept(local[i])[c].window <= clock
                /\ Swept(local[i])[c].window = clock => Swept(local[i])[c] = local[i][c]
            BY <1>3, <1>8, SweptBuckets
          <6>2. local[i][c].window <= clock
            BY <3>5, <3>7
          <6>3. QED
            BY <3>7, <4>1, <4>3, <6>1, <6>2
        <5>2. CountedAt(p, c, m) = {}
          <6>1. local[j][c].window \in Nat
            BY <1>8, <3>7, LimiterAssumption DEF Bucket, Minutes
          <6>2. QED
            BY <1>8, <3>5, <5>1, <6>1
        <5>3. QED
          BY <3>3, <5>1, <5>2
      <4>4. QED
        BY <4>2, <4>3
    <3>8. QED
      BY <3>6, <3>7
  <2>3. QED
    BY <2>1, <2>2
<1>16. \A q \in Requests : PlaceKnown(q)'
  <2>0. runs' = runs /\ runs[i] \in Nat
    BY <1>3
  <2>1. runs' = runs /\ runs[i] \in 0..runs[i] /\ slot'[r].place = <<i, runs[i]>>
    BY <1>4, <1>6, <2>0
  <2>2. PlaceKnown(r)'
    BY <2>1 DEF PlaceKnown
  <2>3. \A q \in Requests : q # r => PlaceKnown(q)'
    BY <1>6, <2>1 DEF Tallies, PlaceKnown, Redis, Hit
  <2>4. QED
    BY <2>2, <2>3
<1>17. \A q \in Requests : Progress(q)'
  <2>1. /\ pc[r] = "local" /\ reply' = reply /\ clock' = clock
        /\ count > 0 /\ slot'[r].minute = clock
    <3>1. pc[r] = "local" /\ reply' = reply /\ clock' = clock
      BY <1>3
    <3>2. QED
      BY <1>4, <1>6, <3>1
  <2>2. reply[r] = "none"
    BY <2>1 DEF Tallies, Progress
  <2>3. Progress(r)'
    BY <1>6, <1>8, <2>1, <2>2 DEF Progress, Hit
  <2>4. \A q \in Requests : q # r => Progress(q)'
    BY <1>6, <2>1 DEF Tallies, Progress, Hit
  <2>5. QED
    BY <2>3, <2>4
<1>18. QED
  BY <1>7, <1>13, <1>14, <1>15, <1>16, <1>17 DEF Tallies

LEMMA NextTallies == Tallies /\ [Next]_vars => Tallies'
<1> SUFFICES ASSUME Tallies, [Next]_vars PROVE Tallies'
  OBVIOUS
<1>1. TypeOK'
  BY NextTypes DEF Tallies
<1>2. CASE UNCHANGED vars
  <2>1. \A q \in Requests : Progress(q)'
    BY <1>2 DEF vars, Tallies, Progress, Hit
  <2>2. QED
    BY <1>1, <1>2, <2>1, TalliesKept DEF vars
<1>3. CASE Next
  BY <1>1, <1>2, <1>3, StampTallies, ExecTallies, ExecRepeatsTallies, ExecFailsTallies,
     CountLocalTallies, JudgeTallies, TickTallies, ExpireTallies, RestartTallies
     DEF Next, Finished
<1>4. QED
  BY <1>2, <1>3

LEMMA AlwaysTallies == Spec => []Tallies
  BY InitTallies, NextTallies, PTL DEF Spec

-----------------------------------------------------------------------------
(* What the tallies are for.                                               *)

(* Every count is handed out once, and only those up to Limit are admitted:
   the counting in middleware/ratelimit.go, whatever expires, is repeated,
   swept or restarted. *)
THEOREM AlwaysGrantedOnce == Spec => []GrantedOnce
<1>1. ASSUME Tallies PROVE GrantedOnce
  <2>1. \A r \in Requests : reply[r] = "admitted" => slot[r].count \in 1..Limit
    BY <1>1 DEF Tallies, Progress
  <2>2. \A r \in Requests : reply[r] = "admitted" => Hit(r)
    BY <2>1, LimiterAssumption DEF Hit
  <2>3. CountedApart
    BY <1>1 DEF Tallies
  <2>4. QED
    BY <2>1, <2>2, <2>3 DEF GrantedOnce, CountedApart
<1>2. QED
  BY <1>1, AlwaysTallies, PTL

(* A refusal has Limit earlier hits behind it: no request is refused while
   its place has room for its client and minute. *)
THEOREM AlwaysRefusedOnlyWhenFull == Spec => []RefusedOnlyWhenFull
<1>1. ASSUME Tallies PROVE RefusedOnlyWhenFull
  <2> SUFFICES ASSUME NEW r \in Requests, reply[r] = "refused"
               PROVE  LET s == slot[r]
                          earlier == {q \in Requests :
                            /\ slot[q].place = s.place /\ slot[q].client = s.client
                            /\ slot[q].minute = s.minute
                            /\ slot[q].count \in 1..(s.count - 1)}
                          unseen == IF s.place = Redis
                                    THEN repeats[s.minute][s.client] ELSE 0
                      IN Cardinality(earlier) + unseen >= Limit
    BY DEF RefusedOnlyWhenFull
  <2>1. \A q \in Requests : slot[q].count \in Nat
    BY <1>1 DEF Tallies, TypeOK, Slot
  <2>2. slot[r].count > Limit /\ Limit \in Nat
    BY <1>1, LimiterAssumption DEF Tallies, Progress
  <2>3. Hit(r)
    BY <2>1, <2>2 DEF Hit
  <2>4. Cardinality(Earlier(r)) + Unseen(slot[r].place, slot[r].client, slot[r].minute)
          >= slot[r].count - 1
    BY <1>1, <2>3 DEF Tallies, CountedInTurn
  <2>5. Earlier(r) = {q \in Requests :
                        /\ slot[q].place = slot[r].place /\ slot[q].client = slot[r].client
                        /\ slot[q].minute = slot[r].minute
                        /\ slot[q].count \in 1..(slot[r].count - 1)}
    BY <2>1 DEF Earlier, CountedAt, Hit
  <2>6. Cardinality(Earlier(r)) \in Nat
    <3>1. Earlier(r) \subseteq {q \in Requests : Hit(q)}
      BY DEF Earlier, CountedAt
    <3>2. QED
      BY <1>1, <3>1, FS_Subset, FS_CardinalityType DEF Tallies
  <2>7. slot[r] \in Slot
    BY <1>1 DEF Tallies, TypeOK
  <2>8. Unseen(slot[r].place, slot[r].client, slot[r].minute) \in Nat
    BY <1>1, <2>7 DEF Unseen, Tallies, TypeOK, Slot
  <2>9. Cardinality(Earlier(r)) + Unseen(slot[r].place, slot[r].client, slot[r].minute)
          >= Limit
    BY <2>1, <2>2, <2>4, <2>6, <2>8
  <2>10. QED
    BY <2>5, <2>9 DEF Unseen
<1>2. QED
  BY <1>1, AlwaysTallies, PTL

(* All processes together admit Limit requests of a client and a minute for
   each place that counted some: Redis alone, or the runs that were cut off
   from it as well. *)
THEOREM AlwaysSharedLimit == Spec => []SharedLimit
<1>1. ASSUME Tallies PROVE SharedLimit
  <2> SUFFICES ASSUME NEW client \in Clients, NEW minute \in Minutes
               PROVE  Cardinality(Admitted(client, minute))
                        <= Limit * Cardinality({slot[r].place : r \in Admitted(client, minute)})
    BY DEF SharedLimit
  <2> DEFINE admitted == Admitted(client, minute)
             places == {slot[r].place : r \in admitted}
             turn == [r \in admitted |-> <<slot[r].place, slot[r].count>>]
             from == [r \in admitted |-> slot[r].place]
  <2>1. \A r \in admitted : /\ r \in Requests /\ reply[r] = "admitted"
                            /\ slot[r].client = client /\ slot[r].minute = minute
    BY DEF Admitted
  <2>2. \A r \in admitted : slot[r].count \in 1..Limit
    BY <1>1, <2>1 DEF Tallies, Progress
  <2>3. \A r \in admitted : Hit(r)
    BY <2>2, LimiterAssumption DEF Hit
  <2>4. IsFiniteSet(admitted)
    <3>1. admitted \subseteq {r \in Requests : Hit(r)}
      BY <2>1, <2>3
    <3>2. QED
      BY <1>1, <3>1, FS_Subset DEF Tallies
  <2>5. IsFiniteSet(places) /\ Cardinality(places) \in Nat
    <3>1. from \in Surjection(admitted, places)
      BY DEF Surjection
    <3>2. QED
      BY <2>4, <3>1, FS_Surjection, FS_CardinalityType
  <2>6. IsFiniteSet(1..Limit) /\ Cardinality(1..Limit) = Limit
    BY FS_Interval, LimiterAssumption
  <2>7. /\ IsFiniteSet(places \X (1..Limit))
        /\ Cardinality(places \X (1..Limit)) = Cardinality(places) * Limit
    BY <2>5, <2>6, FS_Product
  <2>8. turn \in Injection(admitted, places \X (1..Limit))
    <3>1. turn \in [admitted -> places \X (1..Limit)]
      BY <2>2
    <3>2. ASSUME NEW r \in admitted, NEW s \in admitted, turn[r] = turn[s] PROVE r = s
      <4>1. slot[r].place = slot[s].place /\ slot[r].count = slot[s].count
        BY <3>2
      <4>2. QED
        BY <1>1, <2>1, <2>3, <4>1 DEF Tallies, CountedApart
    <3>3. QED
      BY <3>1, <3>2 DEF Injection, IsInjective
  <2>9. Cardinality(admitted) <= Cardinality(places \X (1..Limit))
    BY <2>7, <2>8, FS_Injection
  <2>10. Cardinality(places) * Limit = Limit * Cardinality(places)
    BY <2>5, LimiterAssumption
  <2>11. QED
    BY <2>7, <2>9, <2>10
<1>2. QED
  BY <1>1, AlwaysTallies, PTL

-----------------------------------------------------------------------------
(* The table of a process.                                                 *)

LEMMA InitTables == Init => Tables
<1> SUFFICES ASSUME Init PROVE Tables
  OBVIOUS
<1>1. \A i \in Instances, client \in Clients :
        local[i][client].count = 0 /\ local[i][client].window = 0 /\ clock = 0
  BY DEF Init, NoBucket
<1>2. \A i \in Instances : Tracked(local[i]) = {}
  BY <1>1 DEF Tracked
<1>3. QED
  BY <1>1, <1>2, FS_EmptySet DEF Tables, TableBounded

(* Storing a bucket: either the table was below CleanupAt, or everything   *)
(* that is left in it is of this minute. *)
LEMMA BucketedTable ==
  ASSUME TypeOK, NEW i \in Instances, NEW client \in Clients, NEW count \in Nat \ {0},
         [window |-> clock, count |-> count] \in Bucket,
         Swept(local[i]) \in [Clients -> Bucket],
         IsFiniteSet(Tracked(local[i])),
         \A c \in Clients : local[i][c].window <= clock
  PROVE  LET new == Bucketed(i, client, count) IN
         /\ IsFiniteSet(Tracked(new))
         /\ \A c \in Clients : new[c].window <= clock
         /\ \/ Cardinality(Tracked(new)) <= CleanupAt
            \/ \A c \in Tracked(new) : new[c].window = clock
<1> DEFINE new == Bucketed(i, client, count)
<1>1. local[i] \in [Clients -> Bucket] /\ clock \in Nat /\ clock \in Minutes
  BY LimiterAssumption DEF TypeOK, Minutes
<1>2. /\ new[client].window = clock
      /\ \A c \in Clients : c # client => new[c] = Swept(local[i])[c]
  BY DEF Bucketed
<1>3. \A c \in Clients : new[c].window <= clock
  <2>1. \A c \in Clients : Swept(local[i])[c].window <= clock
    BY <1>1, SweptBuckets
  <2>2. QED
    BY <1>1, <1>2, <2>1
<1>4. Tracked(new) \subseteq Tracked(local[i]) \union {client}
  <2> SUFFICES ASSUME NEW c \in Clients, c # client, Swept(local[i])[c].count > 0
               PROVE  local[i][c].count > 0
    BY <1>2 DEF Tracked
  <2>1. ~(NoBucket.count > 0)
    BY DEF NoBucket
  <2>2. Swept(local[i])[c] = local[i][c]
    BY <1>1, <2>1, SweptBuckets
  <2>3. QED
    BY <2>2
<1>5. /\ IsFiniteSet(Tracked(local[i]) \union {client})
      /\ Cardinality(Tracked(local[i]) \union {client})
           <= Cardinality(Tracked(local[i])) + 1
      /\ Cardinality(Tracked(local[i])) \in Nat
      /\ Cardinality(Tracked(local[i]) \union {client}) \in Nat
  <2>1. Cardinality(Tracked(local[i])) \in Nat
    BY FS_CardinalityType
  <2>2. /\ IsFiniteSet(Tracked(local[i]) \union {client})
        /\ \/ Cardinality(Tracked(local[i]) \union {client}) = Cardinality(Tracked(local[i]))
           \/ Cardinality(Tracked(local[i]) \union {client})
                = Cardinality(Tracked(local[i])) + 1
    BY FS_AddElement
  <2>3. QED
    BY <2>1, <2>2
<1>6. /\ IsFiniteSet(Tracked(new)) /\ Cardinality(Tracked(new)) \in Nat
      /\ Cardinality(Tracked(new)) <= Cardinality(Tracked(local[i]) \union {client})
  BY <1>4, <1>5, FS_Subset, FS_CardinalityType
<1>7. CASE Cardinality(Tracked(local[i])) < CleanupAt
  BY <1>3, <1>5, <1>6, <1>7, LimiterAssumption
<1>8. CASE ~(Cardinality(Tracked(local[i])) < CleanupAt)
  <2> SUFFICES ASSUME NEW c \in Clients, c # client, new[c].count > 0
               PROVE  new[c].window = clock
    BY <1>2, <1>3, <1>6 DEF Tracked
  <2>1. new[c] = IF local[i][c].window < clock THEN NoBucket ELSE local[i][c]
    BY <1>2, <1>8 DEF Swept
  <2>2. new[c] = local[i][c] /\ ~(local[i][c].window < clock)
    BY <2>1 DEF NoBucket
  <2>3. local[i][c].window \in Nat /\ local[i][c].window <= clock
    BY <1>1, LimiterAssumption DEF Bucket, Minutes
  <2>4. QED
    BY <1>1, <2>2, <2>3
<1>9. QED
  BY <1>7, <1>8

LEMMA NextTables == TypeOK /\ Tables /\ [Next]_vars => Tables'
<1> SUFFICES ASSUME TypeOK, Tables, [Next]_vars PROVE Tables'
  OBVIOUS
<1>1. \A i \in Instances, c \in Clients : local[i][c].window <= clock
  BY DEF Tables
<1>2. CASE local' = local /\ clock' = clock
  BY <1>2 DEF Tables, TableBounded, Tracked
<1>3. ASSUME NEW r \in Requests, CountLocal(r) PROVE Tables'
  <2>1. PICK i \in Instances, client \in Clients, count \in Nat \ {0} :
          CountsIn(r, i, client, count)
    BY <1>3, CountLocalStep
  <2>2. /\ local' = [local EXCEPT ![i] = Bucketed(i, client, count)]
        /\ [window |-> clock, count |-> count] \in Bucket
        /\ Swept(local[i]) \in [Clients -> Bucket] /\ clock' = clock
    BY <2>1 DEF CountsIn
  <2>3. local'[i] = Bucketed(i, client, count)
        /\ \A j \in Instances : j # i => local'[j] = local[j]
    BY <2>2 DEF TypeOK
  <2>4. IsFiniteSet(Tracked(local[i]))
    BY DEF Tables
  <2>5. /\ IsFiniteSet(Tracked(Bucketed(i, client, count)))
        /\ \A c \in Clients : Bucketed(i, client, count)[c].window <= clock
        /\ \/ Cardinality(Tracked(Bucketed(i, client, count))) <= CleanupAt
           \/ \A c \in Tracked(Bucketed(i, client, count)) :
                Bucketed(i, client, count)[c].window = clock
    BY <1>1, <2>1, <2>2, <2>4, BucketedTable
  <2>6. \A j \in Instances :
          /\ IsFiniteSet(Tracked(local'[j]))
          /\ \A c \in Clients : local'[j][c].window <= clock
          /\ Cardinality(Tracked(local'[j])) > CleanupAt =>
               \A c, d \in Tracked(local'[j]) : local'[j][c].window = local'[j][d].window
    <3> SUFFICES ASSUME NEW j \in Instances
                 PROVE  /\ IsFiniteSet(Tracked(local'[j]))
                        /\ \A c \in Clients : local'[j][c].window <= clock
                        /\ Cardinality(Tracked(local'[j])) > CleanupAt =>
                             \A c, d \in Tracked(local'[j]) :
                               local'[j][c].window = local'[j][d].window
      OBVIOUS
    <3>1. CASE j # i
      <4>1. local'[j] = local[j]
        BY <2>3, <3>1
      <4>2. QED
        BY <4>1 DEF Tables, TableBounded
    <3>2. CASE j = i
      <4>1. IsFiniteSet(Tracked(local'[j])) /\ Cardinality(Tracked(local'[j])) \in Nat
        BY <2>3, <2>5, <3>2, FS_CardinalityType
      <4>2. \/ Cardinality(Tracked(local'[j])) <= CleanupAt
            \/ \A c \in Tracked(local'[j]) : local'[j][c].window = clock
        BY <2>3, <2>5, <3>2
      <4>3. \A c \in Clients : local'[j][c].window <= clock
        BY <2>3, <2>5, <3>2
      <4>4. QED
        BY <4>1, <4>2, <4>3, LimiterAssumption
    <3>3. QED
      BY <3>1, <3>2
  <2>7. \A j \in Instances : Tracked(local[j])' = Tracked(local'[j])
    BY DEF Tracked
  <2>8. QED
    BY <2>2, <2>6 DEF Tables, TableBounded, Tracked
<1>4. CASE Tick
  <2>1. local' = local /\ clock' = clock + 1 /\ clock \in Nat
    BY <1>4, LimiterAssumption DEF Tick, TypeOK, Minutes
  <2>2. \A i \in Instances, c \in Clients : local[i][c].window <= clock + 1
    <3> SUFFICES ASSUME NEW i \in Instances, NEW c \in Clients
                 PROVE  local[i][c].window <= clock + 1
      OBVIOUS
    <3>1. local[i][c] \in Bucket
      BY DEF TypeOK
    <3>2. local[i][c].window \in Nat
      BY <3>1, LimiterAssumption DEF Bucket, Minutes
    <3>3. QED
      BY <1>1, <2>1, <3>2
  <2>3. QED
    BY <2>1, <2>2 DEF Tables, TableBounded, Tracked
<1>5. ASSUME NEW i \in Instances, Restart(i) PROVE Tables'
  <2>1. local' = [local EXCEPT ![i] = [client \in Clients |-> NoBucket]] /\ clock' = clock
    BY <1>5, RestartStep
  <2>2. clock \in Nat
    BY LimiterAssumption DEF TypeOK, Minutes
  <2>3. \A c \in Clients : local'[i][c].window = 0 /\ local'[i][c].count = 0
    BY <2>1 DEF TypeOK, NoBucket
  <2>4. \A j \in Instances : j # i => local'[j] = local[j]
    BY <2>1 DEF TypeOK
  <2>5. Tracked(local'[i]) = {}
    BY <2>3 DEF Tracked
  <2>6. \A j \in Instances :
          /\ IsFiniteSet(Tracked(local'[j]))
          /\ \A c \in Clients : local'[j][c].window <= clock
          /\ Cardinality(Tracked(local'[j])) > CleanupAt =>
               \A c, d \in Tracked(local'[j]) : local'[j][c].window = local'[j][d].window
    <3> SUFFICES ASSUME NEW j \in Instances
                 PROVE  /\ IsFiniteSet(Tracked(local'[j]))
                        /\ \A c \in Clients : local'[j][c].window <= clock
                        /\ Cardinality(Tracked(local'[j])) > CleanupAt =>
                             \A c, d \in Tracked(local'[j]) :
                               local'[j][c].window = local'[j][d].window
      OBVIOUS
    <3>1. CASE j # i
      <4>1. local'[j] = local[j]
        BY <2>4, <3>1
      <4>2. QED
        BY <4>1 DEF Tables, TableBounded
    <3>2. CASE j = i
      <4>1. IsFiniteSet(Tracked(local'[i]))
        BY <2>5, FS_EmptySet
      <4>2. QED
        BY <2>2, <2>3, <2>5, <3>2, <4>1
    <3>3. QED
      BY <3>1, <3>2
  <2>7. QED
    BY <2>1, <2>6 DEF Tables, TableBounded, Tracked
<1>6. QED
  <2>1. CASE UNCHANGED vars
    BY <1>2, <2>1 DEF vars
  <2>2. CASE \E r \in Requests : Stamp(r) \/ Exec(r) \/ ExecRepeats(r) \/ ExecFails(r) \/ Judge(r)
    BY <1>2, <2>2 DEF Stamp, Exec, ExecRepeats, ExecFails, Judge
  <2>3. CASE \E minute \in Minutes : Expire(minute)
    BY <1>2, <2>3 DEF Expire
  <2>4. QED
    BY <1>3, <1>4, <1>5, <2>1, <2>2, <2>3 DEF Next, Finished

(* cleanupLocal keeps a process's table at CleanupAt buckets, but for those
   of one minute. *)
THEOREM AlwaysTableBounded == Spec => []TableBounded
<1>1. Tables => TableBounded
  BY DEF Tables
<1>2. QED
  BY <1>1, InitTables, NextTables, TypeCorrect, PTL DEF Spec
==============================================================================
