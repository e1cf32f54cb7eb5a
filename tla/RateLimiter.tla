----------------------------- MODULE RateLimiter -----------------------------
(***************************************************************************)
(* The limiter in front of every /api route but the login                  *)
(* (middleware/ratelimit.go, router/router.go).                            *)
(* A request is counted for its client and route in the current minute: in *)
(* Redis, which all backend processes share, or, when Redis is not         *)
(* configured or does not answer, in a map of the process that serves it.  *)
(*                                                                         *)
(* The Redis key and the local bucket come from two readings of the clock; *)
(* it may move on between them, and before the key is counted.             *)
(***************************************************************************)
EXTENDS Naturals, FiniteSets, Functions

CONSTANTS
  Requests,
  Clients,    \* the pairs of client address and route that are counted apart
  Instances,  \* the backend processes
  Shared,     \* the Redis server
  Limit,      \* requests a client may make in a minute
  CleanupAt,  \* size of the local map from which it is swept (512)
  LastMinute, \* bound: the clock stops here
  MaxRestarts \* bound: restarts of all processes together

ASSUME LimiterAssumption ==
  /\ Shared \notin Instances
  /\ Limit \in Nat \ {0}
  /\ CleanupAt \in Nat
  /\ LastMinute \in Nat
  /\ MaxRestarts \in Nat

VARIABLES
  clock,    \* the current minute
  counters, \* Redis: "rate:<minute>:<client>", 0 when there is no such key
  local,    \* the map of each process, a bucket of count 0 when there is none
  runs,     \* how often each process was restarted
  repeats,  \* history: hits in Redis that no request was told of
  pc,
  slot,     \* what a request counts for, and the count it got
  reply

vars == <<clock, counters, local, runs, repeats, pc, slot, reply>>

Minutes == 0..LastMinute
Bucket == [window : Minutes, count : Nat]
NoBucket == [window |-> 0, count |-> 0]

(* Where a request was counted: Redis, or one run of one process. *)
Places == (Instances \union {Shared}) \X Nat
Redis == <<Shared, 0>>

Slot == [client : Clients, at : Instances, place : Places,
         minute : Minutes, count : Nat]
PCs == {"idle", "exec", "local", "judge", "done"}
Replies == {"none", "admitted", "refused", "lost"}

Init ==
  /\ clock = 0
  /\ counters = [minute \in Minutes |-> [client \in Clients |-> 0]]
  /\ local = [i \in Instances |-> [client \in Clients |-> NoBucket]]
  /\ runs = [i \in Instances |-> 0]
  /\ repeats = counters
  /\ pc = [r \in Requests |-> "idle"]
  /\ slot \in [Requests ->
       {[client |-> client, at |-> i, place |-> Redis, minute |-> 0, count |-> 0] :
          client \in Clients, i \in Instances}]
  /\ reply = [r \in Requests |-> "none"]

-----------------------------------------------------------------------------
(* Counting.                                                               *)

(* Mutant: the key is built from the next minute. *)
StampAhead(r) ==
  /\ pc[r] = "idle"
  /\ slot' = [slot EXCEPT ![r].minute = clock + 1]
  /\ pc' = [pc EXCEPT ![r] = "exec"]
  /\ UNCHANGED <<clock, counters, local, runs, repeats, reply>>

(* increment builds the Redis key from the clock.  Where REDIS_ADDR is not  *)
(* set every request goes on as in ExecFails. *)
Stamp(r) ==
  /\ pc[r] = "idle"
  /\ slot' = [slot EXCEPT ![r].minute = clock]
  /\ pc' = [pc EXCEPT ![r] = "exec"]
  /\ UNCHANGED <<clock, counters, local, runs, repeats, reply>>

Counted(r, place, minute, count) ==
  /\ slot' = [slot EXCEPT ![r].place = place, ![r].minute = minute,
                          ![r].count = count]
  /\ pc' = [pc EXCEPT ![r] = "judge"]

Hits(s) == counters[s.minute][s.client]

Incremented(s) == [counters EXCEPT ![s.minute][s.client] = @ + 1]

(* INCR and EXPIRE in one MULTI/EXEC. *)
Exec(r) ==
  LET s == slot[r] IN
  /\ pc[r] = "exec"
  /\ counters' = Incremented(s)
  /\ Counted(r, Redis, s.minute, Hits(s) + 1)
  /\ UNCHANGED <<clock, local, runs, repeats, reply>>

(* The transaction ran, its answer was lost, and the driver repeats it.    *)
(* Bound: a counter at the limit need not grow further. *)
ExecRepeats(r) ==
  /\ pc[r] = "exec" /\ Hits(slot[r]) < Limit
  /\ counters' = Incremented(slot[r])
  /\ repeats' = [repeats EXCEPT ![slot[r].minute][slot[r].client] = @ + 1]
  /\ UNCHANGED <<clock, local, runs, pc, slot, reply>>

(* The driver gives up: the local map counts the request instead. *)
ExecFails(r) ==
  /\ pc[r] = "exec"
  /\ pc' = [pc EXCEPT ![r] = "local"]
  /\ UNCHANGED <<clock, counters, local, runs, repeats, slot, reply>>

Tracked(table) == {client \in Clients : table[client].count > 0}

(* Mutants: the sweep drops every bucket; there is no sweep. *)
SweptAll(table) ==
  IF Cardinality(Tracked(table)) < CleanupAt THEN table
  ELSE [client \in Clients |-> NoBucket]

SweptNever(table) == table

(* cleanupLocal: from CleanupAt buckets on, those of past minutes go. *)
Swept(table) ==
  IF Cardinality(Tracked(table)) < CleanupAt THEN table
  ELSE [client \in Clients |-> IF table[client].window < clock THEN NoBucket
                                                             ELSE table[client]]

(* incrementLocal, under the mutex. *)
CountLocal(r) ==
  LET i == slot[r].at
      client == slot[r].client
      table == Swept(local[i])
      count == 1 + IF table[client].window = clock THEN table[client].count ELSE 0
  IN /\ pc[r] = "local"
     /\ local' = [local EXCEPT ![i] =
          [table EXCEPT ![client] = [window |-> clock, count |-> count]]]
     /\ Counted(r, <<i, runs[i]>>, clock, count)
     /\ UNCHANGED <<clock, counters, runs, repeats, reply>>

(* Mutants: one request too many; one too few. *)
JudgeLate(r) ==
  /\ pc[r] = "judge"
  /\ pc' = [pc EXCEPT ![r] = "done"]
  /\ reply' = [reply EXCEPT ![r] =
       IF slot[r].count > Limit + 1 THEN "refused" ELSE "admitted"]
  /\ UNCHANGED <<clock, counters, local, runs, repeats, slot>>

JudgeEarly(r) ==
  /\ pc[r] = "judge"
  /\ pc' = [pc EXCEPT ![r] = "done"]
  /\ reply' = [reply EXCEPT ![r] =
       IF slot[r].count >= Limit THEN "refused" ELSE "admitted"]
  /\ UNCHANGED <<clock, counters, local, runs, repeats, slot>>

(* The rest of Middleware; the headers repeat the verdict and the clock. *)
Judge(r) ==
  /\ pc[r] = "judge"
  /\ pc' = [pc EXCEPT ![r] = "done"]
  /\ reply' = [reply EXCEPT ![r] =
       IF slot[r].count > Limit THEN "refused" ELSE "admitted"]
  /\ UNCHANGED <<clock, counters, local, runs, repeats, slot>>

-----------------------------------------------------------------------------
(* Time and faults.                                                        *)

(* The clock does not step back, and a Redis call, timeouts and retries    *)
(* included, ends before a second minute boundary. *)
Tick ==
  /\ clock < LastMinute
  /\ \A r \in Requests : pc[r] = "exec" => slot[r].minute = clock
  /\ clock' = clock + 1
  /\ UNCHANGED <<counters, local, runs, repeats, pc, slot, reply>>

(* EXPIRE renews two minutes with every hit. *)
Expire(minute) ==
  /\ clock >= minute + 2
  /\ \E client \in Clients : counters[minute][client] > 0
  /\ counters' = [counters EXCEPT ![minute] = [client \in Clients |-> 0]]
  /\ UNCHANGED <<clock, local, runs, repeats, pc, slot, reply>>

(* A process starts again with an empty map. *)
Restart(i) ==
  LET lost == {r \in Requests : slot[r].at = i /\ pc[r] \notin {"idle", "done"}} IN
  /\ FoldFunction(+, 0, runs) < MaxRestarts
  /\ runs' = [runs EXCEPT ![i] = @ + 1]
  /\ local' = [local EXCEPT ![i] = [client \in Clients |-> NoBucket]]
  /\ pc' = [r \in Requests |-> IF r \in lost THEN "done" ELSE pc[r]]
  /\ reply' = [r \in Requests |-> IF r \in lost THEN "lost" ELSE reply[r]]
  /\ UNCHANGED <<clock, counters, repeats, slot>>

Finished == (\A r \in Requests : pc[r] = "done") /\ UNCHANGED vars

Next ==
  \/ \E r \in Requests : \/ Stamp(r) \/ Exec(r) \/ ExecRepeats(r) \/ ExecFails(r)
                         \/ CountLocal(r) \/ Judge(r)
  \/ Tick
  \/ \E minute \in Minutes : Expire(minute)
  \/ \E i \in Instances : Restart(i)
  \/ Finished

Spec == Init /\ [][Next]_vars

-----------------------------------------------------------------------------
(* Properties.                                                             *)

TypeOK ==
  /\ clock \in Minutes
  /\ counters \in [Minutes -> [Clients -> Nat]]
  /\ local \in [Instances -> [Clients -> Bucket]]
  /\ runs \in [Instances -> Nat]
  /\ repeats \in [Minutes -> [Clients -> Nat]]
  /\ pc \in [Requests -> PCs]
  /\ slot \in [Requests -> Slot]
  /\ reply \in [Requests -> Replies]

Admitted(client, minute) ==
  {r \in Requests : /\ reply[r] = "admitted"
                    /\ slot[r].client = client /\ slot[r].minute = minute}

(* "Redis 分布式限流" (README.md:38): all processes together admit no more
   than Limit requests of a client in a minute while Redis answers, although
   a request may be counted in a minute that has ended; every process run
   that had to count by itself adds one allowance, never more. *)
SharedLimit ==
  \A client \in Clients, minute \in Minutes :
    LET admitted == Admitted(client, minute) IN
    Cardinality(admitted)
      <= Limit * Cardinality({slot[r].place : r \in admitted})

(* A request is refused only when Limit hits of the same client and minute
   were counted before it by the place that refuses it: hits of other
   requests, or of transactions the driver sent again. *)
RefusedOnlyWhenFull ==
  \A r \in Requests :
    reply[r] = "refused" =>
      LET s == slot[r]
          earlier == {q \in Requests :
            /\ slot[q].place = s.place /\ slot[q].client = s.client
            /\ slot[q].minute = s.minute /\ slot[q].count \in 1..(s.count - 1)}
          unseen == IF s.place = Redis THEN repeats[s.minute][s.client] ELSE 0
      IN Cardinality(earlier) + unseen >= Limit

(* Whatever fails: no count is handed out twice by one place for a client
   and a minute, and only the counts up to Limit are admitted: expired keys,
   repeated transactions and swept buckets hand out no count again. *)
GrantedOnce ==
  /\ \A r \in Requests : reply[r] = "admitted" => slot[r].count \in 1..Limit
  /\ \A r, s \in Requests :
       /\ reply[r] = "admitted" /\ reply[s] = "admitted"
       /\ slot[r].place = slot[s].place /\ slot[r].client = slot[s].client
       /\ slot[r].minute = slot[s].minute /\ slot[r].count = slot[s].count
       => r = s

(* The local map only exceeds CleanupAt by clients that were all counted in
   one minute: without the sweep it would keep every client ever seen. *)
TableBounded ==
  \A i \in Instances :
    Cardinality(Tracked(local[i])) > CleanupAt =>
      \A c, d \in Tracked(local[i]) : local[i][c].window = local[i][d].window
-----------------------------------------------------------------------------
(* The inductive invariant of the proofs.                                  *)

(* The requests one place counted for a client and a minute, and those it  *)
(* counted before r.                                                       *)
Hit(r) == slot[r].count > 0

CountedAt(place, client, minute) ==
  {r \in Requests : /\ Hit(r) /\ slot[r].place = place
                    /\ slot[r].client = client /\ slot[r].minute = minute}

Earlier(r) ==
  {q \in CountedAt(slot[r].place, slot[r].client, slot[r].minute) :
     slot[q].count < slot[r].count}

Unseen(place, client, minute) ==
  IF place = Redis THEN repeats[minute][client] ELSE 0

(* What each request has established; a Redis call spans one minute        *)
(* boundary at most. *)
Progress(r) ==
  /\ pc[r] \in {"idle", "exec", "local"} => slot[r].count = 0
  /\ pc[r] = "judge" => Hit(r)
  /\ reply[r] # "none" => pc[r] = "done"
  /\ reply[r] = "admitted" => slot[r].count \in 1..Limit
  /\ reply[r] = "refused" => slot[r].count > Limit
  /\ slot[r].minute <= clock
  /\ pc[r] = "exec" => clock <= slot[r].minute + 1

(* A count is that of Redis or of a run of a process that has been.        *)
PlaceKnown(r) ==
  Hit(r) => \/ slot[r].place = Redis
            \/ \E i \in Instances : \E n \in 0..runs[i] : slot[r].place = <<i, n>>

(* No count is handed out twice, and every count but the repeated ones was *)
(* handed out. *)
CountedApart ==
  \A r, s \in Requests :
    /\ Hit(r) /\ slot[r].place = slot[s].place /\ slot[r].client = slot[s].client
    /\ slot[r].minute = slot[s].minute /\ slot[r].count = slot[s].count
    => r = s

CountedInTurn ==
  \A r \in Requests :
    Hit(r) =>
      Cardinality(Earlier(r)) + Unseen(slot[r].place, slot[r].client, slot[r].minute)
        >= slot[r].count - 1

(* While a Redis key may still be hit it has not expired, and stands at    *)
(* the last count handed out; so does a bucket of the current minute. *)
SharedTally ==
  \A client \in Clients, minute \in Minutes :
    clock < minute + 2 =>
      LET hits == CountedAt(Redis, client, minute) IN
      /\ \A r \in hits : slot[r].count <= counters[minute][client]
      /\ Cardinality(hits) + repeats[minute][client] >= counters[minute][client]

LocalTally ==
  \A i \in Instances, client \in Clients :
    LET hits == CountedAt(<<i, runs[i]>>, client, clock)
        bucket == local[i][client] IN
    /\ bucket.window <= clock
    /\ hits # {} => bucket.window = clock
    /\ \A r \in hits : slot[r].count <= bucket.count
    /\ bucket.window = clock => Cardinality(hits) >= bucket.count

Tallies ==
  /\ TypeOK /\ IsFiniteSet({r \in Requests : Hit(r)})
  /\ \A r \in Requests : Progress(r) /\ PlaceKnown(r)
  /\ CountedApart /\ CountedInTurn /\ SharedTally /\ LocalTally

(* The table of each process, swept before it grows past CleanupAt. *)
Tables ==
  /\ TableBounded
  /\ \A i \in Instances :
       /\ IsFiniteSet(Tracked(local[i]))
       /\ \A client \in Clients : local[i][client].window <= clock
=============================================================================
