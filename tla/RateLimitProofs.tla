---------------------------- MODULE RateLimitProofs ----------------------------
(***************************************************************************)
(* Proofs about RateLimit, for any requests, clients, workers, limits,     *)
(* windows and failures.                                                   *)
(***************************************************************************)
EXTENDS RateLimit, FiniteSetTheorems, TLAPS

(* What the place of a request says about it.                              *)
Placed ==
    \A r \in Requests :
        /\ pc[r] # "idle" => client[r] \in Clients /\ bucket[r] * Window <= now
        /\ pc[r] = "idle" \/ Waiting(r) => via[r] = "none" /\ adrift[r] = "none"
        /\ Waiting(r) => now <= EndOf(bucket[r]) + Patience
        /\ via[r] = "memory" => worker[r] \in Workers

Base == TypeOK /\ Placed

(* A counter lives beyond its window.                                      *)
Lasts ==
    \A k \in Keys : expiry[k] # 0 => expiry[k] >= EndOf(k[2]) + Grace

(* The requests Redis allowed or is about to.                              *)
Taken(x, b) ==
    {r \in Own(x, b) : pc[r] = "expire" \/ (pc[r] = "allowed" /\ via[r] = "redis")}

(* They are among the counted, and few enough.                             *)
RedisLimits ==
    \A x \in Clients, b \in Buckets : <<x, b>> \notin forgotten =>
        /\ Cardinality(Taken(x, b)) <= MaxRequests
        /\ \/ Cardinality(Taken(x, b)) <= counters[<<x, b>>]
           \/ EndOf(b) + Grace <= now

(* The requests worker w allowed by its table.                             *)
Admitted(w, x, b) == {r \in AllowedBy("memory", x, b) : worker[r] = w}

(* They are counted until no more can come.                                *)
MemoryLimits ==
    \A w \in Workers, x \in Clients, b \in Buckets :
        /\ Cardinality(Admitted(w, x, b)) <= FallbackLimit
        /\ \/ Cardinality(Admitted(w, x, b)) <= mem[w][<<x, b>>]
           \/ EndOf(b) + Patience < now

(* The requests whose INCR was run, and those in w's table.                *)
Counted(x, b) == {r \in Own(x, b) : pc[r] # "incr" /\ adrift[r] # "incr"}
Tabled(w, x, b) == {r \in Own(x, b) : via[r] = "memory" /\ worker[r] = w}

(* Counts are of the client's own requests.                                *)
OwnCounts ==
    \A x \in Clients, b \in Buckets :
        /\ counters[<<x, b>>] <= Cardinality(Counted(x, b)) + resent
        /\ \A w \in Workers : mem[w][<<x, b>>] <= Cardinality(Tabled(w, x, b))

(* Who was refused had too many of them.                                   *)
OwnRefused ==
    \A r \in Requests : pc[r] = "refused" =>
        \/ /\ via[r] = "redis"
           /\ Cardinality(Own(client[r], bucket[r])) + resent > MaxRequests
        \/ /\ via[r] = "memory"
           /\ Cardinality(Tabled(worker[r], client[r], bucket[r])) > FallbackLimit

-------------------------------------------------------------------------------
(* Products and quotients by the length of a window.                       *)
LEMMA Times ==
    ASSUME NEW a \in Int, NEW b \in Int, NEW c \in Nat, a <= b
    PROVE  a * c <= b * c
OBVIOUS

LEMMA Parts ==
    ASSUME NEW a \in Nat, NEW c \in Nat \ {0}
    PROVE  a \div c \in Nat /\ (a \div c) * c <= a /\ a < (a \div c + 1) * c
OBVIOUS

LEMMA Quotients ==
    ASSUME NEW a \in Nat, NEW b \in Nat, NEW c \in Nat \ {0}, a <= b
    PROVE  a \div c <= b \div c
OBVIOUS

(* The constants.                                                          *)
LEMMA Sizes ==
    /\ MaxRequests \in Nat \ {0} /\ Window \in Nat \ {0} /\ Grace \in Nat
    /\ Patience \in Nat /\ PruneAt \in Nat /\ KeepTo \in Nat /\ MaxTime \in Nat
    /\ MaxFaults \in Nat /\ Patience < 2 * Window /\ KeepTo <= PruneAt
    /\ FallbackLimit \in Nat \ {0}
    /\ \A b \in Buckets : b \in Nat /\ EndOf(b) \in Nat
BY RateLimitAssumption, Parts DEF FallbackLimit, Buckets, EndOf

(* Sets of requests are finite; a subset has no more members, and one      *)
(* member more counts once.                                                *)
LEMMA Fewer ==
    ASSUME NEW S, NEW T, S \subseteq T, T \subseteq Requests
    PROVE  /\ IsFiniteSet(S) /\ Cardinality(S) \in Nat
           /\ Cardinality(S) <= Cardinality(T) /\ Cardinality(T) \in Nat
<1>1. IsFiniteSet(T)
    BY RateLimitAssumption, FS_Subset
<1> QED
    BY <1>1, FS_Subset, FS_CardinalityType

LEMMA OneMore ==
    ASSUME NEW S \in SUBSET Requests, NEW T \in SUBSET Requests, NEW r,
           T \subseteq S \union {r}
    PROVE  Cardinality(T) <= Cardinality(S) + 1
<1>1. IsFiniteSet(S) /\ IsFiniteSet(T) /\ Cardinality(S) \in Nat
    BY Fewer
<1>2. IsFiniteSet(S \union {r})
      /\ Cardinality(S \union {r}) <= Cardinality(S) + 1
      /\ Cardinality(S \union {r}) \in Nat
  <2>1. CASE r \in S
    <3>1. S \union {r} = S
        BY <2>1
    <3> QED
        BY <1>1, <3>1
  <2>2. CASE r \notin S
    <3>1. IsFiniteSet(S \union {r})
          /\ Cardinality(S \union {r}) = Cardinality(S) + 1
        BY <1>1, <2>2, FS_AddElement
    <3> QED
        BY <1>1, <3>1
  <2> QED
      BY <2>1, <2>2
<1>3. Cardinality(T) <= Cardinality(S \union {r}) /\ Cardinality(T) \in Nat
    BY <1>1, <1>2, FS_Subset, FS_CardinalityType
<1> QED
    BY <1>1, <1>2, <1>3

LEMMA Joined ==
    ASSUME NEW S \in SUBSET Requests, NEW T \in SUBSET Requests, NEW r,
           S \union {r} \subseteq T, r \notin S
    PROVE  Cardinality(S) + 1 <= Cardinality(T)
<1>1. IsFiniteSet(S) /\ IsFiniteSet(T)
    BY Fewer
<1>2. Cardinality(S \union {r}) = Cardinality(S) + 1
    BY <1>1, FS_AddElement
<1>3. Cardinality(S \union {r}) <= Cardinality(T)
    BY <1>1, FS_Subset
<1> QED
    BY <1>2, <1>3

-------------------------------------------------------------------------------
(* What pruning leaves of a table.                                         *)
LEMMA PrunedKeeps ==
    ASSUME NEW t \in [Keys -> Nat], NEW b, NEW p \in Pruned(t, b)
    PROVE  /\ p \in [Keys -> Nat]
           /\ \A k \in Keys : p[k] = t[k] \/ (p[k] = 0 /\ k[2] < b - 2)
<1>1. p = t \/ \E gone \in SUBSET {k \in Entries(t) : k[2] < b - 2} :
         p = [k \in Keys |-> IF k \in gone THEN 0 ELSE t[k]]
    BY DEF Pruned
<1>2. CASE p = t
    BY <1>2
<1>3. ASSUME NEW gone \in SUBSET {k \in Entries(t) : k[2] < b - 2},
             p = [k \in Keys |-> IF k \in gone THEN 0 ELSE t[k]]
      PROVE  /\ p \in [Keys -> Nat]
             /\ \A k \in Keys : p[k] = t[k] \/ (p[k] = 0 /\ k[2] < b - 2)
    BY <1>3
<1> QED
    BY <1>1, <1>2, <1>3

(* The key of a request that has come.                                     *)
LEMMA KeyType ==
    ASSUME Base, NEW r \in Requests, pc[r] # "idle"
    PROVE  /\ Key(r) \in Keys /\ Key(r) = <<client[r], bucket[r]>>
           /\ client[r] \in Clients /\ bucket[r] \in Buckets
<1>1. bucket[r] \in Nat /\ bucket[r] <= now \div Window /\ now \in Nat
      /\ now <= MaxTime
    BY Sizes, Parts DEF Base, TypeOK
<1>2. now \div Window <= MaxTime \div Window
    BY <1>1, Sizes, Quotients
<1>3. bucket[r] \in Buckets
    BY <1>1, <1>2, Sizes, Parts DEF Buckets
<1> QED
    BY <1>3 DEF Base, Placed, Key, Keys

LEMMA InitBase ==
    Init => Base
<1> SUFFICES ASSUME Init PROVE Base
    OBVIOUS
<1>1. 0 \div Window \in Nat
    BY Sizes, Parts
<1> QED
    BY <1>1, Sizes DEF Init, Base, TypeOK, Placed, Waiting

(* EXPIRE sets a time to come, on a counter there is.                      *)
LEMMA RunExpireType ==
    ASSUME Base, NEW r \in Requests, pc[r] # "idle", RunExpire(r)
    PROVE  expiry' \in [Keys -> Nat]
           /\ \A k \in Keys : expiry'[k] # 0 => counters[k] > 0 /\ expiry'[k] > now
<1>1. now \in Nat /\ now + Window + Grace \in Nat /\ now + Window + Grace > now
    BY Sizes DEF Base, TypeOK
<1>2. Key(r) \in Keys
    BY KeyType
<1>3. /\ counters \in [Keys -> Nat] /\ expiry \in [Keys -> Nat]
      /\ \A k \in Keys : expiry[k] # 0 => counters[k] > 0 /\ expiry[k] > now
    BY DEF Base, TypeOK
<1> QED
    BY <1>1, <1>2, <1>3 DEF RunExpire

(* What a failure does: worker w counts r, and may prune old entries.      *)
FellBack(r, w) ==
    LET n == mem[w][Key(r)] + 1
    IN  /\ \E table \in [Keys -> Nat] :
              /\ mem' = [mem EXCEPT ![w] = table]
              /\ \A k \in Keys :
                    \/ table[k] = IF k = Key(r) THEN n ELSE mem[w][k]
                    \/ table[k] = 0 /\ k[2] < bucket[r] - 2
        /\ worker' = [worker EXCEPT ![r] = w]
        /\ pc' = [pc EXCEPT ![r] = IF n > FallbackLimit THEN "refused" ELSE "allowed"]
        /\ via' = [via EXCEPT ![r] = "memory"]

LEMMA FallbackStep ==
    ASSUME Base, NEW r \in Requests, Fails(r)
    PROVE  \E w \in Workers : FellBack(r, w)
<1>1. Key(r) \in Keys
    BY KeyType DEF Fails, Waiting
<1>2. PICK w \in Workers : \E table \in
               Pruned([mem[w] EXCEPT ![Key(r)] = mem[w][Key(r)] + 1], bucket[r]) :
         /\ mem' = [mem EXCEPT ![w] = table]
         /\ worker' = [worker EXCEPT ![r] = w]
         /\ Decide(r, mem[w][Key(r)] + 1, FallbackLimit, "memory")
    BY DEF Fails, Fallback
<1> DEFINE counted == [mem[w] EXCEPT ![Key(r)] = mem[w][Key(r)] + 1]
<1>3. /\ counted \in [Keys -> Nat]
      /\ \A k \in Keys : counted[k] = IF k = Key(r) THEN mem[w][Key(r)] + 1 ELSE mem[w][k]
    BY <1>1 DEF Base, TypeOK
<1>4. PICK table \in Pruned(counted, bucket[r]) :
         /\ mem' = [mem EXCEPT ![w] = table]
         /\ worker' = [worker EXCEPT ![r] = w]
         /\ Decide(r, mem[w][Key(r)] + 1, FallbackLimit, "memory")
    BY <1>2
<1>5. /\ table \in [Keys -> Nat]
      /\ \A k \in Keys : table[k] = counted[k] \/ (table[k] = 0 /\ k[2] < bucket[r] - 2)
    BY <1>3, <1>4, PrunedKeeps
<1> HIDE DEF counted
<1>6. \A k \in Keys :
         \/ table[k] = IF k = Key(r) THEN mem[w][Key(r)] + 1 ELSE mem[w][k]
         \/ table[k] = 0 /\ k[2] < bucket[r] - 2
    BY <1>3, <1>5
<1>7. \E tab \in [Keys -> Nat] :
         /\ mem' = [mem EXCEPT ![w] = tab]
         /\ \A k \in Keys :
               \/ tab[k] = IF k = Key(r) THEN mem[w][Key(r)] + 1 ELSE mem[w][k]
               \/ tab[k] = 0 /\ k[2] < bucket[r] - 2
    BY <1>4, <1>5, <1>6
<1>8. FellBack(r, w)
    BY <1>4, <1>7 DEF FellBack, Decide, Goto
<1> QED
    BY <1>8

(* Round trips keep the types.                                             *)
LEMMA BaseRequest ==
    ASSUME Base, NEW r \in Requests, RequestNext(r)
    PROVE  Base'
<1>1. now \in Nat /\ now <= MaxTime /\ now \div Window \in Nat
      /\ (now \div Window) * Window <= now /\ now < (now \div Window + 1) * Window
    BY Sizes, Parts DEF Base, TypeOK
<1>2. pc[r] # "idle" => Key(r) \in Keys
    BY KeyType
<1>3. CASE Arrive(r)
  <2>1. TypeOK'
      BY <1>1, <1>3 DEF Arrive, Goto, redis, history, Base, TypeOK
  <2>2. bucket'[r] * Window <= now /\ now <= EndOf(bucket'[r]) + Patience
        /\ client'[r] \in Clients
      BY <1>1, <1>3, Sizes DEF Arrive, EndOf, Base, TypeOK
  <2> QED
      BY <1>3, <2>1, <2>2
         DEF Arrive, Goto, redis, history, Base, TypeOK, Placed, Waiting, EndOf
<1>4. CASE Incr(r)
  <2>0. pc[r] # "idle" /\ counters' \in [Keys -> Nat] /\ expiry' = expiry
        /\ \A k \in Keys : counters'[k] >= counters[k]
      BY <1>2, <1>4 DEF Incr, RunIncr, Base, TypeOK
  <2>1. TypeOK'
    <3>1. pc' \in [Requests -> {"idle", "incr", "expire", "allowed", "refused"}]
          /\ via' \in [Requests -> {"none", "redis", "memory"}]
        BY <1>4 DEF Incr, Decide, Goto, Base, TypeOK
    <3>2. forgotten' \in SUBSET Keys
        BY <1>2, <1>4, <2>0 DEF Incr, Base, TypeOK
    <3>3. \A k \in Keys : expiry'[k] # 0 => counters'[k] > 0 /\ expiry'[k] > now
        BY <2>0 DEF Base, TypeOK
    <3> QED
        BY <1>4, <2>0, <3>1, <3>2, <3>3 DEF Incr, identity, Base, TypeOK
  <2> QED
      BY <1>4, <2>1 DEF Incr, RunIncr, Decide, Goto, identity, Base, TypeOK, Placed,
                        Waiting, EndOf
<1>5. CASE Expire(r)
  <2>1. expiry' \in [Keys -> Nat]
        /\ \A k \in Keys : expiry'[k] # 0 => counters[k] > 0 /\ expiry'[k] > now
      BY <1>5, RunExpireType DEF Expire
  <2>2. TypeOK'
      BY <1>5, <2>1
         DEF Expire, RunExpire, Decide, Goto, identity, history, Base, TypeOK
  <2> QED
      BY <1>5, <2>2 DEF Expire, RunExpire, Decide, Goto, identity, history, Base,
                        TypeOK, Placed, Waiting, EndOf
<1>6. CASE Fails(r)
  <2>1. pc[r] \in {"incr", "expire"}
      BY <1>6 DEF Fails, Waiting
  <2>2. PICK w \in Workers : FellBack(r, w)
      BY <1>6, FallbackStep
  <2>3. TypeOK'
      BY <1>2, <1>6, <2>1, <2>2, Sizes
         DEF Fails, Fault, redis, FellBack, Base, TypeOK
  <2> QED
      BY <1>6, <2>1, <2>2, <2>3 DEF Fails, FellBack, Base, TypeOK, Placed, Waiting, EndOf
<1>7. CASE Lands(r)
  <2>1. pc[r] # "idle"
      BY <1>7 DEF Lands, Base, Placed
  <2>2. CASE RunIncr(r)
    <3>1. TypeOK'
        BY <1>1, <1>2, <1>7, <2>1, <2>2 DEF Lands, RunIncr, identity, Base, TypeOK
    <3> QED
        BY <1>7, <2>2, <3>1 DEF Lands, RunIncr, identity, Base, TypeOK, Placed,
                          Waiting, EndOf
  <2>3. CASE RunExpire(r)
    <3>1. expiry' \in [Keys -> Nat]
          /\ \A k \in Keys : expiry'[k] # 0 => counters[k] > 0 /\ expiry'[k] > now
        BY <2>1, <2>3, RunExpireType
    <3>2. TypeOK'
        BY <1>2, <1>7, <2>1, <2>3, <3>1
           DEF Lands, RunExpire, identity, Base, TypeOK
    <3> QED
        BY <1>7, <2>3, <3>2 DEF Lands, RunExpire, identity, Base, TypeOK, Placed,
                          Waiting, EndOf
  <2> QED
      BY <1>7, <2>2, <2>3 DEF Lands
<1>8. CASE Resends(r)
  <2>1. TypeOK'
      BY <1>1, <1>2, <1>8, Sizes
         DEF Resends, RunIncr, Fault, identity, Base, TypeOK
  <2> QED
      BY <1>8, <2>1 DEF Resends, identity, Base, Placed, Waiting, EndOf
<1> QED
    BY <1>3, <1>4, <1>5, <1>6, <1>7, <1>8 DEF RequestNext, Step

LEMMA BaseStep ==
    ASSUME Base, [Next]_vars
    PROVE  Base'
<1>1. now \in Nat /\ now <= MaxTime /\ now \div Window \in Nat
    BY Sizes, Parts DEF Base, TypeOK
<1>2. CASE Tick
  <2>1. now' = now + 1 /\ now' \in 0..MaxTime
      BY <1>1, <1>2, Sizes DEF Tick
  <2>2. now \div Window <= now' \div Window /\ now' \div Window \in Nat
      BY <1>1, <2>1, Sizes, Quotients, Parts
  <2>3. bucket' = bucket /\ bucket' \in [Requests -> 0..(now' \div Window)]
      BY <1>1, <1>2, <2>2 DEF Tick, identity, Base, TypeOK
  <2>4. /\ counters' \in [Keys -> Nat] /\ expiry' \in [Keys -> Nat]
        /\ \A k \in Keys : expiry'[k] # 0 => counters'[k] > 0 /\ expiry'[k] > now'
    <3>1. PICK overdue : /\ overdue = {k \in Keys : expiry[k] = now + 1}
                         /\ counters' = Without(overdue, counters)
                         /\ expiry' = Without(overdue, expiry)
        BY <1>2 DEF Tick
    <3>2. \A k \in Keys : counters[k] \in Nat /\ expiry[k] \in Nat
                         /\ (expiry[k] # 0 => counters[k] > 0 /\ expiry[k] > now)
        BY DEF Base, TypeOK
    <3> QED
        BY <1>1, <2>1, <3>1, <3>2 DEF Without
  <2>5. TypeOK'
      BY <1>2, <2>1, <2>3, <2>4 DEF Tick, identity, history, Base, TypeOK
  <2>6. \A r \in Requests : bucket[r] \in Int /\ EndOf(bucket[r]) \in Int
      BY <1>1, Sizes DEF Base, TypeOK, EndOf
  <2>7. \A r \in Requests : bucket[r] * Window \in Int
      BY <2>6, Sizes
  <2>8. ASSUME NEW r \in Requests
        PROVE  /\ bucket[r] * Window <= now => bucket[r] * Window <= now'
               /\ Waiting(r) => now' <= EndOf(bucket[r]) + Patience
      BY <1>1, <1>2, <2>1, <2>6, <2>7, Sizes DEF Tick
  <2>9. UNCHANGED <<pc, client, worker, bucket, via, adrift>>
      BY <1>2 DEF Tick, identity
  <2> QED
      BY <2>5, <2>8, <2>9 DEF Base, Placed, Waiting, EndOf
<1>3. CASE RedisRestarts
  <2>1. TypeOK'
      BY <1>1, <1>3, Sizes DEF RedisRestarts, Fault, Without, identity, Base, TypeOK
  <2> QED
      BY <1>3, <2>1 DEF RedisRestarts, identity, Base, Placed, Waiting, EndOf
<1>4. CASE UNCHANGED vars
    BY <1>4 DEF vars, redis, identity, history, Base, TypeOK, Placed, Waiting, EndOf
<1> QED
    BY <1>2, <1>3, <1>4, BaseRequest DEF Next

(* Types, for any number of requests, clients and workers.  (dispatch)     *)
THEOREM TypeCorrect == Spec => []TypeOK
<1>1. Base => TypeOK
    BY DEF Base
<1> QED
    BY <1>1, InitBase, BaseStep, PTL DEF Spec

-------------------------------------------------------------------------------
(* EXPIRE keeps a counter beyond its window.                               *)
LEMMA RunExpireLasts ==
    ASSUME Base, Lasts, NEW r \in Requests, pc[r] # "idle", RunExpire(r)
    PROVE  Lasts'
<1>1. Key(r) \in Keys /\ Key(r)[2] = bucket[r] /\ bucket[r] \in Nat
    BY KeyType, Sizes
<1>2. now \in Nat /\ bucket[r] * Window <= now
    BY DEF Base, TypeOK, Placed
<1>3. now + Window + Grace >= EndOf(bucket[r]) + Grace
    BY <1>1, <1>2, Sizes DEF EndOf
<1>4. expiry \in [Keys -> Nat]
    BY DEF Base, TypeOK
<1> QED
    BY <1>1, <1>3, <1>4 DEF RunExpire, Lasts, EndOf

LEMMA LastsStep ==
    ASSUME Base, Lasts, [Next]_vars
    PROVE  Lasts'
<1>1. ASSUME \A k \in Keys : expiry'[k] = expiry[k] \/ expiry'[k] = 0
      PROVE  Lasts'
    BY <1>1 DEF Lasts, EndOf
<1>2. ASSUME NEW r \in Requests, RequestNext(r)
      PROVE  Lasts'
  <2>1. CASE Expire(r) \/ (Lands(r) /\ RunExpire(r))
    <3>1. pc[r] # "idle" /\ RunExpire(r)
        BY <2>1 DEF Expire, Lands, Base, Placed
    <3> QED
        BY <3>1, RunExpireLasts
  <2>2. CASE Arrive(r) \/ Incr(r) \/ Fails(r) \/ Resends(r) \/ (Lands(r) /\ RunIncr(r))
    <3>1. expiry' = expiry
        BY <2>2 DEF Arrive, Incr, Fails, Resends, RunIncr, redis
    <3> QED
        BY <1>1, <3>1
  <2> QED
      BY <1>2, <2>1, <2>2 DEF RequestNext, Step, Lands
<1>3. CASE Tick \/ RedisRestarts
  <2>1. \E lost : expiry' = Without(lost, expiry)
      BY <1>3 DEF Tick, RedisRestarts
  <2> QED
      BY <1>1, <2>1 DEF Without
<1>4. CASE UNCHANGED vars
    BY <1>1, <1>4 DEF vars, redis
<1> QED
    BY <1>2, <1>3, <1>4 DEF Next

(* The limit of Redis when no request is newly taken.                      *)
LEMMA RedisKept ==
    ASSUME Base, Base', RedisLimits, now <= now',
           \A x \in Clients, b \in Buckets :
               /\ Taken(x, b)' \subseteq Taken(x, b)
               /\ <<x, b>> \notin forgotten' =>
                     /\ <<x, b>> \notin forgotten
                     /\ \/ counters'[<<x, b>>] >= counters[<<x, b>>]
                        \/ EndOf(b) + Grace <= now'
    PROVE  RedisLimits'
<1> SUFFICES ASSUME NEW x \in Clients, NEW b \in Buckets, <<x, b>> \notin forgotten'
             PROVE  /\ Cardinality(Taken(x, b)') <= MaxRequests
                    /\ \/ Cardinality(Taken(x, b)') <= counters'[<<x, b>>]
                       \/ EndOf(b) + Grace <= now'
    BY DEF RedisLimits, EndOf
<1>1. Taken(x, b) \subseteq Requests
    BY DEF Taken, Own
<1>2. /\ Cardinality(Taken(x, b)') <= Cardinality(Taken(x, b))
      /\ Cardinality(Taken(x, b)') \in Nat /\ Cardinality(Taken(x, b)) \in Nat
    BY <1>1, Fewer
<1>3. /\ Cardinality(Taken(x, b)) <= MaxRequests
      /\ \/ Cardinality(Taken(x, b)) <= counters[<<x, b>>]
         \/ EndOf(b) + Grace <= now
    BY DEF RedisLimits
<1>4. <<x, b>> \in Keys
    BY DEF Keys
<1>5. /\ counters[<<x, b>>] \in Nat /\ counters'[<<x, b>>] \in Nat
      /\ now \in Nat /\ now' \in Nat
    BY <1>4 DEF Base, TypeOK
<1>6. EndOf(b) \in Nat /\ Grace \in Nat /\ MaxRequests \in Nat
    BY Sizes
<1> QED
    BY <1>2, <1>3, <1>5, <1>6

LEMMA RedisIncr ==
    ASSUME Base, Base', RedisLimits, NEW r \in Requests, Incr(r)
    PROVE  RedisLimits'
<1>1. /\ pc[r] = "incr" /\ Key(r) \in Keys /\ Key(r) = <<client[r], bucket[r]>>
      /\ UNCHANGED <<now, client, worker, bucket>>
      /\ counters' = [counters EXCEPT ![Key(r)] = @ + 1]
    BY KeyType DEF Incr, RunIncr, identity
<1>2. \A q \in Requests : q # r => pc'[q] = pc[q] /\ via'[q] = via[q]
    BY DEF Incr, Decide, Goto, Base, TypeOK
<1>3. counters[Key(r)] + 1 > MaxRequests => pc'[r] \in {"refused", "expire"}
      /\ (pc'[r] = "expire" => counters[Key(r)] = 0)
    BY <1>1, Sizes DEF Incr, Decide, Goto, Base, TypeOK
<1> SUFFICES ASSUME NEW x \in Clients, NEW b \in Buckets, <<x, b>> \notin forgotten'
             PROVE  /\ Cardinality(Taken(x, b)') <= MaxRequests
                    /\ \/ Cardinality(Taken(x, b)') <= counters'[<<x, b>>]
                       \/ EndOf(b) + Grace <= now'
    BY DEF RedisLimits, EndOf
<1>4. Taken(x, b) \in SUBSET Requests /\ Taken(x, b)' \in SUBSET Requests
    BY DEF Taken, Own
<1>5. <<x, b>> \in Keys /\ <<x, b>> \notin forgotten
      /\ (<<x, b>> = Key(r) => now < EndOf(bucket[r]) + Grace)
  <2>1. <<x, b>> \in Keys /\ <<x, b>> \notin forgotten
      BY DEF Keys, Incr
  <2>2. now \in Nat /\ EndOf(bucket[r]) \in Nat /\ Grace \in Nat
      BY <1>1, Sizes, KeyType DEF Base, TypeOK
  <2> QED
      BY <2>1, <2>2 DEF Incr
<1>6. /\ counters[<<x, b>>] \in Nat /\ now \in Nat
      /\ counters'[<<x, b>>] = IF <<x, b>> = Key(r) THEN counters[<<x, b>>] + 1
                               ELSE counters[<<x, b>>]
  <2>1. counters \in [Keys -> Nat] /\ now \in Nat
      BY DEF Base, TypeOK
  <2>2. counters[<<x, b>>] \in Nat
      BY <1>5, <2>1
  <2>3. CASE <<x, b>> = Key(r)
      BY <1>1, <2>1, <2>2, <2>3
  <2>4. CASE <<x, b>> # Key(r)
      BY <1>1, <1>5, <2>1, <2>2, <2>4
  <2> QED
      BY <2>1, <2>2, <2>3, <2>4
<1>7. /\ Cardinality(Taken(x, b)) <= MaxRequests
      /\ \/ Cardinality(Taken(x, b)) <= counters[<<x, b>>]
         \/ EndOf(b) + Grace <= now
    BY <1>5 DEF RedisLimits
<1>8. EndOf(b) \in Nat /\ Grace \in Nat /\ MaxRequests \in Nat \ {0}
    BY Sizes
<1>9. CASE <<x, b>> # Key(r) \/ pc'[r] = "refused"
  <2>1. Taken(x, b)' \subseteq Taken(x, b)
      BY <1>1, <1>2, <1>9 DEF Taken, Own
  <2>2. Cardinality(Taken(x, b)') <= Cardinality(Taken(x, b))
        /\ Cardinality(Taken(x, b)') \in Nat /\ Cardinality(Taken(x, b)) \in Nat
      BY <1>4, <2>1, Fewer
  <2> QED
      BY <1>1, <1>6, <1>7, <1>8, <2>2
<1>10. CASE <<x, b>> = Key(r) /\ pc'[r] # "refused"
  <2>1. Taken(x, b)' \subseteq Taken(x, b) \union {r}
      BY <1>1, <1>2 DEF Taken, Own
  <2>2. Cardinality(Taken(x, b)') <= Cardinality(Taken(x, b)) + 1
        /\ Cardinality(Taken(x, b)') \in Nat /\ Cardinality(Taken(x, b)) \in Nat
      BY <1>4, <2>1, OneMore, Fewer
  <2>3. b = bucket[r]
      BY <1>1, <1>10
  <2>4. Cardinality(Taken(x, b)) <= counters[<<x, b>>]
      BY <1>5, <1>6, <1>7, <1>8, <1>10, <2>3
  <2>5. counters[<<x, b>>] + 1 <= MaxRequests
      BY <1>3, <1>6, <1>8, <1>10
  <2> QED
      BY <1>6, <1>8, <1>10, <2>2, <2>4, <2>5
<1> QED
    BY <1>9, <1>10

(* What every step does to the requests but the one it is of.              *)
LEMMA Others ==
    ASSUME Base, NEW r \in Requests, RequestNext(r)
    PROVE  \A q \in Requests \ {r} :
               /\ pc'[q] = pc[q] /\ via'[q] = via[q] /\ adrift'[q] = adrift[q]
               /\ client'[q] = client[q] /\ bucket'[q] = bucket[q]
               /\ worker'[q] = worker[q]
<1> USE DEF Base, TypeOK
<1>1. CASE Arrive(r)
    BY <1>1 DEF Arrive, Goto
<1>2. CASE Incr(r)
    BY <1>2 DEF Incr, Decide, Goto, identity
<1>3. CASE Expire(r)
    BY <1>3 DEF Expire, Decide, Goto, identity
<1>4. CASE Fails(r)
  <2>1. PICK w \in Workers : FellBack(r, w)
      BY <1>4, FallbackStep
  <2> QED
      BY <1>4, <2>1 DEF Fails, FellBack
<1>5. CASE Lands(r)
    BY <1>5 DEF Lands, identity
<1>6. CASE Resends(r)
    BY <1>6 DEF Resends, identity
<1> QED
    BY <1>1, <1>2, <1>3, <1>4, <1>5, <1>6 DEF RequestNext, Step

LEMMA RedisRequest ==
    ASSUME Base, Base', Lasts, RedisLimits, NEW r \in Requests, RequestNext(r)
    PROVE  RedisLimits'
<1>1. now \in Nat /\ counters \in [Keys -> Nat] /\ counters' \in [Keys -> Nat]
    BY DEF Base, TypeOK
<1>2. CASE Incr(r)
    BY <1>2, RedisIncr
<1>3. CASE ~Incr(r)
  <2>1. now' = now /\ forgotten' = forgotten
      BY <1>3 DEF RequestNext, Step, Arrive, Expire, Fails, Lands, Resends, history
  <2>2. \A k \in Keys : counters'[k] >= counters[k]
    <3>1. UNCHANGED counters \/ RunIncr(r)
        BY <1>3 DEF RequestNext, Step, Arrive, Expire, Fails, Lands, Resends, redis,
                    RunExpire
    <3> QED
        BY <1>1, <3>1 DEF RunIncr
  <2>3. ASSUME NEW x \in Clients, NEW b \in Buckets
        PROVE  Taken(x, b)' \subseteq Taken(x, b)
    <3>1. r \in Taken(x, b)' => r \in Taken(x, b)
      <4>1. CASE Arrive(r)
          BY <4>1 DEF Arrive, Goto, Taken, Own, Base, TypeOK
      <4>2. CASE Expire(r)
          BY <4>2 DEF Expire, Decide, Goto, identity, Taken, Own, Base, TypeOK
      <4>3. CASE Fails(r)
        <5>1. PICK w \in Workers : FellBack(r, w)
            BY <4>3, FallbackStep
        <5> QED
            BY <5>1 DEF FellBack, Taken, Own, Base, TypeOK
      <4>4. CASE Lands(r) \/ Resends(r)
          BY <4>4 DEF Lands, Resends, identity, Taken, Own
      <4> QED
          BY <1>3, <4>1, <4>2, <4>3, <4>4 DEF RequestNext, Step
    <3>2. \A q \in Requests \ {r} : q \in Taken(x, b)' => q \in Taken(x, b)
        BY Others DEF Taken, Own
    <3> QED
        BY <3>1, <3>2 DEF Taken, Own
  <2>4. \A x \in Clients, b \in Buckets : <<x, b>> \in Keys
      BY DEF Keys
  <2> QED
      BY <1>1, <2>1, <2>2, <2>3, <2>4, RedisKept
<1> QED
    BY <1>2, <1>3

LEMMA RedisStep ==
    ASSUME Base, Base', Lasts, RedisLimits, [Next]_vars
    PROVE  RedisLimits'
<1>1. now \in Nat /\ counters \in [Keys -> Nat] /\ expiry \in [Keys -> Nat]
    BY DEF Base, TypeOK
<1>2. ASSUME UNCHANGED <<pc, client, bucket, via>>, NEW x, NEW b
      PROVE  Taken(x, b)' = Taken(x, b)
    BY <1>2 DEF Taken, Own
<1>3. \A x \in Clients, b \in Buckets : <<x, b>> \in Keys /\ EndOf(b) \in Nat
    BY Sizes DEF Keys
<1>4. CASE Tick
  <2>1. now' = now + 1 /\ UNCHANGED <<pc, client, bucket, via, forgotten>>
      BY <1>4 DEF Tick, identity, history
  <2>2. ASSUME NEW x \in Clients, NEW b \in Buckets
        PROVE  counters'[<<x, b>>] >= counters[<<x, b>>] \/ EndOf(b) + Grace <= now'
    <3>1. <<x, b>> \in Keys
        BY <1>3
    <3>2. CASE expiry[<<x, b>>] = now + 1
      <4>1. expiry[<<x, b>>] >= EndOf(b) + Grace
          BY <1>1, <3>1, <3>2 DEF Lasts
      <4> QED
          BY <2>1, <3>2, <4>1
    <3>3. CASE expiry[<<x, b>>] # now + 1
      <4>1. counters'[<<x, b>>] = counters[<<x, b>>]
          BY <1>4, <3>1, <3>3 DEF Tick, Without
      <4> QED
          BY <1>1, <3>1, <4>1
    <3> QED
        BY <3>2, <3>3
  <2>3. \A x \in Clients, b \in Buckets : Taken(x, b)' \subseteq Taken(x, b)
      BY <1>2, <2>1
  <2> QED
      BY <1>1, <2>1, <2>2, <2>3, RedisKept
<1>5. CASE RedisRestarts
  <2>1. UNCHANGED <<now, pc, client, bucket, via>>
      BY <1>5 DEF RedisRestarts, identity
  <2>2. PICK lost : counters' = Without(lost, counters)
                    /\ forgotten' = forgotten \union lost
      BY <1>5 DEF RedisRestarts
  <2>3. ASSUME NEW x \in Clients, NEW b \in Buckets, <<x, b>> \notin forgotten'
        PROVE  <<x, b>> \notin forgotten /\ counters'[<<x, b>>] >= counters[<<x, b>>]
      BY <1>1, <1>3, <2>2, <2>3 DEF Without
  <2>4. \A x \in Clients, b \in Buckets : Taken(x, b)' \subseteq Taken(x, b)
      BY <1>2, <2>1
  <2> QED
      BY <1>1, <2>1, <2>3, <2>4, RedisKept
<1>6. CASE UNCHANGED vars
  <2>1. UNCHANGED <<now, pc, client, bucket, via, forgotten, counters>>
      BY <1>6 DEF vars, identity, history, redis
  <2>2. \A x \in Clients, b \in Buckets : Taken(x, b)' \subseteq Taken(x, b)
      BY <1>2, <2>1
  <2> QED
      BY <1>1, <1>3, <2>1, <2>2, RedisKept
<1> QED
    BY <1>4, <1>5, <1>6, RedisRequest DEF Next

-------------------------------------------------------------------------------
(* The table's limit when no request is newly admitted and no entry goes.   *)
LEMMA MemoryKept ==
    ASSUME Base, Base', MemoryLimits, mem' = mem, now <= now',
           \A w \in Workers, x \in Clients, b \in Buckets :
               Admitted(w, x, b)' \subseteq Admitted(w, x, b)
    PROVE  MemoryLimits'
<1> SUFFICES ASSUME NEW w \in Workers, NEW x \in Clients, NEW b \in Buckets
             PROVE  /\ Cardinality(Admitted(w, x, b)') <= FallbackLimit
                    /\ \/ Cardinality(Admitted(w, x, b)') <= mem'[w][<<x, b>>]
                       \/ EndOf(b) + Patience < now'
    BY DEF MemoryLimits, EndOf
<1>1. Admitted(w, x, b) \subseteq Requests
    BY DEF Admitted, AllowedBy, Own
<1>2. /\ Cardinality(Admitted(w, x, b)') <= Cardinality(Admitted(w, x, b))
      /\ Cardinality(Admitted(w, x, b)') \in Nat
      /\ Cardinality(Admitted(w, x, b)) \in Nat
    BY <1>1, Fewer
<1>3. /\ Cardinality(Admitted(w, x, b)) <= FallbackLimit
      /\ \/ Cardinality(Admitted(w, x, b)) <= mem[w][<<x, b>>]
         \/ EndOf(b) + Patience < now
    BY DEF MemoryLimits
<1>4. <<x, b>> \in Keys
    BY DEF Keys
<1>5. mem[w][<<x, b>>] \in Nat /\ now \in Nat /\ now' \in Nat
    BY <1>4 DEF Base, TypeOK
<1>6. EndOf(b) \in Nat /\ Patience \in Nat /\ FallbackLimit \in Nat
    BY Sizes
<1> QED
    BY <1>2, <1>3, <1>5, <1>6

(* Entries old enough to go are of windows that no request is served in.    *)
LEMMA OldIsOver ==
    ASSUME Base, NEW r \in Requests, Waiting(r), NEW b \in Buckets, b < bucket[r] - 2
    PROVE  EndOf(b) + Patience < now
<1>1. /\ bucket[r] \in Nat /\ bucket[r] * Window <= now /\ now \in Nat /\ b \in Nat
      /\ Window \in Nat \ {0} /\ Patience \in Nat /\ Patience < 2 * Window
    BY KeyType, Sizes DEF Waiting, Base, TypeOK, Placed
<1>2. (b + 3) * Window <= bucket[r] * Window
    BY <1>1, Times
<1>3. (b + 3) * Window = (b + 1) * Window + 2 * Window
      /\ (b + 1) * Window \in Nat /\ bucket[r] * Window \in Nat
    BY <1>1
<1> QED
    BY <1>1, <1>2, <1>3 DEF EndOf

LEMMA MemoryFails ==
    ASSUME Base, Base', MemoryLimits, NEW r \in Requests, Fails(r)
    PROVE  MemoryLimits'
<1>1. PICK v \in Workers : FellBack(r, v)
    BY FallbackStep
<1> DEFINE n == mem[v][Key(r)] + 1
<1>2. PICK table \in [Keys -> Nat] :
         /\ mem' = [mem EXCEPT ![v] = table]
         /\ \A k \in Keys :
               \/ table[k] = IF k = Key(r) THEN n ELSE mem[v][k]
               \/ table[k] = 0 /\ k[2] < bucket[r] - 2
    BY <1>1 DEF FellBack
<1>3. /\ Waiting(r) /\ Key(r) \in Keys /\ Key(r) = <<client[r], bucket[r]>>
      /\ UNCHANGED <<now, client, bucket>>
    BY KeyType DEF Fails, Waiting
<1>4. /\ worker'[r] = v /\ (n > FallbackLimit => pc'[r] = "refused")
      /\ \A q \in Requests \ {r} : pc'[q] = pc[q] /\ via'[q] = via[q]
                                   /\ worker'[q] = worker[q]
    BY <1>1 DEF FellBack, Base, TypeOK
<1>5. n \in Nat /\ mem[v][Key(r)] \in Nat
    BY <1>3 DEF Base, TypeOK
<1> HIDE DEF n
<1> SUFFICES ASSUME NEW w \in Workers, NEW x \in Clients, NEW b \in Buckets
             PROVE  /\ Cardinality(Admitted(w, x, b)') <= FallbackLimit
                    /\ \/ Cardinality(Admitted(w, x, b)') <= mem'[w][<<x, b>>]
                       \/ EndOf(b) + Patience < now'
    BY DEF MemoryLimits, EndOf
<1>6. <<x, b>> \in Keys /\ b \in Nat /\ EndOf(b) \in Nat /\ now \in Nat
      /\ Patience \in Nat /\ FallbackLimit \in Nat \ {0} /\ mem[w][<<x, b>>] \in Nat
    BY Sizes DEF Keys, Base, TypeOK
<1>7. Admitted(w, x, b) \in SUBSET Requests /\ Admitted(w, x, b)' \in SUBSET Requests
    BY DEF Admitted, AllowedBy, Own
<1>8. /\ Cardinality(Admitted(w, x, b)) <= FallbackLimit
      /\ \/ Cardinality(Admitted(w, x, b)) <= mem[w][<<x, b>>]
         \/ EndOf(b) + Patience < now
    BY DEF MemoryLimits
<1>9. CASE ~(w = v /\ <<x, b>> = Key(r) /\ pc'[r] # "refused")
  <2>1. Admitted(w, x, b)' \subseteq Admitted(w, x, b)
      BY <1>3, <1>4, <1>9 DEF Admitted, AllowedBy, Own
  <2>2. Cardinality(Admitted(w, x, b)') <= Cardinality(Admitted(w, x, b))
        /\ Cardinality(Admitted(w, x, b)') \in Nat
        /\ Cardinality(Admitted(w, x, b)) \in Nat
      BY <1>7, <2>1, Fewer
  <2>3. mem'[w][<<x, b>>] >= mem[w][<<x, b>>] \/ b < bucket[r] - 2
    <3>1. CASE w # v
        BY <1>2, <1>6, <3>1 DEF Base, TypeOK
    <3>2. CASE w = v
      <4>1. mem'[w] = table
          BY <1>2, <3>2 DEF Base, TypeOK
      <4>2. \/ table[<<x, b>>] = IF <<x, b>> = Key(r) THEN n ELSE mem[v][<<x, b>>]
            \/ b < bucket[r] - 2
          BY <1>2, <1>6
      <4>3. <<x, b>> = Key(r) => n >= mem[v][<<x, b>>]
          BY <1>5 DEF n
      <4> QED
          BY <1>6, <3>2, <4>1, <4>2, <4>3
    <3> QED
        BY <3>1, <3>2
  <2>4. mem'[w][<<x, b>>] \in Nat
      BY <1>6 DEF Base, TypeOK
  <2>5. b < bucket[r] - 2 => EndOf(b) + Patience < now
      BY <1>3, OldIsOver
  <2> QED
      BY <1>3, <1>6, <1>8, <2>2, <2>3, <2>4, <2>5
<1>10. CASE w = v /\ <<x, b>> = Key(r) /\ pc'[r] # "refused"
  <2>1. b = bucket[r] /\ n <= FallbackLimit
      BY <1>3, <1>4, <1>5, <1>6, <1>10
  <2>2. now <= EndOf(b) + Patience
      BY <1>3, <2>1 DEF Base, Placed
  <2>3. Cardinality(Admitted(w, x, b)) <= mem[v][Key(r)]
      BY <1>6, <1>8, <1>10, <2>2
  <2>4. Admitted(w, x, b)' \subseteq Admitted(w, x, b) \union {r}
      BY <1>3, <1>4 DEF Admitted, AllowedBy, Own
  <2>5. Cardinality(Admitted(w, x, b)') <= Cardinality(Admitted(w, x, b)) + 1
        /\ Cardinality(Admitted(w, x, b)') \in Nat
        /\ Cardinality(Admitted(w, x, b)) \in Nat
      BY <1>7, <2>4, OneMore, Fewer
  <2>6. mem'[w][<<x, b>>] = n
    <3>1. mem'[w] = table /\ bucket[r] \in Nat
        BY <1>2, <1>6, <1>10, <2>1 DEF Base, TypeOK
    <3>2. table[Key(r)] = n \/ Key(r)[2] < bucket[r] - 2
        BY <1>2, <1>3
    <3> QED
        BY <1>3, <1>10, <3>1, <3>2
  <2> QED
      BY <1>5, <1>6, <2>1, <2>3, <2>5, <2>6 DEF n
<1> QED
    BY <1>9, <1>10

LEMMA MemoryStep ==
    ASSUME Base, Base', MemoryLimits, [Next]_vars
    PROVE  MemoryLimits'
<1>1. now \in Nat
    BY DEF Base, TypeOK
<1>2. ASSUME UNCHANGED <<pc, client, bucket, via, worker>>, NEW w, NEW x, NEW b
      PROVE  Admitted(w, x, b)' = Admitted(w, x, b)
    BY <1>2 DEF Admitted, AllowedBy, Own
<1>3. ASSUME NEW r \in Requests, RequestNext(r)
      PROVE  MemoryLimits'
  <2>1. CASE Fails(r)
      BY <2>1, MemoryFails
  <2>2. CASE ~Fails(r)
    <3>1. now' = now /\ mem' = mem
        BY <1>3, <2>2 DEF RequestNext, Step, Arrive, Incr, Expire, Lands, Resends
    <3>2. ASSUME NEW w \in Workers, NEW x \in Clients, NEW b \in Buckets
          PROVE  Admitted(w, x, b)' \subseteq Admitted(w, x, b)
      <4>1. r \in Admitted(w, x, b)' => r \in Admitted(w, x, b)
        <5>1. CASE Arrive(r)
            BY <5>1 DEF Arrive, Goto, Admitted, AllowedBy, Own, Base, TypeOK
        <5>2. CASE Incr(r) \/ Expire(r)
          <6>1. via'[r] # "memory"
              BY <5>2 DEF Incr, Expire, Decide, Base, TypeOK, Placed, Waiting
          <6> QED
              BY <6>1 DEF Admitted, AllowedBy
        <5>3. CASE Lands(r) \/ Resends(r)
            BY <5>3 DEF Lands, Resends, identity, Admitted, AllowedBy, Own
        <5> QED
            BY <1>3, <2>2, <5>1, <5>2, <5>3 DEF RequestNext, Step
      <4>2. \A q \in Requests \ {r} :
               q \in Admitted(w, x, b)' => q \in Admitted(w, x, b)
          BY <1>3, Others DEF Admitted, AllowedBy, Own
      <4> QED
          BY <4>1, <4>2 DEF Admitted, AllowedBy, Own
    <3> QED
        BY <1>1, <3>1, <3>2, MemoryKept
  <2> QED
      BY <2>1, <2>2
<1>4. CASE Tick \/ RedisRestarts \/ UNCHANGED vars
  <2>1. mem' = mem /\ now <= now' /\ UNCHANGED <<pc, client, bucket, via, worker>>
      BY <1>1, <1>4 DEF Tick, RedisRestarts, vars, identity
  <2>2. \A w \in Workers, x \in Clients, b \in Buckets :
           Admitted(w, x, b)' \subseteq Admitted(w, x, b)
      BY <1>2, <2>1
  <2> QED
      BY <2>1, <2>2, MemoryKept
<1> QED
    BY <1>3, <1>4 DEF Next

-------------------------------------------------------------------------------
(* A client's requests of a window only become more, and so do those that   *)
(* were counted.                                                           *)
LEMMA OwnGrows ==
    ASSUME Base, [Next]_vars, NEW x, NEW b, NEW w
    PROVE  /\ Own(x, b) \subseteq Own(x, b)'
           /\ Counted(x, b) \subseteq Counted(x, b)'
           /\ Tabled(w, x, b) \subseteq Tabled(w, x, b)'
<1>1. ASSUME UNCHANGED <<pc, client, bucket, via, worker, adrift>>
      PROVE  /\ Own(x, b) \subseteq Own(x, b)'
             /\ Counted(x, b) \subseteq Counted(x, b)'
             /\ Tabled(w, x, b) \subseteq Tabled(w, x, b)'
    BY <1>1 DEF Own, Counted, Tabled
<1>2. ASSUME NEW r \in Requests, RequestNext(r)
      PROVE  /\ Own(x, b) \subseteq Own(x, b)'
             /\ Counted(x, b) \subseteq Counted(x, b)'
             /\ Tabled(w, x, b) \subseteq Tabled(w, x, b)'
  <2>1. /\ r \in Own(x, b) => r \in Own(x, b)'
        /\ r \in Counted(x, b) => r \in Counted(x, b)'
        /\ r \in Tabled(w, x, b) => r \in Tabled(w, x, b)'
    <3>1. CASE Arrive(r)
        BY <3>1 DEF Arrive, Own, Counted, Tabled
    <3>2. CASE Incr(r) \/ Expire(r)
      <4>1. /\ pc'[r] \in {"expire", "allowed", "refused"} /\ via[r] = "none"
            /\ adrift[r] = "none" /\ UNCHANGED <<client, bucket, worker, adrift>>
          BY <3>2 DEF Incr, Expire, Decide, Goto, identity, Base, TypeOK, Placed, Waiting
      <4> QED
          BY <4>1 DEF Own, Counted, Tabled
    <3>3. CASE Fails(r)
      <4>1. PICK v \in Workers : FellBack(r, v)
          BY <3>3, FallbackStep
      <4>2. /\ pc'[r] \in {"allowed", "refused"} /\ via[r] = "none"
            /\ adrift'[r] = pc[r] /\ UNCHANGED <<client, bucket>>
          BY <3>3, <4>1 DEF Fails, FellBack, Base, TypeOK, Placed
      <4> QED
          BY <4>2 DEF Own, Counted, Tabled
    <3>4. CASE Lands(r)
      <4>1. adrift'[r] = "none" /\ UNCHANGED <<pc, client, bucket, worker, via>>
          BY <3>4 DEF Lands, identity, Base, TypeOK
      <4> QED
          BY <4>1 DEF Own, Counted, Tabled
    <3>5. CASE Resends(r)
        BY <1>1, <3>5 DEF Resends, identity
    <3> QED
        BY <1>2, <3>1, <3>2, <3>3, <3>4, <3>5 DEF RequestNext, Step
  <2>2. ASSUME NEW q \in Requests \ {r}
        PROVE  /\ q \in Own(x, b) => q \in Own(x, b)'
               /\ q \in Counted(x, b) => q \in Counted(x, b)'
               /\ q \in Tabled(w, x, b) => q \in Tabled(w, x, b)'
      BY <1>2, Others DEF Own, Counted, Tabled
  <2> QED
      BY <2>1, <2>2 DEF Own, Counted, Tabled
<1>3. CASE Tick \/ RedisRestarts \/ UNCHANGED vars
    BY <1>1, <1>3 DEF Tick, RedisRestarts, vars, identity
<1> QED
    BY <1>2, <1>3 DEF Next

LEMMA Sizable ==
    ASSUME Base, [Next]_vars, NEW x, NEW b, NEW w
    PROVE  /\ Own(x, b) \in SUBSET Requests /\ Own(x, b)' \in SUBSET Requests
           /\ Counted(x, b) \in SUBSET Requests /\ Counted(x, b)' \in SUBSET Requests
           /\ Tabled(w, x, b) \in SUBSET Requests /\ Tabled(w, x, b)' \in SUBSET Requests
           /\ Cardinality(Own(x, b)) \in Nat /\ Cardinality(Own(x, b)') \in Nat
           /\ Cardinality(Counted(x, b)) \in Nat /\ Cardinality(Counted(x, b)') \in Nat
           /\ Cardinality(Tabled(w, x, b)) \in Nat
           /\ Cardinality(Tabled(w, x, b)') \in Nat
           /\ Cardinality(Own(x, b)) <= Cardinality(Own(x, b)')
           /\ Cardinality(Counted(x, b)) <= Cardinality(Counted(x, b)')
           /\ Cardinality(Tabled(w, x, b)) <= Cardinality(Tabled(w, x, b)')
<1>1. /\ Own(x, b) \in SUBSET Requests /\ Own(x, b)' \in SUBSET Requests
      /\ Counted(x, b) \in SUBSET Requests /\ Counted(x, b)' \in SUBSET Requests
      /\ Tabled(w, x, b) \in SUBSET Requests /\ Tabled(w, x, b)' \in SUBSET Requests
    BY DEF Own, Counted, Tabled
<1>2. /\ Cardinality(Own(x, b)) \in Nat /\ Cardinality(Own(x, b)') \in Nat
      /\ Cardinality(Own(x, b)) <= Cardinality(Own(x, b)')
    BY <1>1, OwnGrows, Fewer
<1>3. /\ Cardinality(Counted(x, b)) \in Nat /\ Cardinality(Counted(x, b)') \in Nat
      /\ Cardinality(Counted(x, b)) <= Cardinality(Counted(x, b)')
    BY <1>1, OwnGrows, Fewer
<1>4. /\ Cardinality(Tabled(w, x, b)) \in Nat /\ Cardinality(Tabled(w, x, b)') \in Nat
      /\ Cardinality(Tabled(w, x, b)) <= Cardinality(Tabled(w, x, b)')
    BY <1>1, OwnGrows, Fewer
<1> QED
    BY <1>1, <1>2, <1>3, <1>4

(* A request that is newly counted, in Redis or in a table.                 *)
LEMMA NewlyCounted ==
    ASSUME Base, NEW r \in Requests, Incr(r) \/ (Lands(r) /\ adrift[r] = "incr"),
           NEW x, NEW b, x = client[r], b = bucket[r]
    PROVE  r \notin Counted(x, b) /\ r \in Counted(x, b)' /\ r \in Own(x, b)'
<1>1. CASE Incr(r)
    BY <1>1 DEF Incr, Decide, Goto, identity, Counted, Own, Base, TypeOK, Placed, Waiting
<1>2. CASE Lands(r) /\ adrift[r] = "incr"
    BY <1>2 DEF Lands, identity, Counted, Own, Base, TypeOK, Placed, Waiting
<1> QED
    BY <1>1, <1>2

LEMMA CountsIncr ==
    ASSUME Base, Base', OwnCounts, NEW r \in Requests, [Next]_vars, RunIncr(r),
           Incr(r) \/ (Lands(r) /\ adrift[r] = "incr"),
           NEW x \in Clients, NEW b \in Buckets
    PROVE  counters'[<<x, b>>] <= Cardinality(Counted(x, b)') + resent'
<1>1. pc[r] # "idle" /\ resent' = resent /\ resent \in Nat
    BY DEF Incr, Lands, Base, TypeOK, Placed
<1>2. <<x, b>> \in Keys /\ Key(r) = <<client[r], bucket[r]>> /\ Key(r) \in Keys
    BY <1>1, KeyType DEF Keys
<1>3. counters \in [Keys -> Nat]
    BY DEF Base, TypeOK
<1>4. /\ counters[<<x, b>>] <= Cardinality(Counted(x, b)) + resent
      /\ Cardinality(Counted(x, b)) \in Nat /\ Cardinality(Counted(x, b)') \in Nat
      /\ Cardinality(Counted(x, b)) <= Cardinality(Counted(x, b)')
    BY Sizable DEF OwnCounts
<1>5. CASE <<x, b>> # Key(r)
    BY <1>1, <1>2, <1>3, <1>4, <1>5 DEF RunIncr
<1>6. CASE <<x, b>> = Key(r)
  <2>1. counters'[<<x, b>>] = counters[<<x, b>>] + 1 /\ counters[<<x, b>>] \in Nat
    <3>1. counters'[Key(r)] = counters[Key(r)] + 1 /\ counters[Key(r)] \in Nat
        BY <1>2, <1>3 DEF RunIncr
    <3> QED
        BY <1>6, <3>1
  <2>2. x = client[r] /\ b = bucket[r]
      BY <1>2, <1>6
  <2>3. Counted(x, b) \union {r} \subseteq Counted(x, b)' /\ r \notin Counted(x, b)
    <3>1. Counted(x, b) \subseteq Counted(x, b)'
        BY OwnGrows
    <3>2. r \notin Counted(x, b) /\ r \in Counted(x, b)'
        BY <2>2, NewlyCounted
    <3> QED
        BY <3>1, <3>2
  <2>4. Cardinality(Counted(x, b)) + 1 <= Cardinality(Counted(x, b)')
      BY <2>3, Sizable, Joined
  <2> QED
      BY <1>1, <1>4, <2>1, <2>4
<1> QED
    BY <1>5, <1>6

LEMMA CountsFails ==
    ASSUME Base, Base', OwnCounts, NEW r \in Requests, [Next]_vars, Fails(r),
           NEW v \in Workers, FellBack(r, v)
    PROVE  /\ \A w \in Workers, x \in Clients, b \in Buckets :
                  mem'[w][<<x, b>>] <= Cardinality(Tabled(w, x, b)')
           /\ \A x \in Clients, b \in Buckets : x = client[r] /\ b = bucket[r] =>
                  mem[v][Key(r)] + 1 <= Cardinality(Tabled(v, x, b)')
<1>1. /\ Key(r) \in Keys /\ Key(r) = <<client[r], bucket[r]>> /\ Waiting(r)
      /\ client[r] \in Clients /\ bucket[r] \in Buckets
    BY KeyType DEF Fails, Waiting
<1>2. PICK table \in [Keys -> Nat] :
         /\ mem' = [mem EXCEPT ![v] = table]
         /\ \A k \in Keys :
               \/ table[k] = IF k = Key(r) THEN mem[v][Key(r)] + 1 ELSE mem[v][k]
               \/ table[k] = 0 /\ k[2] < bucket[r] - 2
    BY DEF FellBack
<1>3. mem \in [Workers -> [Keys -> Nat]]
    BY DEF Base, TypeOK
<1>4. ASSUME NEW x \in Clients, NEW b \in Buckets, x = client[r], b = bucket[r]
      PROVE  mem[v][Key(r)] + 1 <= Cardinality(Tabled(v, x, b)')
  <2>1. r \notin Tabled(v, x, b) /\ r \in Tabled(v, x, b)'
    <3>1. via[r] = "none" /\ via'[r] = "memory" /\ worker'[r] = v
          /\ pc'[r] # "idle" /\ UNCHANGED <<client, bucket>>
        BY <1>1 DEF Fails, FellBack, Base, TypeOK, Placed
    <3> QED
        BY <1>4, <3>1 DEF Tabled, Own
  <2>2. Cardinality(Tabled(v, x, b)) + 1
            <= Cardinality(Tabled(v, x, b)')
    <3>1. Tabled(v, x, b) \subseteq Tabled(v, x, b)'
        BY OwnGrows
    <3>2. Tabled(v, x, b) \in SUBSET Requests
          /\ Tabled(v, x, b)' \in SUBSET Requests
        BY DEF Tabled, Own
    <3> QED
        BY <2>1, <3>1, <3>2, Joined
  <2>3. mem[v][Key(r)] <= Cardinality(Tabled(v, x, b))
      BY <1>1, <1>4 DEF OwnCounts
  <2>4. /\ Cardinality(Tabled(v, x, b)) \in Nat
        /\ Cardinality(Tabled(v, x, b)') \in Nat
        /\ mem[v][Key(r)] \in Nat
      BY <1>1, <1>3, Sizable
  <2> QED
      BY <2>2, <2>3, <2>4
<1>5. ASSUME NEW w \in Workers, NEW x \in Clients, NEW b \in Buckets
      PROVE  mem'[w][<<x, b>>] <= Cardinality(Tabled(w, x, b)')
  <2>1. <<x, b>> \in Keys
      BY DEF Keys
  <2>2. /\ mem[w][<<x, b>>] <= Cardinality(Tabled(w, x, b))
        /\ Cardinality(Tabled(w, x, b)) <= Cardinality(Tabled(w, x, b)')
        /\ Cardinality(Tabled(w, x, b)) \in Nat /\ Cardinality(Tabled(w, x, b)') \in Nat
        /\ mem[w][<<x, b>>] \in Nat
      BY <1>3, <2>1, Sizable DEF OwnCounts
  <2>3. CASE w # v
      BY <1>2, <1>3, <2>2, <2>3
  <2>4. CASE w = v /\ <<x, b>> # Key(r)
    <3>1. mem'[w] = table
        BY <1>2, <1>3, <2>4
    <3>2. table[<<x, b>>] = mem[v][<<x, b>>] \/ table[<<x, b>>] = 0
        BY <1>2, <2>1, <2>4
    <3> QED
        BY <2>2, <2>4, <3>1, <3>2
  <2>5. CASE w = v /\ <<x, b>> = Key(r)
    <3>1. mem'[w] = table /\ x = client[r] /\ b = bucket[r]
        BY <1>1, <1>2, <1>3, <2>5
    <3>2. table[<<x, b>>] = mem[v][Key(r)] + 1 \/ table[<<x, b>>] = 0
        BY <1>2, <2>1, <2>5
    <3>3. mem[v][Key(r)] + 1 <= Cardinality(Tabled(w, x, b)')
        BY <1>4, <2>5, <3>1
    <3> QED
        BY <2>2, <3>1, <3>2, <3>3
  <2> QED
      BY <2>3, <2>4, <2>5
<1> QED
    BY <1>4, <1>5

LEMMA CountsStep ==
    ASSUME Base, Base', OwnCounts, [Next]_vars
    PROVE  OwnCounts'
<1>1. ASSUME NEW x \in Clients, NEW b \in Buckets
      PROVE  counters'[<<x, b>>] <= Cardinality(Counted(x, b)') + resent'
  <2>1. /\ <<x, b>> \in Keys /\ counters[<<x, b>>] \in Nat /\ counters'[<<x, b>>] \in Nat
        /\ resent \in Nat /\ resent' \in Nat
      BY DEF Keys, Base, TypeOK
  <2>2. /\ counters[<<x, b>>] <= Cardinality(Counted(x, b)) + resent
        /\ Cardinality(Counted(x, b)) \in Nat /\ Cardinality(Counted(x, b)') \in Nat
        /\ Cardinality(Counted(x, b)) <= Cardinality(Counted(x, b)')
      BY Sizable DEF OwnCounts
  <2>3. CASE counters'[<<x, b>>] <= counters[<<x, b>>] /\ resent' >= resent
      BY <2>1, <2>2, <2>3
  <2>4. ASSUME NEW r \in Requests, RequestNext(r)
        PROVE  counters'[<<x, b>>] <= Cardinality(Counted(x, b)') + resent'
    <3>1. CASE Incr(r) \/ (Lands(r) /\ adrift[r] = "incr")
      <4>1. CASE RunIncr(r)
          BY <3>1, <4>1, CountsIncr
      <4>2. CASE ~RunIncr(r)
          BY <3>1, <4>2 DEF Incr, Lands
      <4> QED
          BY <4>1, <4>2
    <3>2. CASE Resends(r)
      <4>1. counters'[<<x, b>>] <= counters[<<x, b>>] + 1 /\ resent' = resent + 1
        <5>1. counters \in [Keys -> Nat] /\ resent' = resent + 1 /\ RunIncr(r)
            BY <3>2 DEF Resends, Base, TypeOK
        <5>2. CASE <<x, b>> = Key(r)
            BY <2>1, <5>1, <5>2 DEF RunIncr
        <5>3. CASE <<x, b>> # Key(r)
            BY <2>1, <5>1, <5>3 DEF RunIncr
        <5> QED
            BY <5>1, <5>2, <5>3
      <4> QED
          BY <2>1, <2>2, <4>1
    <3>3. CASE Arrive(r) \/ Expire(r) \/ Fails(r) \/ (Lands(r) /\ adrift[r] # "incr")
      <4>1. counters' = counters /\ resent' = resent
          BY <3>3 DEF Arrive, Expire, Fails, Lands, RunExpire, redis, history
      <4> QED
          BY <2>1, <2>3, <4>1
    <3> QED
        BY <2>4, <3>1, <3>2, <3>3 DEF RequestNext, Step
  <2>5. CASE Tick \/ RedisRestarts
    <3>1. PICK lost : counters' = Without(lost, counters)
        BY <2>5 DEF Tick, RedisRestarts
    <3>2. resent' = resent
        BY <2>5 DEF Tick, RedisRestarts, history
    <3> QED
        BY <2>1, <2>3, <3>1, <3>2 DEF Without
  <2>6. CASE UNCHANGED vars
      BY <2>1, <2>3, <2>6 DEF vars, redis, history
  <2> QED
      BY <2>4, <2>5, <2>6 DEF Next
<1>2. ASSUME NEW w \in Workers, NEW x \in Clients, NEW b \in Buckets
      PROVE  mem'[w][<<x, b>>] <= Cardinality(Tabled(w, x, b)')
  <2>1. /\ mem[w][<<x, b>>] <= Cardinality(Tabled(w, x, b))
        /\ Cardinality(Tabled(w, x, b)) <= Cardinality(Tabled(w, x, b)')
        /\ Cardinality(Tabled(w, x, b)) \in Nat /\ Cardinality(Tabled(w, x, b)') \in Nat
        /\ mem[w][<<x, b>>] \in Nat
      BY Sizable DEF OwnCounts, Keys, Base, TypeOK
  <2>2. CASE mem' = mem
      BY <2>1, <2>2
  <2>3. CASE mem' # mem
    <3>1. PICK r \in Requests : Fails(r)
        BY <2>3 DEF Next, RequestNext, Step, Arrive, Incr, Expire, Lands, Resends, Tick,
                    RedisRestarts, vars
    <3>2. PICK v \in Workers : FellBack(r, v)
        BY <3>1, FallbackStep
    <3> QED
        BY <3>1, <3>2, CountsFails
  <2> QED
      BY <2>2, <2>3
<1> QED
    BY <1>1, <1>2 DEF OwnCounts

(* Who is answered stays as he is.                                         *)
LEMMA StaysRefused ==
    ASSUME Base, [Next]_vars, NEW q \in Requests, pc[q] = "refused"
    PROVE  /\ client'[q] = client[q] /\ bucket'[q] = bucket[q]
           /\ via'[q] = via[q] /\ worker'[q] = worker[q]
<1>1. CASE \E r \in Requests : RequestNext(r)
  <2>1. PICK r \in Requests : RequestNext(r)
      BY <1>1
  <2>2. CASE r # q
      BY <2>1, <2>2, Others
  <2>3. CASE r = q
    <3>1. Lands(q)
        BY <2>1, <2>3 DEF RequestNext, Step, Arrive, Incr, Expire, Fails, Resends, Waiting
    <3> QED
        BY <3>1 DEF Lands, identity
  <2> QED
      BY <2>2, <2>3
<1>2. CASE Tick \/ RedisRestarts \/ UNCHANGED vars
    BY <1>2 DEF Tick, RedisRestarts, vars, identity
<1> QED
    BY <1>1, <1>2 DEF Next

LEMMA ResentGrows ==
    ASSUME Base, [Next]_vars
    PROVE  resent \in Nat /\ resent' \in Nat /\ resent <= resent'
<1>1. resent \in Nat
    BY DEF Base, TypeOK
<1>2. resent' = resent \/ resent' = resent + 1
    BY DEF Next, RequestNext, Step, Arrive, Incr, Expire, Fails, Lands, Resends, Tick,
           RedisRestarts, vars, history
<1> QED
    BY <1>1, <1>2

(* A request refused in this step.                                         *)
LEMMA RefusedNow ==
    ASSUME Base, [Next]_vars, NEW q \in Requests, pc'[q] = "refused",
           pc[q] # "refused"
    PROVE  Incr(q) \/ Fails(q)
<1>1. PICK r \in Requests : RequestNext(r)
    BY DEF Next, Tick, RedisRestarts, vars
<1>2. r = q
    BY <1>1, Others
<1>3. ~Expire(q)
    BY Sizes DEF Expire, Decide, Goto, Base, TypeOK
<1> QED
    BY <1>1, <1>2, <1>3
       DEF RequestNext, Step, Arrive, Lands, Resends, Goto, Base, TypeOK

LEMMA RefusedIncr ==
    ASSUME Base, Base', OwnCounts, [Next]_vars, NEW q \in Requests, Incr(q),
           pc'[q] = "refused", NEW x, NEW b, x = client[q], b = bucket[q]
    PROVE  via'[q] = "redis" /\ Cardinality(Own(x, b)') + resent' > MaxRequests
<1>1. /\ Key(q) \in Keys /\ Key(q) = <<x, b>> /\ x \in Clients /\ b \in Buckets
    BY KeyType DEF Incr
<1>2. counters[<<x, b>>] + 1 > MaxRequests /\ via'[q] = "redis"
    BY <1>1 DEF Incr, Decide, Goto, Base, TypeOK
<1>3. /\ counters[<<x, b>>] <= Cardinality(Counted(x, b)) + resent
      /\ counters[<<x, b>>] \in Nat
    BY <1>1 DEF OwnCounts, Base, TypeOK
<1>4. Counted(x, b) \union {q} \subseteq Own(x, b)' /\ q \notin Counted(x, b)
  <2>1. Own(x, b) \subseteq Own(x, b)' /\ Counted(x, b) \subseteq Own(x, b)
      BY OwnGrows DEF Counted
  <2>2. q \notin Counted(x, b) /\ q \in Own(x, b)'
      BY NewlyCounted
  <2> QED
      BY <2>1, <2>2
<1>5. /\ Cardinality(Counted(x, b)) + 1 <= Cardinality(Own(x, b)')
      /\ Cardinality(Counted(x, b)) \in Nat /\ Cardinality(Own(x, b)') \in Nat
    BY <1>4, Sizable, Joined
<1>6. resent \in Nat /\ resent' \in Nat /\ resent <= resent'
    BY ResentGrows
<1> QED
    BY <1>2, <1>3, <1>5, <1>6, Sizes

LEMMA RefusedFails ==
    ASSUME Base, Base', OwnCounts, [Next]_vars, NEW q \in Requests, Fails(q),
           pc'[q] = "refused", NEW x, NEW b, NEW w,
           x = client[q], b = bucket[q], w = worker'[q]
    PROVE  via'[q] = "memory" /\ Cardinality(Tabled(w, x, b)') > FallbackLimit
<1>1. PICK v \in Workers : FellBack(q, v)
    BY FallbackStep
<1>2. /\ Key(q) \in Keys /\ x \in Clients /\ b \in Buckets
    BY KeyType DEF Fails, Waiting
<1>3. /\ mem[v][Key(q)] + 1 > FallbackLimit /\ via'[q] = "memory" /\ w = v
    BY <1>1 DEF FellBack, Base, TypeOK
<1>4. mem[v][Key(q)] + 1 <= Cardinality(Tabled(v, x, b)')
    BY <1>1, <1>2, CountsFails
<1>5. mem[v][Key(q)] \in Nat /\ Cardinality(Tabled(v, x, b)') \in Nat
  <2>1. mem[v][Key(q)] \in Nat
      BY <1>2 DEF Base, TypeOK
  <2> QED
      BY <2>1, Sizable
<1> QED
    BY <1>3, <1>4, <1>5, Sizes

LEMMA RefusedStep ==
    ASSUME Base, Base', OwnCounts, OwnRefused, [Next]_vars
    PROVE  OwnRefused'
<1>1. SUFFICES ASSUME NEW q \in Requests, pc'[q] = "refused",
                      NEW x, NEW b, NEW w,
                      x = client'[q], b = bucket'[q], w = worker'[q]
               PROVE  \/ /\ via'[q] = "redis"
                         /\ Cardinality(Own(x, b)') + resent' > MaxRequests
                      \/ /\ via'[q] = "memory"
                         /\ Cardinality(Tabled(w, x, b)') > FallbackLimit
    BY DEF OwnRefused
<1>2. CASE pc[q] = "refused"
  <2>1. x = client[q] /\ b = bucket[q] /\ w = worker[q] /\ via'[q] = via[q]
      BY <1>1, <1>2, StaysRefused
  <2>2. \/ via[q] = "redis" /\ Cardinality(Own(x, b)) + resent > MaxRequests
        \/ via[q] = "memory" /\ Cardinality(Tabled(w, x, b)) > FallbackLimit
      BY <1>2, <2>1 DEF OwnRefused
  <2> QED
      BY <2>1, <2>2, Sizable, ResentGrows, Sizes
<1>3. CASE pc[q] # "refused"
  <2>1. CASE Incr(q)
    <3>1. x = client[q] /\ b = bucket[q]
        BY <1>1, <2>1 DEF Incr, identity
    <3> QED
        BY <1>1, <2>1, <3>1, RefusedIncr
  <2>2. CASE Fails(q)
    <3>1. x = client[q] /\ b = bucket[q]
        BY <1>1, <2>2 DEF Fails
    <3> QED
        BY <1>1, <2>2, <3>1, RefusedFails
  <2> QED
      BY <1>1, <1>3, <2>1, <2>2, RefusedNow
<1> QED
    BY <1>2, <1>3

-------------------------------------------------------------------------------
(* Counters without an expiry.                                             *)
Timeless(k) == counters[k] > 0 /\ expiry[k] = 0
Excused(k) == k \in orphaned \/ \E r \in Requests : pc[r] = "expire" /\ Key(r) = k

LEMMA OrphansStay ==
    ASSUME [Next]_vars
    PROVE  orphaned \subseteq orphaned'
BY DEF Next, RequestNext, Step, Arrive, Incr, Expire, Fails, Lands, Resends, Tick,
       RedisRestarts, vars, history

(* Only an INCR that makes the counter leaves it without an expiry.        *)
LEMMA NewTimeless ==
    ASSUME Base, Base', [Next]_vars, NEW k \in Keys, ~Timeless(k), Timeless(k)'
    PROVE  \E r \in Requests :
              /\ RequestNext(r) /\ RunIncr(r) /\ Key(r) = k /\ counters[k] = 0
              /\ pc[r] # "idle"
<1>1. /\ counters \in [Keys -> Nat] /\ expiry \in [Keys -> Nat]
      /\ \A j \in Keys : expiry[j] # 0 => counters[j] > 0
      /\ now + Window + Grace \in Nat \ {0}
    BY Sizes DEF Base, TypeOK
<1>2. CASE Tick \/ RedisRestarts
  <2>1. PICK lost : counters' = Without(lost, counters) /\ expiry' = Without(lost, expiry)
      BY <1>2 DEF Tick, RedisRestarts
  <2> QED
      BY <1>1, <2>1 DEF Without, Timeless
<1>3. CASE UNCHANGED redis
    BY <1>3 DEF redis, Timeless
<1>4. ASSUME NEW r \in Requests, RequestNext(r), RunIncr(r), pc[r] # "idle"
      PROVE  Key(r) = k /\ counters[k] = 0
  <2>1. Key(r) \in Keys
      BY <1>4, KeyType
  <2> QED
      BY <1>1, <1>4, <2>1 DEF RunIncr, Timeless
<1>5. ASSUME NEW r \in Requests, RunExpire(r), pc[r] # "idle"
      PROVE  FALSE
  <2>1. Key(r) \in Keys
      BY <1>5, KeyType
  <2> QED
      BY <1>1, <1>5, <2>1 DEF RunExpire, Timeless
<1>6. ASSUME NEW r \in Requests, RequestNext(r)
      PROVE  (RunIncr(r) /\ pc[r] # "idle") \/ (RunExpire(r) /\ pc[r] # "idle")
             \/ UNCHANGED redis
    BY <1>6 DEF RequestNext, Step, Arrive, Incr, Expire, Fails, Lands, Resends, Base,
                Placed
<1> QED
    BY <1>2, <1>3, <1>4, <1>5, <1>6 DEF Next, vars

(* Its request goes on to set the expiry, or the counter is an orphan.     *)
LEMMA NewExcused ==
    ASSUME Base, NEW r \in Requests, RequestNext(r), RunIncr(r), pc[r] # "idle",
           counters[Key(r)] = 0
    PROVE  Key(r) \in orphaned' \/ (pc'[r] = "expire" /\ Key(r)' = Key(r))
<1>1. CASE Incr(r)
    BY <1>1 DEF Incr, Goto, identity, Key, Base, TypeOK
<1>2. CASE Resends(r)
    BY <1>2 DEF Resends
<1>3. CASE Lands(r) /\ adrift[r] = "incr"
    BY <1>3 DEF Lands
<1>4. counters' # counters
  <2>1. Key(r) \in Keys
      BY KeyType
  <2> QED
      BY <2>1 DEF RunIncr, Base, TypeOK
<1> QED
    BY <1>1, <1>2, <1>3, <1>4
       DEF RequestNext, Step, Arrive, Expire, Fails, Lands, RunExpire, redis

(* A request about to set it does, or the counter is an orphan.            *)
LEMMA StaysExcused ==
    ASSUME Base, Base', [Next]_vars, NEW q \in Requests, pc[q] = "expire",
           NEW k, k = Key(q), Timeless(k), Timeless(k)'
    PROVE  Key(q) \in orphaned' \/ (pc'[q] = "expire" /\ Key(q)' = Key(q))
<1>1. CASE Tick \/ RedisRestarts \/ UNCHANGED vars
    BY <1>1 DEF Tick, RedisRestarts, vars, identity, Key
<1>2. ASSUME NEW r \in Requests, RequestNext(r), r # q
      PROVE  pc'[q] = "expire" /\ Key(q)' = Key(q)
    BY <1>2, Others DEF Key
<1>3. CASE RequestNext(q)
  <2>1. Expire(q) \/ Fails(q)
      BY <1>3 DEF RequestNext, Step, Arrive, Incr, Lands, Resends, Base, Placed, Waiting
  <2>2. CASE Expire(q)
    <3>1. Key(q) \in Keys /\ now + Window + Grace \in Nat \ {0} /\ Key(q)' = Key(q)
        BY <2>2, KeyType, Sizes DEF Expire, identity, Key, Base, TypeOK
    <3>2. expiry'[Key(q)] # 0
        BY <2>2, <3>1 DEF Expire, RunExpire, Timeless, Base, TypeOK
    <3> QED
        BY <3>1, <3>2 DEF Timeless
  <2>3. CASE Fails(q)
      BY <2>3 DEF Fails
  <2> QED
      BY <2>1, <2>2, <2>3
<1> QED
    BY <1>1, <1>2, <1>3 DEF Next

LEMMA ExpireStep ==
    ASSUME Base, Base', CountersExpire, [Next]_vars
    PROVE  CountersExpire'
<1>1. SUFFICES ASSUME NEW k \in Keys, Timeless(k)'
               PROVE  Excused(k)'
    BY DEF CountersExpire, Timeless, Excused
<1>2. CASE Timeless(k)
  <2>1. CASE k \in orphaned
      BY <2>1, OrphansStay DEF Excused
  <2>2. CASE \E q \in Requests : pc[q] = "expire" /\ Key(q) = k
    <3>1. PICK q \in Requests : pc[q] = "expire" /\ Key(q) = k
        BY <2>2
    <3>2. Key(q) \in orphaned' \/ (pc'[q] = "expire" /\ Key(q)' = Key(q))
        BY <1>1, <1>2, <3>1, StaysExcused
    <3> QED
        BY <3>1, <3>2 DEF Excused
  <2> QED
      BY <1>2, <2>1, <2>2 DEF CountersExpire, Timeless
<1>3. CASE ~Timeless(k)
  <2>1. PICK r \in Requests :
            /\ RequestNext(r) /\ RunIncr(r) /\ Key(r) = k /\ counters[k] = 0
            /\ pc[r] # "idle"
      BY <1>1, <1>3, NewTimeless
  <2>2. Key(r) \in orphaned' \/ (pc'[r] = "expire" /\ Key(r)' = Key(r))
      BY <2>1, NewExcused
  <2> QED
      BY <2>1, <2>2 DEF Excused
<1> QED
    BY <1>2, <1>3

-------------------------------------------------------------------------------
(* No request has come at first.                                           *)
LEMMA InitLimits ==
    ASSUME Init
    PROVE  Lasts /\ RedisLimits /\ MemoryLimits /\ OwnCounts /\ OwnRefused
           /\ CountersExpire
<1>1. \A x, b : Own(x, b) = {}
    BY DEF Init, Own
<1>2. Cardinality({}) = 0
    BY FS_EmptySet
<1>3. \A x \in Clients, b \in Buckets : counters[<<x, b>>] = 0
      /\ \A w \in Workers : mem[w][<<x, b>>] = 0
    BY DEF Init, Keys
<1>4. Lasts /\ OwnRefused /\ CountersExpire
    BY DEF Init, Lasts, OwnRefused, CountersExpire
<1>5. ASSUME NEW x, NEW b, NEW w
      PROVE  /\ Cardinality(Taken(x, b)) = 0 /\ Cardinality(Admitted(w, x, b)) = 0
             /\ Cardinality(Counted(x, b)) = 0 /\ Cardinality(Tabled(w, x, b)) = 0
  <2>1. Taken(x, b) = {} /\ Admitted(w, x, b) = {} /\ Counted(x, b) = {}
        /\ Tabled(w, x, b) = {}
      BY <1>1 DEF Taken, Admitted, AllowedBy, Counted, Tabled
  <2> QED
      BY <1>2, <2>1
<1>6. RedisLimits
  <2>1. ASSUME NEW x \in Clients, NEW b \in Buckets
        PROVE  Cardinality(Taken(x, b)) <= MaxRequests
               /\ Cardinality(Taken(x, b)) <= counters[<<x, b>>]
      BY <1>3, <1>5, Sizes
  <2> QED
      BY <2>1 DEF RedisLimits
<1>7. MemoryLimits
  <2>1. ASSUME NEW w \in Workers, NEW x \in Clients, NEW b \in Buckets
        PROVE  Cardinality(Admitted(w, x, b)) <= FallbackLimit
               /\ Cardinality(Admitted(w, x, b)) <= mem[w][<<x, b>>]
      BY <1>3, <1>5, Sizes
  <2> QED
      BY <2>1 DEF MemoryLimits
<1>8. OwnCounts
  <2>1. resent = 0
      BY DEF Init
  <2>2. ASSUME NEW w \in Workers, NEW x \in Clients, NEW b \in Buckets
        PROVE  mem[w][<<x, b>>] <= Cardinality(Tabled(w, x, b))
      BY <1>3, <1>5
  <2>3. ASSUME NEW x \in Clients, NEW b \in Buckets
        PROVE  counters[<<x, b>>] <= Cardinality(Counted(x, b)) + resent
      BY <1>3, <1>5, <2>1
  <2> QED
      BY <2>2, <2>3 DEF OwnCounts
<1> QED
    BY <1>4, <1>6, <1>7, <1>8

(* The limits hold of what was taken and admitted, so of what was allowed.  *)
LEMMA LimitsSuffice ==
    ASSUME RedisLimits, MemoryLimits
    PROVE  LimitHolds
<1>1. ASSUME NEW x \in Clients, NEW b \in Buckets, <<x, b>> \notin forgotten
      PROVE  Cardinality(AllowedBy("redis", x, b)) <= MaxRequests
  <2>1. /\ AllowedBy("redis", x, b) \subseteq Taken(x, b)
        /\ Taken(x, b) \subseteq Requests
      BY DEF AllowedBy, Taken, Own
  <2>2. Cardinality(Taken(x, b)) <= MaxRequests
      BY <1>1 DEF RedisLimits
  <2>3. /\ Cardinality(AllowedBy("redis", x, b)) <= Cardinality(Taken(x, b))
        /\ Cardinality(AllowedBy("redis", x, b)) \in Nat
        /\ Cardinality(Taken(x, b)) \in Nat
      BY <2>1, Fewer
  <2> QED
      BY <2>2, <2>3, Sizes
<1>2. ASSUME NEW x \in Clients, NEW b \in Buckets, NEW w \in Workers
      PROVE  Cardinality({r \in AllowedBy("memory", x, b) : worker[r] = w})
                 <= FallbackLimit
    BY DEF MemoryLimits, Admitted
<1> QED
    BY <1>1, <1>2 DEF LimitHolds

(* A client gets no more than the limit from Redis and from each worker,   *)
(* whatever fails (dispatch).                                              *)
THEOREM LimitRespected == Spec => []LimitHolds
<1>1. Init => Base /\ Lasts /\ RedisLimits /\ MemoryLimits
    BY InitBase, InitLimits
<1>2. Base /\ Lasts /\ RedisLimits /\ MemoryLimits /\ [Next]_vars
          => (Base /\ Lasts /\ RedisLimits /\ MemoryLimits)'
    BY BaseStep, LastsStep, RedisStep, MemoryStep
<1>3. Base /\ Lasts /\ RedisLimits /\ MemoryLimits => LimitHolds
    BY LimitsSuffice
<1> QED
    BY <1>1, <1>2, <1>3, PTL DEF Spec

(* Those in a worker's table are among those it decided on.                 *)
LEMMA RefusedSuffices ==
    ASSUME Base, OwnRefused
    PROVE  OnlyOwnTraffic
<1>1. SUFFICES ASSUME NEW r \in Requests, pc[r] = "refused",
                      NEW own, own = Own(client[r], bucket[r])
               PROVE  IF via[r] = "redis"
                      THEN Cardinality(own) + resent > MaxRequests
                      ELSE Cardinality({o \in own : worker[o] = worker[r]})
                               > FallbackLimit
    BY DEF OnlyOwnTraffic
<1>2. CASE via[r] = "redis"
    BY <1>1, <1>2 DEF OwnRefused
<1>3. CASE via[r] # "redis"
  <2> DEFINE tabled == Tabled(worker[r], client[r], bucket[r])
             decided == {o \in own : worker[o] = worker[r]}
  <2>1. Cardinality(tabled) > FallbackLimit
      BY <1>1, <1>3 DEF OwnRefused
  <2>2. tabled \subseteq decided /\ decided \subseteq Requests
      BY <1>1 DEF Tabled, Own
  <2> HIDE DEF tabled, decided
  <2>3. /\ Cardinality(tabled) <= Cardinality(decided)
        /\ Cardinality(tabled) \in Nat /\ Cardinality(decided) \in Nat
      BY <2>2, Fewer
  <2>4. Cardinality(decided) > FallbackLimit
      BY <2>1, <2>3, Sizes
  <2> QED
      BY <1>3, <2>4 DEF decided
<1> QED
    BY <1>2, <1>3

(* No client is refused for what another sent (dispatch).                   *)
THEOREM OwnTrafficOnly == Spec => []OnlyOwnTraffic
<1>1. Init => Base /\ OwnCounts /\ OwnRefused
    BY InitBase, InitLimits
<1>2. Base /\ OwnCounts /\ OwnRefused /\ [Next]_vars
          => (Base /\ OwnCounts /\ OwnRefused)'
    BY BaseStep, CountsStep, RefusedStep
<1>3. Base /\ OwnCounts /\ OwnRefused => OnlyOwnTraffic
    BY RefusedSuffices
<1> QED
    BY <1>1, <1>2, <1>3, PTL DEF Spec

(* A counter without an expiry is one whose first reply or EXPIRE was lost  *)
(* (dispatch).                                                             *)
THEOREM CountersLeave == Spec => []CountersExpire
<1>1. Init => Base /\ CountersExpire
    BY InitBase, InitLimits
<1>2. Base /\ CountersExpire /\ [Next]_vars => (Base /\ CountersExpire)'
    BY BaseStep, ExpireStep
<1> QED
    BY <1>1, <1>2, PTL DEF Spec

===============================================================================
