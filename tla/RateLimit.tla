------------------------------- MODULE RateLimit -------------------------------
(***************************************************************************)
(* RedisRateLimitMiddleware and its fallback _memory_rate_limit_allow      *)
(* (backend/app/main.py).  A request counts itself in Redis, for its       *)
(* client and window, or, when Redis fails, in its worker's own table.     *)
(* Time is in ticks, Window of them a window; the clocks of workers and    *)
(* Redis agree.  How a client is told from its connection and headers is   *)
(* left out.                                                               *)
(***************************************************************************)
EXTENDS Integers, FiniteSets

CONSTANTS
    Requests, Clients, Workers,
    NoClient, NoWorker,
    MaxRequests,    \* max_requests=120
    Window,         \* window_seconds=60
    Grace,          \* the 5 s more that a counter lives
    Patience,       \* connect and socket timeout: how long a round trip takes
    PruneAt,        \* 50_000 entries of _mem_counts
    KeepTo,         \* 40_000
    MaxTime,        \* bound on now
    MaxFaults       \* bound on failures

Buckets == 0..(MaxTime \div Window)
Keys == Clients \X Buckets

ASSUME RateLimitAssumption ==
    /\ IsFiniteSet(Requests)
    /\ NoClient \notin Clients
    /\ NoWorker \notin Workers
    /\ MaxRequests \in Nat \ {0}
    /\ Window \in Nat \ {0}
    /\ {Grace, Patience, PruneAt, KeepTo, MaxTime, MaxFaults} \subseteq Nat
    /\ Patience < 2 * Window
    /\ KeepTo <= PruneAt

\* _fallback_limit
FallbackLimit == IF MaxRequests \div 2 > 1 THEN MaxRequests \div 2 ELSE 1

VARIABLES
    now,
    counters,   \* counters[k]: INCRs of the counter in Redis, 0 without one
    expiry,     \* expiry[k]: when it expires, 0 for never
    mem,        \* mem[w]: worker w's _mem_counts, 0 for no entry
    pc,         \* pc[r]: the await of request r, or its answer
    client, bucket,
    worker,     \* worker[r]: the worker whose table counted r
    via,        \* via[r]: where the count that decided on r was made
    adrift,     \* adrift[r]: r's command that Redis may still run, r having
                \* given up on it
    faults,     \* failures so far
    resent,     \* INCRs the client sent a second time (history)
    orphaned,   \* counters that lost the request to set their expiry (history)
    forgotten   \* counters Redis lost or may have let expire early (history)

redis == <<counters, expiry>>
identity == <<client, worker, bucket>>
history == <<resent, orphaned, forgotten>>
vars == <<now, redis, mem, pc, identity, via, adrift, faults, history>>

Waiting(r) == pc[r] \in {"incr", "expire"}

\* Mutant of Key: requests are not told apart by their clients.
KeyShared(r) == <<CHOOSE x \in Clients : TRUE, bucket[r]>>

Key(r) == <<client[r], bucket[r]>>

\* The first tick after window b.
EndOf(b) == (b + 1) * Window

Init ==
    /\ now = 0
    /\ counters = [k \in Keys |-> 0]
    /\ expiry = [k \in Keys |-> 0]
    /\ mem = [w \in Workers |-> [k \in Keys |-> 0]]
    /\ pc = [r \in Requests |-> "idle"]
    /\ client = [r \in Requests |-> NoClient]
    /\ worker = [r \in Requests |-> NoWorker]
    /\ bucket = [r \in Requests |-> 0]
    /\ via = [r \in Requests |-> "none"]
    /\ adrift = [r \in Requests |-> "none"]
    /\ faults = 0
    /\ resent = 0
    /\ orphaned = {}
    /\ forgotten = {}

Goto(r, place) == pc' = [pc EXCEPT ![r] = place]

\* The answer of r, whose count in `source' is n of at most limit.
Decide(r, n, limit, source) ==
    /\ Goto(r, IF n > limit THEN "refused" ELSE "allowed")
    /\ via' = [via EXCEPT ![r] = source]

-------------------------------------------------------------------------------
\* Mutant of Arrive: the window's number is rounded up.
ArriveNextWindow(r) ==
    /\ pc[r] = "idle"
    /\ Goto(r, "incr")
    /\ \E x \in Clients : client' = [client EXCEPT ![r] = x]
    /\ bucket' = [bucket EXCEPT ![r] = now \div Window + 1]
    /\ UNCHANGED <<now, redis, mem, worker, via, adrift, faults, history>>

Arrive(r) ==
    /\ pc[r] = "idle"
    /\ Goto(r, "incr")
    /\ \E x \in Clients : client' = [client EXCEPT ![r] = x]
    /\ bucket' = [bucket EXCEPT ![r] = now \div Window]
    /\ UNCHANGED <<now, redis, mem, worker, via, adrift, faults, history>>

\* Redis runs INCR for r.
RunIncr(r) ==
    /\ counters' = [counters EXCEPT ![Key(r)] = @ + 1]
    /\ UNCHANGED expiry

\* Mutant of RunExpire: the counter lives for a window from its first request.
RunExpireExactly(r) ==
    /\ expiry' = IF counters[Key(r)] = 0 THEN expiry
                 ELSE [expiry EXCEPT ![Key(r)] = now + Window]
    /\ UNCHANGED counters

\* Redis runs EXPIRE for r: nothing without a counter.
RunExpire(r) ==
    /\ expiry' = IF counters[Key(r)] = 0 THEN expiry
                 ELSE [expiry EXCEPT ![Key(r)] = now + Window + Grace]
    /\ UNCHANGED counters

\* Mutant of Incr: the reply decides, and the second request sets the expiry.
IncrSecond(r) ==
    LET n == counters[Key(r)] + 1
    IN  /\ pc[r] = "incr"
        /\ RunIncr(r)
        /\ IF n = 2
           THEN Goto(r, "expire") /\ UNCHANGED via
           ELSE Decide(r, n, MaxRequests, "redis")
        /\ forgotten' = IF now >= EndOf(bucket[r]) + Grace
                        THEN forgotten \union {Key(r)} ELSE forgotten
        /\ UNCHANGED <<now, mem, identity, adrift, faults, resent, orphaned>>

\* await redis.incr(key)
Incr(r) ==
    LET n == counters[Key(r)] + 1
    IN  /\ pc[r] = "incr"
        /\ RunIncr(r)
        /\ IF n = 1
           THEN Goto(r, "expire") /\ UNCHANGED via
           ELSE Decide(r, n, MaxRequests, "redis")
        /\ forgotten' = IF now >= EndOf(bucket[r]) + Grace
                        THEN forgotten \union {Key(r)} ELSE forgotten
        /\ UNCHANGED <<now, mem, identity, adrift, faults, resent, orphaned>>

\* await redis.expire(key, ...): its request was the first.
Expire(r) ==
    /\ pc[r] = "expire"
    /\ RunExpire(r)
    /\ Decide(r, 1, MaxRequests, "redis")
    /\ UNCHANGED <<now, mem, identity, adrift, faults, history>>

-------------------------------------------------------------------------------
Entries(table) == {k \in Keys : table[k] > 0}

\* A table above PruneAt loses old entries until KeepTo or none is left; the
\* loop takes them in the order of their insertion, here any.
Pruned(table, b) ==
    LET old == {k \in Entries(table) : k[2] < b - 2}
        n == Cardinality(Entries(table))
        excess == IF Cardinality(old) < n - KeepTo THEN Cardinality(old)
                  ELSE n - KeepTo
    IN  IF n <= PruneAt THEN {table}
        ELSE {[k \in Keys |-> IF k \in gone THEN 0 ELSE table[k]] :
                 gone \in {s \in SUBSET old : Cardinality(s) = excess}}

\* except Exception: _memory_rate_limit_allow decides, in the worker w that r is
\* served by; which one that is makes no difference before.
Fallback(r) ==
    \E w \in Workers :
        LET n == mem[w][Key(r)] + 1
            counted == [mem[w] EXCEPT ![Key(r)] = n]
        IN  /\ \E table \in Pruned(counted, bucket[r]) :
                  mem' = [mem EXCEPT ![w] = table]
            /\ worker' = [worker EXCEPT ![r] = w]
            /\ Decide(r, n, FallbackLimit, "memory")

Fault == faults < MaxFaults /\ faults' = faults + 1

\* A round trip fails.  Redis may have run the command or may yet: it is adrift.
Fails(r) ==
    /\ Waiting(r)
    /\ Fault
    /\ Fallback(r)
    /\ adrift' = [adrift EXCEPT ![r] = pc[r]]
    /\ orphaned' = IF pc[r] = "expire" THEN orphaned \union {Key(r)} ELSE orphaned
    /\ UNCHANGED <<now, redis, client, bucket, resent, forgotten>>

\* It is run when its request has given up.  A lost one stays adrift.
Lands(r) ==
    /\ adrift[r] # "none"
    /\ adrift' = [adrift EXCEPT ![r] = "none"]
    /\ \/ adrift[r] = "incr" /\ RunIncr(r)
       \/ adrift[r] = "expire" /\ RunExpire(r)
    /\ orphaned' = IF adrift[r] = "incr" /\ counters[Key(r)] = 0
                   THEN orphaned \union {Key(r)} ELSE orphaned
    /\ UNCHANGED <<now, mem, pc, identity, via, faults, resent, forgotten>>

\* The reply is lost and the client sends INCR again.
Resends(r) ==
    /\ pc[r] = "incr"
    /\ Fault
    /\ RunIncr(r)
    /\ resent' = resent + 1
    /\ orphaned' = IF counters[Key(r)] = 0
                   THEN orphaned \union {Key(r)} ELSE orphaned
    /\ UNCHANGED <<now, mem, pc, identity, via, adrift, forgotten>>

-------------------------------------------------------------------------------
\* The values of Redis's keys, those of `lost' left out.
Without(lost, value) == [k \in Keys |-> IF k \in lost THEN 0 ELSE value[k]]

\* No round trip outlasts the client's timeouts.
Tick ==
    LET overdue == {k \in Keys : expiry[k] = now + 1}
    IN  /\ now < MaxTime
        /\ \A r \in Requests : Waiting(r) => now < EndOf(bucket[r]) + Patience
        /\ now' = now + 1
        /\ counters' = Without(overdue, counters)
        /\ expiry' = Without(overdue, expiry)
        /\ UNCHANGED <<mem, pc, identity, via, adrift, faults, history>>

\* appendonly no: what no snapshot holds is lost.  That a snapshot holds an older
\* value is left out.
RedisRestarts ==
    /\ Fault
    /\ \E lost \in SUBSET {k \in Keys : counters[k] > 0} :
          /\ counters' = Without(lost, counters)
          /\ expiry' = Without(lost, expiry)
          /\ forgotten' = forgotten \union lost
    /\ UNCHANGED <<now, mem, pc, identity, via, adrift, resent, orphaned>>

-------------------------------------------------------------------------------
Step(r) == Incr(r) \/ Expire(r)
RequestNext(r) == Arrive(r) \/ Step(r) \/ Fails(r) \/ Lands(r) \/ Resends(r)

Next ==
    \/ \E r \in Requests : RequestNext(r)
    \/ Tick
    \/ RedisRestarts

Spec == Init /\ [][Next]_vars

-------------------------------------------------------------------------------
\* Types; a counter that is gone has no expiry, and none is overdue.
TypeOK ==
    /\ now \in 0..MaxTime
    /\ counters \in [Keys -> Nat]
    /\ expiry \in [Keys -> Nat]
    /\ mem \in [Workers -> [Keys -> Nat]]
    /\ pc \in [Requests -> {"idle", "incr", "expire", "allowed", "refused"}]
    /\ client \in [Requests -> Clients \union {NoClient}]
    /\ worker \in [Requests -> Workers \union {NoWorker}]
    /\ bucket \in [Requests -> 0..(now \div Window)]
    /\ via \in [Requests -> {"none", "redis", "memory"}]
    /\ adrift \in [Requests -> {"none", "incr", "expire"}]
    /\ faults \in 0..MaxFaults
    /\ resent \in 0..faults
    /\ orphaned \in SUBSET Keys
    /\ forgotten \in SUBSET Keys
    /\ \A k \in Keys : expiry[k] # 0 => counters[k] > 0 /\ expiry[k] > now

\* The requests of client x in window b.
Own(x, b) == {r \in Requests : pc[r] # "idle" /\ client[r] = x /\ bucket[r] = b}
AllowedBy(source, x, b) == {r \in Own(x, b) : pc[r] = "allowed" /\ via[r] = source}

\* A client is allowed no more than MaxRequests in a window by Redis and, however
\* often Redis fails and answers again, no more than half as many by each
\* worker's own count.  Excepted are counters that Redis forgot in a restart or
\* that were counted on after they may have expired.  (dispatch)
LimitHolds ==
    \A x \in Clients, b \in Buckets :
        /\ <<x, b>> \notin forgotten =>
              Cardinality(AllowedBy("redis", x, b)) <= MaxRequests
        /\ \A w \in Workers :
              Cardinality({r \in AllowedBy("memory", x, b) : worker[r] = w})
                  <= FallbackLimit

\* Whoever is refused has sent too many requests in this very window himself,
\* commands that were sent again counted in, or, with Redis away, too many to
\* the one worker.  (dispatch)
OnlyOwnTraffic ==
    \A r \in Requests :
        pc[r] = "refused" =>
            LET own == Own(client[r], bucket[r])
            IN  IF via[r] = "redis"
                THEN Cardinality(own) + resent > MaxRequests
                ELSE Cardinality({o \in own : worker[o] = worker[r]}) > FallbackLimit

\* A counter stays for ever only if the first INCR's reply or the EXPIRE after it
\* was lost: every other has an expiry or a request about to set it, whatever
\* else failed.  (dispatch)
CountersExpire ==
    \A k \in Keys :
        counters[k] > 0 /\ expiry[k] = 0 =>
            k \in orphaned \/ \E r \in Requests : pc[r] = "expire" /\ Key(r) = k
===============================================================================
