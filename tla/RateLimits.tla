------------------------------ MODULE RateLimits ------------------------------
(***************************************************************************)
(* The counters behind the mail limits of one sender: RateLimiter          *)
(* (internal/smtp/ratelimit.go), ConnRateLimiter (conn_ratelimit.go) and   *)
(* the RedisRateLimiter both are built like (internal/ratelimit/redis.go). *)
(* Several processes share one Redis.  A call to Redis that times out may  *)
(* or may not have counted, and is counted again in memory.                *)
(***************************************************************************)
EXTENDS Integers, FiniteSets, Sequences

CONSTANTS
    Processes,    \* processes with a limiter each
    Calls,        \* calls of Allow that may be under way
    Shared,       \* the Redis key the processes share
    SendLimit,    \* tierLimit, tenantDailyCap or the connection limit
    RampLimit,    \* newFreeAccountDailyLimit
    DayTicks,     \* clock ticks of a day, the window of the sending limits
    ConnTicks,    \* the window of the connection limiter, a minute by default
    RampTicks,    \* newFreeAccountWindow
    FirstTick,    \* the clock when the processes start
    MaxTick,      \* bound: the clock
    MaxCounters,  \* bound: account counters made
    MaxOutages    \* bound: calls to Redis that fail

ASSUME RateAssumption ==
    /\ DayTicks \in Nat \ {0} /\ SendLimit \in Nat \ {0} /\ RampLimit \in Nat \ {0}
    /\ RampTicks \in Nat /\ MaxTick \in Nat /\ FirstTick \in 0..MaxTick /\ MaxCounters \in Nat /\ MaxOutages \in Nat
    /\ Shared \notin Processes
    /\ RampLimit <= SendLimit
    /\ ConnTicks \in 1..DayTicks

VARIABLES
    limiter,   \* which limiter is watched: "send", "tenant" or "conn"
    useRedis,  \* whether it was built with a Redis client
    clock,
    redis,     \* key -> counter
    inMemory,  \* process -> counter kept while Redis does not answer, or the tenant's counter
    counters,  \* process -> index of the account's counter in heap, or 0
    heap,      \* the accountCounters made
    call,      \* call -> where Allow is and what it has read
    outages,
    today,     \* observation: what was allowed since midnight
    spans      \* observation: the counter windows that allowed it

rateVars == <<limiter, useRedis, clock, redis, inMemory, counters, heap, call, outages, today, spans>>

NoCounter == [count |-> 0, end |-> -1]
Idle == [at |-> "idle", process |-> Shared, seen |-> 0, read |-> 0]
Counter == [count: 0..(SendLimit + 1), end: -1..(MaxTick + DayTicks)]
AccountCounter == [count: 0..SendLimit, end: 0..(MaxTick + DayTicks), created: 0..MaxTick]

RateTypeOK ==
    /\ limiter \in {"send", "tenant", "conn"} /\ useRedis \in BOOLEAN
    /\ clock \in 0..MaxTick /\ outages \in 0..MaxOutages
    /\ redis \in [Processes \cup {Shared} -> Counter]
    /\ inMemory \in [Processes -> Counter]
    /\ counters \in [Processes -> 0..Len(heap)]
    /\ heap \in Seq(AccountCounter) /\ Len(heap) <= MaxCounters
    /\ call \in [Calls -> [at: {"idle", "decide"}, process: Processes \cup {Shared}, seen: 0..Len(heap),
                           read: 0..MaxTick]]
    /\ today \in Nat

RateInit ==
    /\ limiter \in {"send", "tenant", "conn"} /\ useRedis \in BOOLEAN
    /\ clock = FirstTick /\ outages = 0
    /\ redis = [k \in Processes \cup {Shared} |-> NoCounter]
    /\ inMemory = [i \in Processes |-> NoCounter]
    /\ counters = [i \in Processes |-> 0] /\ heap = <<>>
    /\ call = [c \in Calls |-> Idle]
    /\ today = 0 /\ spans = {}

-----------------------------------------------------------------------------
\* now.Truncate(24h).Add(24h)
Midnight(t) == (t \div DayTicks) * DayTicks + DayTicks

Decide(ok, span) ==
    /\ today' = IF ok THEN today + 1 ELSE today
    /\ spans' = IF ok THEN spans \cup {span} ELSE spans

\* The hash of an address is salted with a secret of the process, and anew every day: no two
\* processes share its key.
hashIP(i) == IF limiter = "conn" THEN i ELSE Shared

\* The window a counter is started with.
CounterWindow == IF limiter = "conn" THEN ConnTicks ELSE DayTicks

(* mutant: the count before the increment is compared *)
IncrBefore(k, t) ==
    LET old == IF redis[k].end <= t THEN 0 ELSE redis[k].count
    IN [allowed |-> old <= SendLimit,
        counter |-> [count |-> old + 1, end |-> IF old = 0 THEN t + CounterWindow ELSE redis[k].end]]

\* luaIncr: INCR, and EXPIRE on the first; a key past its expiry is gone.
luaIncr(k, t) ==
    LET old == IF redis[k].end <= t THEN 0 ELSE redis[k].count
    IN [allowed |-> old + 1 <= SendLimit,
        counter |-> [count |-> old + 1, end |-> IF old = 0 THEN t + CounterWindow ELSE redis[k].end]]

\* A counter is started again only after the end of its window.
allowInMemory(i) ==
    LET b == inMemory[i]
        fresh == clock > b.end
    IN /\ fresh \/ b.count <= SendLimit     \* bound: one refusal is enough
       /\ inMemory' = [inMemory EXCEPT ![i] =
                         IF fresh THEN [count |-> 1, end |-> clock + CounterWindow]
                                  ELSE [b EXCEPT !.count = @ + 1]]
       /\ Decide(fresh \/ b.count + 1 <= SendLimit, <<"memory", i, inMemory'[i].end>>)

\* allowRedis, and the counter in memory on its error; the script may have run all the same.
AllowRedis(i) ==
    LET k == hashIP(i)
        r == luaIncr(k, clock)
    IN \/ /\ r.counter.count <= SendLimit + 1     \* bound: one refusal is enough
          /\ redis' = [redis EXCEPT ![k] = r.counter]
          /\ Decide(r.allowed, <<"redis", k, r.counter.end>>)
          /\ UNCHANGED <<inMemory, outages>>
       \/ /\ outages < MaxOutages /\ outages' = outages + 1
          /\ redis' \in {redis} \cup IF r.counter.count > SendLimit + 1 THEN {}
                                      ELSE {[redis EXCEPT ![k] = r.counter]}
          /\ allowInMemory(i)

AllowConn(i) ==
    /\ limiter = "conn"
    /\ \/ useRedis /\ AllowRedis(i)
       \/ ~useRedis /\ allowInMemory(i) /\ UNCHANGED <<redis, outages>>
    /\ UNCHANGED <<limiter, useRedis, clock, counters, heap, call>>

\* A connection whose IP cannot be determined is let in and counts for no address.
AllowUnknownIP == limiter = "conn" /\ UNCHANGED rateVars

\* The tenant's counter in memory runs to midnight and does not count what it refuses.
AllowTenantInMemory(i) ==
    LET b == IF clock > inMemory[i].end THEN [count |-> 0, end |-> Midnight(clock)] ELSE inMemory[i]
        ok == b.count < SendLimit
    IN /\ inMemory' = [inMemory EXCEPT ![i] = IF ok THEN [b EXCEPT !.count = @ + 1] ELSE b]
       /\ Decide(ok, <<"memory", i, b.end>>)

AllowTenant(i) ==
    /\ limiter = "tenant"
    /\ \/ useRedis /\ AllowRedis(i)
       \/ ~useRedis /\ AllowTenantInMemory(i) /\ UNCHANGED <<redis, outages>>
    /\ UNCHANGED <<limiter, useRedis, clock, counters, heap, call>>

-----------------------------------------------------------------------------
NewAccountCounter(i, t) ==
    /\ heap' = Append(heap, [count |-> 0, end |-> Midnight(t), created |-> t])
    /\ counters' = [counters EXCEPT ![i] = Len(heap) + 1]

RegisterAccount(i) ==
    /\ limiter = "send" /\ Len(heap) < MaxCounters
    /\ NewAccountCounter(i, clock)
    /\ UNCHANGED <<limiter, useRedis, clock, redis, inMemory, call, outages, today, spans>>

\* The window of an account's counter at time t.
Rolled(ac, t) == IF t > ac.end THEN [ac EXCEPT !.count = 0, !.end = Midnight(t)] ELSE ac

\* The first locked section of Allow: the ramp of a young free account counts, or refuses, here;
\* without Redis there is nothing more to ask.
AllowRamp(c, i, free) ==
    LET n == counters[i]
        young == free /\ n # 0 /\ clock < heap[n].created + RampTicks
        ac == Rolled(heap[n], clock)
        room == ac.count < RampLimit
    IN /\ limiter = "send" /\ call[c].at = "idle"
       /\ heap' = IF ~young THEN heap
                  ELSE [heap EXCEPT ![n] = IF room THEN [ac EXCEPT !.count = @ + 1] ELSE ac]
       /\ IF young /\ ~useRedis THEN Decide(room, <<"account", n, ac.end>>) /\ UNCHANGED call
          ELSE /\ call' = IF young /\ ~room THEN call
                          ELSE [call EXCEPT ![c] = [at |-> "decide", process |-> i, seen |-> n, read |-> clock]]
               /\ UNCHANGED <<today, spans>>
       /\ UNCHANGED <<limiter, useRedis, clock, redis, inMemory, counters, outages>>

\* The second section counts on the counter read in the first, and makes one if there was none.
AllowAccount(c) ==
    LET i == call[c].process
        t == call[c].read
        n == IF call[c].seen = 0 THEN Len(heap) + 1 ELSE call[c].seen
        ac == Rolled(IF call[c].seen = 0 THEN [count |-> 0, end |-> Midnight(t), created |-> t]
                     ELSE heap[n], t)
        ok == ac.count < SendLimit
        ac2 == IF ok THEN [ac EXCEPT !.count = @ + 1] ELSE ac
    IN /\ n <= MaxCounters
       /\ heap' = IF n > Len(heap) THEN Append(heap, ac2) ELSE [heap EXCEPT ![n] = ac2]
       /\ counters' = IF call[c].seen = 0 THEN [counters EXCEPT ![i] = n] ELSE counters
       /\ Decide(ok, <<"account", n, ac.end>>)

AllowSend(c) ==
    /\ call[c].at = "decide"
    /\ call' = [call EXCEPT ![c] = Idle]
    /\ \/ useRedis /\ AllowRedis(call[c].process) /\ UNCHANGED <<heap, counters>>
       \/ ~useRedis /\ AllowAccount(c) /\ UNCHANGED <<redis, inMemory, outages>>
    /\ UNCHANGED <<limiter, useRedis, clock>>

\* A new day brings a new salt: keys of the old one are never asked for again.
Tick ==
    /\ clock < MaxTick /\ clock' = clock + 1
    /\ IF clock' % DayTicks = 0
       THEN /\ today' = 0 /\ spans' = {}
            /\ redis' = IF limiter = "conn" THEN [k \in DOMAIN redis |-> NoCounter] ELSE redis
            /\ inMemory' = IF limiter = "conn" THEN [i \in Processes |-> NoCounter] ELSE inMemory
       ELSE UNCHANGED <<today, spans, redis, inMemory>>
    /\ UNCHANGED <<limiter, useRedis, counters, heap, call, outages>>

RateNext ==
    \/ Tick \/ AllowUnknownIP
    \/ \E i \in Processes : AllowConn(i) \/ AllowTenant(i) \/ RegisterAccount(i)
    \/ \E c \in Calls, i \in Processes, free \in BOOLEAN : AllowRamp(c, i, free)
    \/ \E c \in Calls : AllowSend(c)

RateSpec == RateInit /\ [][RateNext]_rateVars

-----------------------------------------------------------------------------
\* What a sender gets through in a day: at most the limit for each counter window that let
\* something through; and while Redis answers, a shared key has at most two windows in a day,
\* whatever the number of processes and calls (TLC's instance has one process).
SendQuota ==
    /\ today <= SendLimit * Cardinality(spans)
    /\ useRedis /\ outages = 0 /\ limiter # "conn" => Cardinality(spans) <= 2

=============================================================================
