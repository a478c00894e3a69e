---------------------------- MODULE GatewayLimits ----------------------------
(***************************************************************************)
(* How the gateway admits API requests: the routing, credential check and  *)
(* limits of apiHandler (cmd/gateway/main.go) and the count-min sketch of  *)
(* internal/gateway/ratelimit.go.  A sketch counts hashed addresses in     *)
(* rows of a few cells; it is emptied with its window, and whenever the    *)
(* salt of the hash is replaced.  Which addresses share a cell is an input,*)
(* drawn anew with every salt.                                             *)
(***************************************************************************)
EXTENDS Naturals, FiniteSetsExt

CONSTANTS
    Addresses,    \* normalized client addresses
    SketchRows,   \* rows of a sketch
    HashChoices,  \* the functions [SketchRows -> [Addresses -> Nat]] a salt may give
    MinuteTicks,  \* clock ticks of a minute
    DayTicksGw,   \* clock ticks of a day
    RateLimit,    \* limit of "rate" and of authenticated requests
    BurstLimit,   \* limit of "burst"
    DailyLimit,   \* limit of "daily"
    MaxGwTick     \* bound: the clock

ASSUME GatewayAssumption ==
    /\ MinuteTicks \in Nat \ {0} /\ DayTicksGw \in Nat /\ DayTicksGw >= MinuteTicks
    /\ SketchRows # {}
    /\ RateLimit \in Nat \ {0} /\ BurstLimit \in Nat /\ DailyLimit \in Nat /\ MaxGwTick \in Nat

VARIABLES
    watched,    \* "sketches" (apiHandler) or "bucket" (a signed-in user of GatewayRateLimiter)
    gwClock,
    sketch,     \* limiter -> [cells, hash, windowStart, saltRotated]
    authCount,  \* the bucket of one signed-in user: [count, start]
    passed,     \* observation: limiter -> address -> requests that got past it in its window
    resalted,   \* observation: limiters whose salt changed in the middle of the window
    leaked,     \* observation: a private request without credentials reached the backend
    authPassed  \* observation: the user's requests let through in the bucket's window

gwVars == <<watched, gwClock, sketch, authCount, passed, resalted, leaked, authPassed>>

\* The two-tier cap on registrations is "burst" and "daily"; IPOnlyRateLimitMiddleware is
\* built like "rate".
Limiters == {"rate", "burst", "daily"}
Limit(l) == CASE l = "rate" -> RateLimit [] l = "burst" -> BurstLimit [] OTHER -> DailyLimit
Window(l) == IF l = "daily" THEN DayTicksGw ELSE MinuteTicks

Spaces == {"app", "fakeid", "legacy"}
Endpoints == {"login", "register", "inviteRegister", "sharedFile", "inbox"}

\* Credentials make no difference to a public endpoint.
ApiRequests == {r \in [space: Spaces, endpoint: Endpoints, cred: BOOLEAN] : r.cred => r.endpoint = "inbox"}

\* The backend sees two URL spaces: /app/api and the legacy /api are one.
gatewayBackendPath(space, endpoint) == <<IF space = "fakeid" THEN "fakeid" ELSE "primary", endpoint>>

rateLimitedPaths == {"primary", "fakeid"} \X {"login", "register"}
regLimitedPaths == {<<"primary", "register">>, <<"primary", "inviteRegister">>, <<"fakeid", "register">>}
publicPaths == {"primary", "fakeid"} \X {"login", "register"} \cup {<<"primary", "inviteRegister">>}
isPublicPrefix(bp) == bp = <<"primary", "sharedFile">>

Cells(h) == [r \in SketchRows |-> [c \in {h[r][a] : a \in Addresses} |-> 0]]
NewSketch(h, t) == [cells |-> Cells(h), hash |-> h, windowStart |-> t, saltRotated |-> t]
NonePassed == [a \in Addresses |-> 0]

GwTypeOK ==
    /\ gwClock \in 0..MaxGwTick
    /\ \A l \in Limiters :
         /\ sketch[l].hash \in HashChoices
         /\ DOMAIN sketch[l].cells = SketchRows
         /\ sketch[l].windowStart \in 0..gwClock /\ sketch[l].saltRotated \in 0..gwClock
    /\ authCount \in [count: 0..(RateLimit + 1), start: 0..gwClock]
    /\ passed \in [Limiters -> [Addresses -> Nat]]
    /\ resalted \subseteq Limiters
    /\ watched \in {"sketches", "bucket"} /\ leaked \in BOOLEAN

GwInit ==
    /\ watched \in {"sketches", "bucket"}
    /\ gwClock = 0
    /\ \E h \in HashChoices : sketch = [l \in Limiters |-> NewSketch(h, 0)]
    /\ authCount = [count |-> 0, start |-> 0]
    /\ passed = [l \in Limiters |-> NonePassed]
    /\ resalted = {} /\ leaked = FALSE /\ authPassed = 0

-----------------------------------------------------------------------------
(* mutant: only the first row is counted *)
IncrementFirst(s, a) ==
    LET r0 == CHOOSE r \in SketchRows : TRUE
    IN [s EXCEPT !.cells[r0][s.hash[r0][a]] = @ + 1]

Increment(s, a) ==
    [s EXCEPT !.cells = [r \in SketchRows |-> [s.cells[r] EXCEPT ![s.hash[r][a]] = @ + 1]]]

Estimate(s, a) == Min({s.cells[r][s.hash[r][a]] : r \in SketchRows})

\* max(24h, window)
saltCap(l) == IF Window(l) > DayTicksGw THEN Window(l) ELSE DayTicksGw

SaltDue(l) == gwClock - sketch[l].saltRotated >= saltCap(l)
WindowDue(l) == gwClock - sketch[l].windowStart >= Window(l)

\* The sketch after the rotation of the salt and the reset of the window that are due.
Refreshed(l, h) ==
    [cells |-> IF SaltDue(l) \/ WindowDue(l) THEN Cells(h) ELSE sketch[l].cells,
     hash |-> h,
     windowStart |-> IF WindowDue(l) THEN gwClock ELSE sketch[l].windowStart,
     saltRotated |-> IF SaltDue(l) THEN gwClock ELSE sketch[l].saltRotated]

\* The sketches of the limiters ls after allow, and those of ls that accept the request.
Counted(ls, a, h) ==
    [l \in ls |-> Increment(Refreshed(l, IF SaltDue(l) THEN h ELSE sketch[l].hash), a)]
Accepting(ls, a, s) == {l \in ls : Estimate(s[l], a) <= Limit(l)}

allow(ls, a, s) ==
    /\ \A l \in ls : Estimate(s[l], a) <= Limit(l) + 1     \* bound: one refusal is enough
    /\ sketch' = [l \in Limiters |-> IF l \in ls THEN s[l] ELSE sketch[l]]
    /\ passed' = [l \in Limiters |->
                    IF l \notin ls THEN passed[l]
                    ELSE LET p == IF WindowDue(l) THEN NonePassed ELSE passed[l]
                         IN IF l \in Accepting(ls, a, s) THEN [p EXCEPT ![a] = @ + 1] ELSE p]
    /\ resalted' = {l \in Limiters : IF l \in ls /\ WindowDue(l) THEN FALSE
                                     ELSE l \in resalted \/ (l \in ls /\ SaltDue(l))}

\* The backend is reached by public paths, and by requests with a cookie or Authorization.
mayProxy(bp, cred) == bp \in publicPaths \/ isPublicPrefix(bp) \/ cred

\* The hash functions a request may draw.
Salts(ls) == IF \E l \in ls : SaltDue(l) THEN HashChoices ELSE {sketch["rate"].hash}

\* A request refused by "rate" is not counted by the other two; these both count it.
apiHandler(a, space, endpoint, cred) ==
    LET bp == gatewayBackendPath(space, endpoint)
        first == IF bp \in rateLimitedPaths THEN {"rate"} ELSE {}
        second == IF bp \in regLimitedPaths THEN {"burst", "daily"} ELSE {}
    IN /\ watched = "sketches"
       /\ \E s \in {Counted(first \cup second, a, h) : h \in Salts(first \cup second)} :
            LET refused == Accepting(first, a, s) # first
                all == IF refused THEN first ELSE first \cup second
            IN /\ allow(all, a, s)
               /\ leaked' = (leaked \/ ( /\ Accepting(all, a, s) = first \cup second
                                       /\ mayProxy(bp, cred)
                                       /\ endpoint = "inbox" /\ ~cred))
       /\ UNCHANGED <<watched, gwClock, authCount, authPassed>>

\* GatewayRateLimiter.Allow of a signed-in user in memory.  (With Redis it asks a
\* RedisRateLimiter, module RateLimits; without a user it is a sketch like "rate".)
AllowAuthenticated ==
    LET fresh == gwClock - authCount.start >= MinuteTicks \/ authCount.count = 0
        ok == fresh \/ authCount.count + 1 <= RateLimit
    IN /\ watched = "bucket"
       /\ fresh \/ authCount.count <= RateLimit     \* bound: one refusal is enough
       /\ authCount' = IF fresh THEN [count |-> 1, start |-> gwClock]
                       ELSE [authCount EXCEPT !.count = @ + 1]
       /\ authPassed' = (IF fresh THEN 0 ELSE authPassed) + (IF ok THEN 1 ELSE 0)
       /\ UNCHANGED <<watched, gwClock, sketch, passed, resalted, leaked>>

GwTick ==
    /\ gwClock < MaxGwTick /\ gwClock' = gwClock + 1
    /\ UNCHANGED <<watched, sketch, authCount, passed, resalted, leaked, authPassed>>

GwNext ==
    \/ GwTick \/ AllowAuthenticated
    \/ \E a \in Addresses, r \in ApiRequests : apiHandler(a, r.space, r.endpoint, r.cred)

GwSpec == GwInit /\ [][GwNext]_gwVars

-----------------------------------------------------------------------------
\* No address gets more requests past a limiter in its window than the limit, whatever cells
\* the addresses share and however the windows lie; twice the limit when the salt is replaced
\* in the window, which never happens to the daily cap on registrations.  And no private
\* request reaches the backend without credentials, whichever URL space it came by.
RequestQuota ==
    /\ \A l \in Limiters, a \in Addresses :
         passed[l][a] <= Limit(l) * (IF l \in resalted THEN 2 ELSE 1)
    /\ "daily" \notin resalted
    /\ authPassed <= RateLimit
    /\ ~leaked

=============================================================================
