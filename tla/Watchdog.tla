------------------------------ MODULE Watchdog ------------------------------
(***************************************************************************)
(* The heartbeat of a worker over the message broker:                      *)
(* internal/queue/watchdog.go.  The loop publishes a ping, waits for the   *)
(* grace period and looks whether the subscription has seen it; pings may  *)
(* be lost, or arrive after the grace period.                              *)
(***************************************************************************)
EXTENDS Naturals

CONSTANTS
    MaxMisses,   \* MaxConsecutiveMisses
    MaxPings     \* bound: pings after which ids are used again

ASSUME WatchdogAssumption == MaxMisses \in Nat \ {0} /\ MaxPings \in Nat \ {0}

Pings == 1..MaxPings

VARIABLES
    loop,       \* "tick", "grace", "failed" (OnFail was called) or "stopped"
    ping,       \* the last ping
    seen,       \* watchdogPending.seen
    inFlight,   \* pings the broker holds
    misses,     \* consecutiveMisses
    broker,     \* "up", "deaf" (takes pings, delivers none) or "down"
    blind       \* observation: consecutive pings that did not come back in time

dogVars == <<loop, ping, seen, inFlight, misses, broker, blind>>

DogTypeOK ==
    /\ loop \in {"tick", "grace", "failed", "stopped"}
    /\ ping \in Pings
    /\ seen \subseteq Pings /\ inFlight \subseteq Pings
    /\ misses \in 0..MaxMisses /\ blind \in 0..MaxMisses
    /\ broker \in {"up", "deaf", "down"}

DogInit ==
    /\ loop = "tick" /\ ping = 1 /\ seen = {} /\ inFlight = {}
    /\ misses = 0 /\ blind = 0 /\ broker = "up"

-----------------------------------------------------------------------------
(* mutant: a publish that fails is only logged *)
CountMissIgnored(n) == misses' = misses /\ blind' = n + 1 /\ loop' = "tick"

\* A miss, and OnFail at the limit.
CountMiss(n) ==
    /\ misses' = n + 1 /\ blind' = blind + 1
    /\ loop' = IF n + 1 >= MaxMisses THEN "failed" ELSE "tick"

\* expect and Publish; a client buffers pings for a deaf broker.
Heartbeat ==
    /\ loop = "tick"
    /\ ping' = IF ping = MaxPings THEN 1 ELSE ping + 1
    /\ seen' = seen \ {ping'}
    /\ \/ /\ broker # "down" /\ loop' = "grace"
          /\ inFlight' = inFlight \cup {ping'}
          /\ UNCHANGED <<misses, blind>>
       \/ broker = "down" /\ CountMiss(misses) /\ UNCHANGED inFlight
    /\ UNCHANGED broker

\* The subscription's callback: markSeen.
Deliver(p) ==
    /\ broker = "up" /\ p \in inFlight
    /\ inFlight' = inFlight \ {p}
    /\ seen' = IF loop \in {"tick", "grace"} THEN seen \cup {p} ELSE seen
    /\ UNCHANGED <<loop, ping, misses, broker, blind>>

\* The grace period is over: consume.
Consume ==
    /\ loop = "grace"
    /\ seen' = seen \ {ping}
    /\ \/ ping \in seen /\ misses' = 0 /\ blind' = 0 /\ loop' = "tick"
       \/ ping \notin seen /\ CountMiss(misses)
    /\ UNCHANGED <<ping, inFlight, broker>>

\* The context is cancelled.
StopWatchdog ==
    /\ loop \in {"tick", "grace"} /\ loop' = "stopped"
    /\ UNCHANGED <<ping, seen, inFlight, misses, broker, blind>>

\* The broker breaks down or comes back; what it holds may be lost.
BrokerChange ==
    /\ broker' \in {"up", "deaf", "down"} \ {broker}
    /\ inFlight' \in {inFlight, {}}
    /\ UNCHANGED <<loop, ping, seen, misses, blind>>

DogStep == Heartbeat \/ Consume

DogNext == DogStep \/ StopWatchdog \/ BrokerChange \/ \E p \in Pings : Deliver(p)

\* The ticker and the grace timer keep firing.
DogFairness == WF_dogVars(DogStep)

DogSpec == DogInit /\ [][DogNext]_dogVars /\ DogFairness

-----------------------------------------------------------------------------
\* A broker that stays unreachable or stays deaf is noticed: OnFail is called, so that the
\* service is restarted, unless the service is stopped first; and OnFail is not called before
\* MaxConsecutiveMisses pings in a row failed to come back in time.
DeadBrokerNoticed ==
    /\ (<>[](broker # "up")) => <>(loop \in {"failed", "stopped"})
    /\ [](loop = "failed" => blind = MaxMisses)

=============================================================================
