------------------------------ MODULE Outbound ------------------------------
(***************************************************************************)
(* The smtp-outbound workers (cmd/smtp-outbound/main.go) on the JetStream  *)
(* queue (internal/queue/nats.go): delivery, retries with backoff kept in  *)
(* memory, temporary attachment blobs, bounces and the bounce-rate freeze, *)
(* under redelivery, ageing messages, crashes and graceful shutdown.       *)
(*                                                                         *)
(* A worker runs one callback at a time on the messages its consumer has   *)
(* pulled; several workers share the durable consumer.  A step is what a   *)
(* callback does between two effects another party can see or a crash can  *)
(* separate.  Message text, MIME composition and DKIM are left out: what a *)
(* send depends on is whether the attachments were fetched.  Not           *)
(* enumerated: payloads that do not decode, which are acknowledged.        *)
(***************************************************************************)
EXTENDS Naturals, Sequences, SequencesExt

CONSTANTS
    Jobs,             \* outbound messages the gateway queues, one blob each
    Workers,          \* smtp-outbound processes
    From,             \* From[j]: the sender of job j
    MaxAttempts,      \* maxAttempts (3 in the code)
    FreezeThreshold,  \* storage.BounceFreezeThreshold (3 in the code)
    BounceLimit,      \* bounceRateLimiter.limit (10 in the code)
    Prefetch,         \* messages a consumer holds (500 in the library)
    MXHosts,          \* hosts in a recipient domain's MX record
    MaxCrashes,       \* bound: process crashes
    MaxShutdowns,     \* bound: SIGTERMs
    MaxTimeouts,      \* bound: expirations of the ack wait
    MaxOld,           \* bound: messages that get older than maxMessageAge
    MaxFaults         \* bound: lost replies, failed downloads, publishes, updates

Senders == {From[j] : j \in Jobs}

ASSUME OutboundAssumption ==
    /\ Jobs # {}
    /\ MaxAttempts \in Nat \ {0} /\ FreezeThreshold \in Nat \ {0}
    /\ BounceLimit \in Nat /\ Prefetch \in Nat \ {0} /\ MXHosts \in Nat \ {0}
    /\ MaxCrashes \in Nat /\ MaxShutdowns \in Nat /\ MaxTimeouts \in Nat
    /\ MaxOld \in Nat /\ MaxFaults \in Nat

VARIABLES
    queue,     \* MAIL_OUTBOUND: [job, n, state, old]; n is the attempt field
    blob,      \* per job: the temporary attachment blob exists
    recent,    \* per sender: users.recent_bounces
    status,    \* per sender: users.account_status
    phase,     \* per worker: "up", "draining" (context cancelled) or "down"
    buf,       \* per worker: indices of the messages pulled, first one current
    pc, cur,   \* per worker: control point and the message in hand
    timers,    \* per worker: retries waiting for their backoff
    bounced,   \* per worker and sender: the bounce limiter's bucket
    counts,    \* how often each bounded event has happened
    \* observations
    sent,      \* per job: times a remote server accepted it
    bare,      \* jobs accepted without their attachments
    rejected,  \* jobs a remote server refused for good
    failures,  \* per job: temporary failures
    dsn,       \* per job: bounces published to the sender's inbox
    lost       \* <<job, reason>>: given up without delivery or bounce

queueVars == <<queue, blob, recent, status>>
workVars  == <<phase, buf, pc, cur, timers, bounced>>
obsVars   == <<sent, bare, rejected, failures, dsn, lost>>
vars == <<queue, blob, recent, status, phase, buf, pc, cur, timers, bounced, counts,
          sent, bare, rejected, failures, dsn, lost>>

Bounds == [crash |-> MaxCrashes, shutdown |-> MaxShutdowns, timeout |-> MaxTimeouts,
           old |-> MaxOld, fault |-> MaxFaults]
Happens(e) == counts[e] < Bounds[e] /\ counts' = [counts EXCEPT ![e] = @ + 1]

NoMessage == [job |-> CHOOSE j \in Jobs : TRUE, n |-> 0, att |-> FALSE, mx |-> MXHosts, res |-> "none"]

Init ==
    /\ queue = <<>>
    /\ blob = [j \in Jobs |-> TRUE]
    /\ recent = [s \in Senders |-> 0] /\ status = [s \in Senders |-> "active"]
    /\ phase = [w \in Workers |-> "up"]
    /\ buf = [w \in Workers |-> <<>>]
    /\ pc = [w \in Workers |-> "idle"] /\ cur = [w \in Workers |-> NoMessage]
    /\ timers = [w \in Workers |-> <<>>]
    /\ bounced = [w \in Workers |-> [s \in Senders |-> 0]]
    /\ counts = [e \in DOMAIN Bounds |-> 0]
    /\ sent = [j \in Jobs |-> 0] /\ bare = {} /\ rejected = {}
    /\ failures = [j \in Jobs |-> 0] /\ dsn = [j \in Jobs |-> 0] /\ lost = {}

-----------------------------------------------------------------------------
(* The stream and its durable consumer.                                    *)

Publish(j, n) == queue' = Append(queue, [job |-> j, n |-> n, state |-> "ready", old |-> FALSE])
Mark(i, s) == queue' = [queue EXCEPT ![i].state = s]
Queued == {queue[i].job : i \in DOMAIN queue}

(* The gateway queues a message of an active account, once.                *)
Submit(j) ==
    /\ \A i \in DOMAIN queue : ~(queue[i].job = j /\ queue[i].n = 0)
    /\ status[From[j]] = "active"
    /\ Publish(j, 0)
    /\ UNCHANGED <<blob, recent, status, workVars, counts, obsVars>>

Pull(w, i) ==
    /\ phase[w] = "up" /\ Len(buf[w]) < Prefetch
    /\ queue[i].state = "ready"
    /\ Mark(i, "out")
    /\ buf' = [buf EXCEPT ![w] = Append(@, i)]
    /\ UNCHANGED <<blob, recent, status, phase, pc, cur, timers, bounced, counts, obsVars>>

(* No acknowledgement in time: the server offers the message again, also   *)
(* while a worker is still busy with it.                                   *)
AckTimeout(i) ==
    /\ queue[i].state = "out"
    /\ Happens("timeout")
    /\ Mark(i, "ready")
    /\ UNCHANGED <<blob, recent, status, workVars, obsVars>>

(* maxMessageAge passes before the message was acknowledged.               *)
GrowOld(i) ==
    /\ queue[i].state # "done" /\ ~queue[i].old
    /\ Happens("old")
    /\ queue' = [queue EXCEPT ![i].old = TRUE]
    /\ UNCHANGED <<blob, recent, status, workVars, obsVars>>

-----------------------------------------------------------------------------
(* outboundHandler.handle, inside the callback of Subscribe.               *)

At(w, l) == pc[w] = l
Goto(w, l) == pc' = [pc EXCEPT ![w] = l]
Alive(w) == phase[w] # "down"

(* verifyMessage: a message that is too old is terminated, otherwise the   *)
(* handler starts.                                                         *)
Take(w) ==
    /\ Alive(w) /\ At(w, "idle") /\ buf[w] # <<>>
    /\ LET i == Head(buf[w]) IN
       \/ /\ queue[i].old
          /\ Mark(i, "done")
          /\ buf' = [buf EXCEPT ![w] = Tail(@)]
          /\ lost' = lost \cup {<<queue[i].job, "too old">>}
          /\ UNCHANGED <<pc, cur>>
       \/ /\ ~queue[i].old
          /\ cur' = [cur EXCEPT ![w] = [job |-> queue[i].job, n |-> queue[i].n,
                                        att |-> FALSE, mx |-> MXHosts, res |-> "none"]]
          /\ Goto(w, "fetch")
          /\ UNCHANGED <<queue, buf, lost>>
    /\ UNCHANGED <<blob, recent, status, phase, timers, bounced, counts,
                   sent, bare, rejected, failures, dsn>>

(* Download the attachments; a download that fails is skipped.             *)
Fetch(w) ==
    /\ At(w, "fetch")
    /\ \/ /\ phase[w] = "up" /\ blob[cur[w].job]
          /\ cur' = [cur EXCEPT ![w].att = TRUE]
          /\ UNCHANGED counts
       \/ /\ phase[w] = "draining" \/ ~blob[cur[w].job]
          /\ UNCHANGED <<cur, counts>>
       \/ /\ Happens("fault")
          /\ UNCHANGED cur
    /\ Goto(w, "send")
    /\ UNCHANGED <<queueVars, phase, buf, timers, bounced, obsVars>>

(* SendMessage up to the connection: tenant lookup and MX lookup use the   *)
(* cancelled context while draining, which is a temporary failure.         *)
Connect(w) ==
    /\ At(w, "send")
    /\ \/ /\ phase[w] = "up"
          /\ Goto(w, "deliver")
          /\ UNCHANGED <<cur, failures>>
       \/ /\ phase[w] = "draining"
          /\ cur' = [cur EXCEPT ![w].res = "temp"]
          /\ failures' = [failures EXCEPT ![cur[w].job] = @ + 1]
          /\ Goto(w, "settle")
    /\ UNCHANGED <<queueVars, phase, buf, timers, bounced, counts, sent, bare, rejected, dsn, lost>>

Accepted(w) ==
    /\ sent' = [sent EXCEPT ![cur[w].job] = @ + 1]
    /\ bare' = IF cur[w].att THEN bare ELSE bare \cup {cur[w].job}

(* A host failed for now: the next one is tried, the last failure counts.  *)
NextHost(w) ==
    LET j == cur[w].job IN
    \/ /\ cur[w].mx > 1
       /\ cur' = [cur EXCEPT ![w].mx = @ - 1]
       /\ UNCHANGED <<pc, failures>>
    \/ /\ cur[w].mx = 1
       /\ cur' = [cur EXCEPT ![w].res = "temp"]
       /\ failures' = [failures EXCEPT ![j] = @ + 1]
       /\ Goto(w, "settle")

(* The SMTP transaction with one MX host: accepted, refused for good (5xx, *)
(* no MX record), refused for now (4xx, network), or accepted with the     *)
(* reply lost, which classifyError takes for a temporary failure.          *)
Deliver(w) ==
    /\ At(w, "deliver")
    /\ \/ /\ Accepted(w)
          /\ cur' = [cur EXCEPT ![w].res = "ok"]
          /\ Goto(w, "settle")
          /\ UNCHANGED <<rejected, failures, counts>>
       \/ /\ cur' = [cur EXCEPT ![w].res = "perm"]
          /\ rejected' = rejected \cup {cur[w].job}
          /\ Goto(w, "settle")
          /\ UNCHANGED <<sent, bare, failures, counts>>
       \/ /\ NextHost(w)
          /\ UNCHANGED <<sent, bare, rejected, counts>>
       \/ /\ Happens("fault")
          /\ Accepted(w)
          /\ NextHost(w)
          /\ UNCHANGED rejected
    /\ UNCHANGED <<queueVars, phase, buf, timers, bounced, dsn, lost>>

(* mutant: the blobs are reclaimed after every attempt *)
tmpBlobsAlways(res, n) == TRUE
(* mutant: the blobs of a bounced message are left behind *)
tmpBlobsOnSuccess(res, n) == res = "ok"

tmpBlobsTerminal(res, n) == res \in {"ok", "perm"} \/ n + 1 >= MaxAttempts

(* mutant: one attempt fewer *)
OutOfRetriesEarly(n) == n + 2 >= MaxAttempts
(* mutant: one attempt more *)
OutOfRetriesLate(n) == n >= MaxAttempts
OutOfRetries(n) == n + 1 >= MaxAttempts

(* mutant: a temporary failure is acknowledged and forgotten *)
ScheduleForgotten(w) == Goto(w, "ack") /\ UNCHANGED timers

(* The retry waits in a goroutine of this process; the message in hand is  *)
(* acknowledged.                                                           *)
ScheduleRetry(w) ==
    /\ timers' = [timers EXCEPT ![w] = Append(@, [job |-> cur[w].job, n |-> cur[w].n + 1])]
    /\ Goto(w, "ack")

(* Reclaim the blobs that were downloaded, on a terminal outcome (the      *)
(* Delete fails once the context is cancelled); then bounce, retry or end. *)
Settle(w) ==
    LET c == cur[w] IN
    /\ At(w, "settle")
    /\ blob' = [blob EXCEPT ![c.job] =
                  @ /\ ~(tmpBlobsTerminal(c.res, c.n) /\ c.att /\ phase[w] = "up")]
    /\ \/ c.res = "ok" /\ Goto(w, "ack") /\ UNCHANGED timers
       \/ c.res = "perm" /\ Goto(w, "bounce") /\ UNCHANGED timers
       \/ c.res = "temp" /\ OutOfRetries(c.n) /\ Goto(w, "bounce") /\ UNCHANGED timers
       \/ c.res = "temp" /\ ~OutOfRetries(c.n) /\ ScheduleRetry(w)
    /\ UNCHANGED <<queue, recent, status, phase, buf, cur, bounced, counts, obsVars>>

(* insertBounce: the rate limiter, then the sender's record, which cannot  *)
(* be read while draining; without it there is no bounce.                  *)
InsertBounce(w) ==
    LET c == cur[w]  s == From[c.job] IN
    /\ At(w, "bounce")
    /\ \/ /\ bounced[w][s] >= BounceLimit
          /\ lost' = lost \cup {<<c.job, "bounce limited">>}
          /\ Goto(w, "ack")
          /\ UNCHANGED <<bounced, counts>>
       \/ /\ bounced[w][s] < BounceLimit
          /\ bounced' = [bounced EXCEPT ![w][s] = @ + 1]
          /\ \/ /\ phase[w] = "up"
                /\ Goto(w, IF c.res = "perm" THEN "count" ELSE "dsn")
                /\ UNCHANGED <<lost, counts>>
             \/ /\ phase[w] = "draining"
                /\ Goto(w, "ack")
                /\ lost' = lost \cup {<<c.job, "shutdown">>}
                /\ UNCHANGED counts
             \/ /\ Happens("fault")
                /\ Goto(w, "ack")
                /\ lost' = lost \cup {<<c.job, "failed call">>}
    /\ UNCHANGED <<queueVars, phase, buf, cur, timers, sent, bare, rejected, failures, dsn>>

(* mutant: the freeze comes one bounce early *)
CountBounceEarly(w) ==
    LET s == From[cur[w].job] IN
    /\ At(w, "count")
    /\ recent' = [recent EXCEPT ![s] = @ + 1]
    /\ Goto(w, IF recent'[s] + 1 >= FreezeThreshold THEN "freeze" ELSE "dsn")
    /\ UNCHANGED <<queue, blob, status, phase, buf, cur, timers, bounced, counts, obsVars>>

(* IncrementBounces; the account is frozen at the threshold.  A failed     *)
(* update is logged and skipped.                                           *)
CountBounce(w) ==
    LET s == From[cur[w].job] IN
    /\ At(w, "count")
    /\ \/ /\ phase[w] = "up"
          /\ recent' = [recent EXCEPT ![s] = @ + 1]
          /\ Goto(w, IF recent'[s] >= FreezeThreshold THEN "freeze" ELSE "dsn")
          /\ UNCHANGED counts
       \/ /\ phase[w] = "draining" /\ Goto(w, "dsn") /\ UNCHANGED <<recent, counts>>
       \/ /\ Happens("fault") /\ Goto(w, "dsn") /\ UNCHANGED recent
    /\ UNCHANGED <<queue, blob, status, phase, buf, cur, timers, bounced, obsVars>>

FreezeForAbuse(w) ==
    /\ At(w, "freeze")
    /\ \/ /\ phase[w] = "up"
          /\ status' = [status EXCEPT ![From[cur[w].job]] = "suspended"]
          /\ UNCHANGED counts
       \/ /\ phase[w] = "draining" /\ UNCHANGED <<status, counts>>
       \/ /\ Happens("fault") /\ UNCHANGED status
    /\ Goto(w, "dsn")
    /\ UNCHANGED <<queue, blob, recent, phase, buf, cur, timers, bounced, obsVars>>

(* The bounce is published as an inbound message for the sender, unless    *)
(* the sender's key is unusable or the encryption or the publish fails.    *)
(* The event row for the support panel is written before it; whether that  *)
(* succeeds changes nothing here.                                          *)
PublishDsn(w) ==
    LET j == cur[w].job IN
    /\ At(w, "dsn")
    /\ \/ /\ phase[w] = "up"
          /\ dsn' = [dsn EXCEPT ![j] = @ + 1]
          /\ UNCHANGED <<lost, counts>>
       \/ /\ phase[w] = "draining"
          /\ lost' = lost \cup {<<j, "shutdown">>}
          /\ UNCHANGED <<dsn, counts>>
       \/ /\ Happens("fault")
          /\ lost' = lost \cup {<<j, "failed call">>}
          /\ UNCHANGED dsn
    /\ Goto(w, "ack")
    /\ UNCHANGED <<queueVars, phase, buf, cur, timers, bounced, sent, bare, rejected, failures>>

(* handle returned nil: the callback acknowledges the message.             *)
Ack(w) ==
    /\ At(w, "ack")
    /\ Mark(Head(buf[w]), "done")
    /\ buf' = [buf EXCEPT ![w] = Tail(@)]
    /\ cur' = [cur EXCEPT ![w] = NoMessage]
    /\ Goto(w, "idle")
    /\ UNCHANGED <<blob, recent, status, phase, timers, bounced, counts, obsVars>>

(* The retry goroutine: the backoff is over and the message is queued      *)
(* again, or the context was cancelled first.                              *)
Retry(w, k) ==
    LET t == timers[w][k] IN
    /\ \/ /\ phase[w] = "up"
          /\ Publish(t.job, t.n)
          /\ UNCHANGED <<lost, counts>>
       \/ /\ phase[w] = "up" /\ Happens("fault")
          /\ lost' = lost \cup {<<t.job, "failed call">>}
          /\ UNCHANGED queue
       \/ /\ phase[w] = "draining"
          /\ lost' = lost \cup {<<t.job, "shutdown">>}
          /\ UNCHANGED <<queue, counts>>
    /\ timers' = [timers EXCEPT ![w] = RemoveAt(@, k)]
    /\ UNCHANGED <<blob, recent, status, phase, buf, pc, cur, bounced,
                   sent, bare, rejected, failures, dsn>>

-----------------------------------------------------------------------------
(* Process life cycle and maintenance.                                     *)

(* SIGTERM: run cancels the context, then drains the connection: messages  *)
(* already pulled still go through the callback.                           *)
Shutdown(w) ==
    /\ phase[w] = "up" /\ Happens("shutdown")
    /\ phase' = [phase EXCEPT ![w] = "draining"]
    /\ UNCHANGED <<queueVars, buf, pc, cur, timers, bounced, obsVars>>

Gone(w, why) ==
    /\ phase' = [phase EXCEPT ![w] = "down"]
    /\ buf' = [buf EXCEPT ![w] = <<>>]
    /\ Goto(w, "idle")
    /\ cur' = [cur EXCEPT ![w] = NoMessage]
    /\ timers' = [timers EXCEPT ![w] = <<>>]
    /\ bounced' = [bounced EXCEPT ![w] = [s \in Senders |-> 0]]
    /\ lost' = lost \cup {<<timers[w][k].job, why>> : k \in DOMAIN timers[w]}

Drained(w) ==
    /\ phase[w] = "draining" /\ buf[w] = <<>>
    /\ Gone(w, "shutdown")
    /\ UNCHANGED <<queueVars, counts, sent, bare, rejected, failures, dsn>>

(* The process dies, or the drain timeout cuts it off.                     *)
Crash(w) ==
    /\ Alive(w) /\ Happens("crash")
    /\ Gone(w, "crash")
    /\ UNCHANGED <<queueVars, sent, bare, rejected, failures, dsn>>

Restart(w) ==
    /\ phase[w] = "down"
    /\ phase' = [phase EXCEPT ![w] = "up"]
    /\ UNCHANGED <<queueVars, buf, pc, cur, timers, bounced, counts, obsVars>>

(* The limiter's window of a minute passes for a sender.                   *)
BounceWindow(w, s) ==
    /\ bounced[w][s] > 0
    /\ bounced' = [bounced EXCEPT ![w][s] = 0]
    /\ UNCHANGED <<queueVars, phase, buf, pc, cur, timers, counts, obsVars>>

(* The weekly cron or the support panel clears a sender's counter.         *)
ResetBounces(s) ==
    /\ recent[s] > 0
    /\ recent' = [recent EXCEPT ![s] = 0]
    /\ UNCHANGED <<queue, blob, status, workVars, counts, obsVars>>

Callback(w) ==
    \/ Take(w) \/ Fetch(w) \/ Connect(w) \/ Deliver(w) \/ Settle(w)
    \/ InsertBounce(w) \/ CountBounce(w) \/ FreezeForAbuse(w) \/ PublishDsn(w) \/ Ack(w)

Next ==
    \/ \E j \in Jobs : Submit(j)
    \/ \E i \in DOMAIN queue : AckTimeout(i) \/ GrowOld(i)
    \/ \E s \in Senders : ResetBounces(s)
    \/ \E w \in Workers :
        \/ \E i \in DOMAIN queue : Pull(w, i)
        \/ \E k \in DOMAIN timers[w] : Retry(w, k)
        \/ \E s \in Senders : BounceWindow(w, s)
        \/ Callback(w) \/ Shutdown(w) \/ Drained(w) \/ Crash(w) \/ Restart(w)

(* A running process keeps executing its callback and its timers, and the  *)
(* consumers keep pulling.                                                 *)
Fairness ==
    /\ \A w \in Workers : /\ WF_vars(Callback(w))
                          /\ WF_vars(\E k \in DOMAIN timers[w] : Retry(w, k))
    /\ WF_vars(\E w \in Workers, i \in DOMAIN queue : Pull(w, i))

Spec == Init /\ [][Next]_vars
FairSpec == Spec /\ Fairness

-----------------------------------------------------------------------------
(* Properties.                                                             *)

(* Every variable keeps its type.                                          *)
TypeOK ==
    /\ queue \in Seq([job : Jobs, n : 0..MaxAttempts - 1,
                      state : {"ready", "out", "done"}, old : BOOLEAN])
    /\ blob \in [Jobs -> BOOLEAN]
    /\ recent \in [Senders -> Nat] /\ status \in [Senders -> {"active", "suspended"}]
    /\ phase \in [Workers -> {"up", "draining", "down"}]
    /\ buf \in [Workers -> Seq(DOMAIN queue)]
    /\ pc \in [Workers -> {"idle", "fetch", "send", "deliver", "settle", "bounce",
                           "count", "freeze", "dsn", "ack"}]
    /\ cur \in [Workers -> [job : Jobs, n : 0..MaxAttempts - 1, att : BOOLEAN, mx : 1..MXHosts,
                            res : {"none", "ok", "perm", "temp"}]]
    /\ timers \in [Workers -> Seq([job : Jobs, n : 1..MaxAttempts - 1])]
    /\ bounced \in [Workers -> [Senders -> 0..BounceLimit]]
    /\ counts \in [DOMAIN Bounds -> Nat] /\ \A e \in DOMAIN Bounds : counts[e] <= Bounds[e]
    /\ sent \in [Jobs -> Nat] /\ failures \in [Jobs -> Nat] /\ dsn \in [Jobs -> Nat]
    /\ bare \subseteq Jobs /\ rejected \subseteq Jobs
    /\ lost \subseteq Jobs \X {"too old", "bounce limited", "shutdown", "failed call", "crash"}

Pending(j) ==
    \/ \E i \in DOMAIN queue : queue[i].job = j /\ queue[i].state # "done"
    \/ \E w \in Workers : \/ pc[w] # "idle" /\ cur[w].job = j
                          \/ \E k \in DOMAIN timers[w] : timers[w][k].job = j
LostOf(j) == {x \in lost : x[1] = j}

(* What has to happen for a message to be given up.                        *)
Tried(j) == failures[j] > 0 \/ j \in rejected
Cause(x) ==
    \/ x[2] = "too old" /\ \E i \in DOMAIN queue : queue[i].job = x[1] /\ queue[i].old
    \/ x[2] = "crash" /\ counts["crash"] > 0 /\ Tried(x[1])
    \/ x[2] = "shutdown" /\ counts["shutdown"] > 0 /\ Tried(x[1])
    \/ x[2] = "failed call" /\ counts["fault"] > 0 /\ Tried(x[1])
    \/ x[2] = "bounce limited" /\ (x[1] \in rejected \/ failures[x[1]] >= MaxAttempts)

(* A queued message is never forgotten: whatever crashes, times out or     *)
(* fails, it is on its way, was accepted by a remote server, was bounced   *)
(* to its sender, or was given up, and then for a cause: the age check     *)
(* terminates only messages that waited too long, and a crash, a shutdown  *)
(* or a failed call takes only messages whose delivery was tried and       *)
(* failed, never one that still waits for its first attempt.  Two of these *)
(* losses leave no line in a log: the termination (the error of            *)
(* verifyMessage is dropped) and the retries a crashed process held.       *)
NothingForgotten ==
    /\ \A j \in Queued : Pending(j) \/ sent[j] > 0 \/ dsn[j] > 0 \/ LostOf(j) # {}
    /\ \A x \in lost : Cause(x)

(* A bounce says what happened: a remote server refused the message for    *)
(* good, or maxAttempts deliveries failed; this holds also when copies of  *)
(* the message were redelivered.                                           *)
BounceJustified ==
    \A j \in Jobs : dsn[j] > 0 => j \in rejected \/ failures[j] >= MaxAttempts

(* The temporary attachment blobs of a message are deleted only after one  *)
(* of its deliveries ended for good.  A redelivered copy of the message    *)
(* may then still be on its way, and goes out without them.                *)
BlobsOutliveRetries ==
    \A j \in Jobs : ~blob[j] => sent[j] > 0 \/ j \in rejected \/ failures[j] >= MaxAttempts

(* While nothing is redelivered and no reply is lost, a message reaches    *)
(* its recipient once at most, with its attachments, and is not bounced as *)
(* well.                                                                   *)
DeliveredOnceWhole ==
    /\ bare = {}
    /\ \A j \in Jobs : sent[j] + dsn[j] <= 1

(* An account is suspended only after FreezeThreshold different messages   *)
(* of it were refused for good (while nothing is redelivered).             *)
FrozenForCause ==
    \A s \in Senders : status[s] = "suspended" =>
        Cardinality({j \in rejected : From[j] = s}) >= FreezeThreshold

(* The blob of a message is gone once the message is settled: nothing      *)
(* plaintext is left behind (while the process stays up).                  *)
BlobsReclaimed ==
    \A j \in Queued : Pending(j) \/ ~blob[j]

(* Types, and while nothing is redelivered and the process stays up: an    *)
(* account is suspended only after FreezeThreshold of its messages were    *)
(* refused for good, and a settled message leaves no plaintext blob.       *)
SteadyInv == TypeOK /\ FrozenForCause /\ BlobsReclaimed

(* Every queued message is delivered, bounced, or its bounce is suppressed *)
(* by the rate limiter, while the workers stay up.                         *)
EventuallySettled ==
    \A j \in Jobs : j \in Queued ~> (sent[j] > 0 \/ dsn[j] > 0 \/ LostOf(j) # {})

(* A graceful drain lets the messages in flight be processed: none is      *)
(* given up because of it, as the comment on Drain says.                   *)
DrainLosesNothing == \A x \in lost : x[2] # "shutdown"
=============================================================================
