--------------------------- MODULE OutboundProofs ---------------------------
(* What the smtp-outbound workers never get wrong, for every number of     *)
(* jobs, workers, attempts and failures; and what they promise besides     *)
(* while no message is redelivered and no process ends.                    *)
EXTENDS Outbound, FiniteSets, FiniteSetTheorems, SequenceTheorems, TLAPS

USE OutboundAssumption

-----------------------------------------------------------------------------
(* Sequences of messages and timers.                                       *)

LEMMA SeqMono ==
    ASSUME NEW S, NEW T, S \subseteq T, NEW s \in Seq(S)
    PROVE  s \in Seq(T)
  OBVIOUS

LEMMA SeqElement ==
    ASSUME NEW S, NEW s \in Seq(S), NEW k \in DOMAIN s
    PROVE  s[k] \in S
  OBVIOUS

LEMMA AppendFacts ==
    ASSUME NEW S, NEW s \in Seq(S), NEW x \in S
    PROVE  /\ Append(s, x) \in Seq(S) /\ Len(Append(s, x)) = Len(s) + 1
           /\ DOMAIN s = 1..Len(s) /\ DOMAIN Append(s, x) = 1..(Len(s) + 1)
           /\ \A i \in DOMAIN s : Append(s, x)[i] = s[i]
           /\ Append(s, x)[Len(s) + 1] = x
  OBVIOUS

LEMMA AppendCases ==
    ASSUME NEW S, NEW s \in Seq(S), NEW x \in S
    PROVE  \A i \in DOMAIN Append(s, x) : \/ i \in DOMAIN s /\ Append(s, x)[i] = s[i]
                                          \/ i = Len(s) + 1 /\ Append(s, x)[i] = x
  <1>1. Len(s) \in Nat /\ DOMAIN s = 1..Len(s) /\ DOMAIN Append(s, x) = 1..(Len(s) + 1)
    BY AppendFacts
  <1>2. \A i \in 1..(Len(s) + 1) : i \in 1..Len(s) \/ i = Len(s) + 1
    BY <1>1
  <1>3. (\A i \in DOMAIN s : Append(s, x)[i] = s[i]) /\ Append(s, x)[Len(s) + 1] = x
    BY AppendFacts
  <1> SUFFICES ASSUME NEW i \in DOMAIN Append(s, x)
               PROVE  \/ i \in DOMAIN s /\ Append(s, x)[i] = s[i]
                      \/ i = Len(s) + 1 /\ Append(s, x)[i] = x
    OBVIOUS
  <1>4. i \in 1..Len(s) \/ i = Len(s) + 1
    BY <1>1, <1>2
  <1>5. CASE i \in 1..Len(s)
    BY <1>1, <1>3, <1>5
  <1>6. CASE i = Len(s) + 1
    BY <1>3, <1>6
  <1> QED
    BY <1>4, <1>5, <1>6

LEMMA TailFacts ==
    ASSUME NEW S, NEW s \in Seq(S), s # <<>>
    PROVE  /\ Head(s) \in S /\ Head(s) = s[1] /\ 1 \in DOMAIN s
           /\ Tail(s) \in Seq(S) /\ Len(Tail(s)) = Len(s) - 1
           /\ \A i \in DOMAIN Tail(s) : i + 1 \in DOMAIN s /\ Tail(s)[i] = s[i + 1]
  OBVIOUS

LEMMA RemoveFacts ==
    ASSUME NEW S, NEW s \in Seq(S), NEW k \in DOMAIN s
    PROVE  /\ RemoveAt(s, k) \in Seq(S)
           /\ \A i \in DOMAIN RemoveAt(s, k) :
                LET o == IF i < k THEN i ELSE i + 1
                IN  o \in DOMAIN s /\ o # k /\ RemoveAt(s, k)[i] = s[o]
           /\ \A o \in DOMAIN s : o # k =>
                LET i == IF o < k THEN o ELSE o - 1
                IN  i \in DOMAIN RemoveAt(s, k) /\ RemoveAt(s, k)[i] = s[o]
  <1> DEFINE a == SubSeq(s, 1, k - 1)
             b == SubSeq(s, k + 1, Len(s))
  <1>1. k \in 1..Len(s) /\ Len(s) \in Nat /\ DOMAIN s = 1..Len(s)
    OBVIOUS
  <1>2. a \in Seq(S) /\ Len(a) = k - 1 /\ \A i \in 1..(k - 1) : a[i] = s[i]
    BY <1>1
  <1>3. b \in Seq(S) /\ Len(b) = Len(s) - k /\ \A i \in 1..(Len(s) - k) : b[i] = s[i + k]
    BY <1>1
  <1>4. RemoveAt(s, k) = a \o b
    BY DEF RemoveAt
  <1> HIDE DEF a, b
  <1>5. /\ RemoveAt(s, k) \in Seq(S)
        /\ Len(RemoveAt(s, k)) = Len(a) + Len(b)
        /\ \A i \in 1..(Len(a) + Len(b)) : RemoveAt(s, k)[i] =
             IF i <= Len(a) THEN a[i] ELSE b[i - Len(a)]
    BY <1>2, <1>3, <1>4, ConcatProperties
  <1>6. DOMAIN RemoveAt(s, k) = 1..(Len(s) - 1)
    BY <1>1, <1>2, <1>3, <1>5
  <1>7. ASSUME NEW i \in 1..(Len(s) - 1)
        PROVE  RemoveAt(s, k)[i] = IF i < k THEN s[i] ELSE s[i + 1]
    <2>1. CASE i < k
      <3>1. i \in 1..(k - 1) /\ i <= Len(a) /\ i \in 1..(Len(a) + Len(b))
        BY <1>1, <1>2, <1>3, <2>1
      <3> QED
        BY <1>2, <1>5, <2>1, <3>1
    <2>2. CASE ~(i < k)
      <3>1. i - (k - 1) \in 1..(Len(s) - k) /\ ~(i <= Len(a)) /\ i \in 1..(Len(a) + Len(b))
            /\ i - (k - 1) + k = i + 1
        BY <1>1, <1>2, <1>3, <2>2
      <3>2. RemoveAt(s, k)[i] = b[i - (k - 1)] /\ b[i - (k - 1)] = s[i + 1]
        BY <1>2, <1>3, <1>5, <3>1
      <3> QED
        BY <2>2, <3>2
    <2> QED
      BY <2>1, <2>2
  <1>8. \A i \in DOMAIN RemoveAt(s, k) :
          LET o == IF i < k THEN i ELSE i + 1
          IN  o \in DOMAIN s /\ o # k /\ RemoveAt(s, k)[i] = s[o]
    BY <1>1, <1>6, <1>7
  <1>9. ASSUME NEW o \in DOMAIN s, o # k
        PROVE  LET i == IF o < k THEN o ELSE o - 1
               IN  i \in DOMAIN RemoveAt(s, k) /\ RemoveAt(s, k)[i] = s[o]
    <2>1. CASE o < k
      BY <1>1, <1>6, <1>7, <2>1
    <2>2. CASE o > k
      <3>1. o - 1 \in 1..(Len(s) - 1) /\ ~(o - 1 < k) /\ (o - 1) + 1 = o /\ ~(o < k)
        BY <1>1, <2>2
      <3> QED
        BY <1>6, <1>7, <3>1
    <2> QED
      BY <1>1, <1>9, <2>1, <2>2
  <1> QED
    BY <1>5, <1>8, <1>9

-----------------------------------------------------------------------------
(* Types.                                                                  *)

Message == [job : Jobs, n : 0..MaxAttempts - 1, state : {"ready", "out", "done"}, old : BOOLEAN]
InHand == [job : Jobs, n : 0..MaxAttempts - 1, att : BOOLEAN, mx : 1..MXHosts,
           res : {"none", "ok", "perm", "temp"}]
Points == {"idle", "fetch", "send", "deliver", "settle", "bounce", "count", "freeze", "dsn", "ack"}
Timer == [job : Jobs, n : 1..MaxAttempts - 1]
Reasons == {"too old", "bounce limited", "shutdown", "failed call", "crash"}

LEMMA BoundsType ==
    /\ DOMAIN Bounds = {"crash", "shutdown", "timeout", "old", "fault"}
    /\ \A e \in DOMAIN Bounds : Bounds[e] \in Nat
  BY DEF Bounds

CountsOK == counts \in [DOMAIN Bounds -> Nat] /\ \A e \in DOMAIN Bounds : counts[e] <= Bounds[e]

LEMMA HappensType ==
    ASSUME TypeOK, NEW e \in DOMAIN Bounds, Happens(e) \/ UNCHANGED counts
    PROVE  CountsOK'
  <1>1. CountsOK
    BY DEF TypeOK, CountsOK
  <1> QED
    BY <1>1, BoundsType DEF CountsOK, Happens

(* A message is queued behind the ones that are there.                     *)
LEMMA PublishStep ==
    ASSUME TypeOK, NEW j \in Jobs, NEW n \in 0..MaxAttempts - 1, Publish(j, n)
    PROVE  /\ queue' \in Seq(Message) /\ Len(queue') = Len(queue) + 1
           /\ DOMAIN queue = 1..Len(queue) /\ DOMAIN queue' = 1..(Len(queue) + 1)
           /\ Len(queue) \in Nat /\ DOMAIN queue \subseteq DOMAIN queue'
           /\ \A i \in DOMAIN queue' : i \in DOMAIN queue \/ i = Len(queue) + 1
           /\ \A i \in DOMAIN queue : queue'[i] = queue[i]
           /\ queue'[Len(queue) + 1] = [job |-> j, n |-> n, state |-> "ready", old |-> FALSE]
  <1>1. queue \in Seq(Message) /\ [job |-> j, n |-> n, state |-> "ready", old |-> FALSE] \in Message
    BY DEF TypeOK, Message
  <1>2. Len(queue) \in Nat
    BY <1>1
  <1> QED
    BY <1>1, <1>2, AppendFacts DEF Publish

(* The consumer's bookkeeping changes the state of one message.            *)
LEMMA MarkStep ==
    ASSUME TypeOK, NEW i \in DOMAIN queue, NEW s \in {"ready", "out", "done"}, Mark(i, s)
    PROVE  /\ queue' \in Seq(Message) /\ DOMAIN queue' = DOMAIN queue
           /\ queue'[i] = [queue[i] EXCEPT !.state = s]
           /\ \A k \in DOMAIN queue \ {i} : queue'[k] = queue[k]
  <1>1. queue \in Seq(Message) /\ queue' = [queue EXCEPT ![i] = [queue[i] EXCEPT !.state = s]]
    BY DEF TypeOK, Message, Mark
  <1>2. queue[i] \in Message
    BY <1>1
  <1>3. [queue[i] EXCEPT !.state = s] \in Message
    BY <1>2 DEF Message
  <1> QED
    BY <1>1, <1>3

(* Steps of the stream and of maintenance.                                 *)
LEMMA StreamType ==
    ASSUME TypeOK,
           \/ \E j \in Jobs : Submit(j)
           \/ \E i \in DOMAIN queue : AckTimeout(i) \/ GrowOld(i)
           \/ \E s \in Senders : ResetBounces(s)
           \/ \E w \in Workers, i \in DOMAIN queue : Pull(w, i)
    PROVE  TypeOK'
  <1>1. ASSUME NEW j \in Jobs, Submit(j)
        PROVE  TypeOK'
    <2>0. 0 \in 0..MaxAttempts - 1 /\ Publish(j, 0)
      BY <1>1 DEF Submit
    <2>1. queue' \in Seq(Message) /\ DOMAIN queue \subseteq DOMAIN queue'
      BY <2>0, PublishStep
    <2>2. buf' \in [Workers -> Seq(DOMAIN queue')]
      BY <1>1, <2>1, SeqMono DEF Submit, workVars, TypeOK
    <2> QED
      BY <1>1, <2>1, <2>2 DEF Submit, workVars, obsVars, TypeOK, Message
  <1>2. ASSUME NEW i \in DOMAIN queue, AckTimeout(i)
        PROVE  TypeOK'
    <2>1. queue' \in Seq(Message) /\ DOMAIN queue' = DOMAIN queue
      BY <1>2, MarkStep DEF AckTimeout
    <2> QED
      BY <1>2, <2>1, HappensType, BoundsType DEF AckTimeout, workVars, obsVars, TypeOK, Message, CountsOK
  <1>3. ASSUME NEW i \in DOMAIN queue, GrowOld(i)
        PROVE  TypeOK'
    <2>1. queue \in Seq(Message) /\ queue' = [queue EXCEPT ![i] = [queue[i] EXCEPT !.old = TRUE]]
      BY <1>3 DEF GrowOld, TypeOK, Message
    <2>2. queue[i] \in Message
      BY <2>1
    <2>3. [queue[i] EXCEPT !.old = TRUE] \in Message
      BY <2>2 DEF Message
    <2>4. queue' \in Seq(Message) /\ DOMAIN queue' = DOMAIN queue
      BY <2>1, <2>3
    <2> QED
      BY <1>3, <2>4, HappensType, BoundsType DEF GrowOld, workVars, obsVars, TypeOK, Message, CountsOK
  <1>4. ASSUME NEW s \in Senders, ResetBounces(s)
        PROVE  TypeOK'
    BY <1>4 DEF ResetBounces, workVars, obsVars, TypeOK
  <1>5. ASSUME NEW w \in Workers, NEW i \in DOMAIN queue, Pull(w, i)
        PROVE  TypeOK'
    <2>1. queue' \in Seq(Message) /\ DOMAIN queue' = DOMAIN queue
      BY <1>5, MarkStep DEF Pull
    <2>2. Append(buf[w], i) \in Seq(DOMAIN queue)
      BY AppendFacts DEF TypeOK
    <2>3. buf' \in [Workers -> Seq(DOMAIN queue')]
      BY <1>5, <2>1, <2>2 DEF Pull, TypeOK
    <2> QED
      BY <1>5, <2>1, <2>3 DEF Pull, obsVars, TypeOK, Message
  <1> QED
    BY <1>1, <1>2, <1>3, <1>4, <1>5

LEMMA CurType ==
    ASSUME TypeOK, NEW w \in Workers
    PROVE  cur[w] \in InHand /\ cur[w].job \in Jobs /\ cur[w].n \in Nat /\ cur[w].n < MaxAttempts
  <1>1. cur[w] \in InHand
    BY DEF TypeOK, InHand
  <1> QED
    BY <1>1 DEF InHand

LEMMA NoMessageType == NoMessage \in InHand
  <1>1. (CHOOSE j \in Jobs : TRUE) \in Jobs
    OBVIOUS
  <1> QED
    BY <1>1 DEF NoMessage, InHand

(* Steps of a callback up to the outcome of the delivery.                  *)
LEMMA AttemptType ==
    ASSUME TypeOK, NEW w \in Workers, Take(w) \/ Fetch(w) \/ Connect(w) \/ Deliver(w)
    PROVE  TypeOK'
  <1> DEFINE c == cur[w]
  <1>0. c \in InHand /\ cur \in [Workers -> InHand] /\ c.job \in Jobs
    BY CurType DEF TypeOK, InHand
  <1>a. ASSUME NEW x \in InHand
        PROVE  [cur EXCEPT ![w] = x] \in [Workers -> InHand]
    BY <1>0
  <1>1. CASE Take(w)
    <2> DEFINE i == Head(buf[w])
    <2>1. i \in DOMAIN queue /\ Tail(buf[w]) \in Seq(DOMAIN queue) /\ queue \in Seq(Message)
      BY <1>1, TailFacts DEF Take, TypeOK, Message
    <2>2. queue[i] \in Message
      BY <2>1
    <2>3. CASE queue[i].old
      <3>1. Mark(i, "done") /\ buf' = [buf EXCEPT ![w] = Tail(@)]
            /\ lost' = lost \cup {<<queue[i].job, "too old">>} /\ UNCHANGED <<pc, cur>>
        BY <1>1, <2>3 DEF Take
      <3>2. queue' \in Seq(Message) /\ DOMAIN queue' = DOMAIN queue
        BY <2>1, <3>1, MarkStep
      <3>3. buf' \in [Workers -> Seq(DOMAIN queue')]
        BY <2>1, <3>1, <3>2 DEF TypeOK
      <3>4. lost' \subseteq Jobs \X Reasons
        <4>1. <<queue[i].job, "too old">> \in Jobs \X Reasons /\ lost \subseteq Jobs \X Reasons
          BY <2>2 DEF TypeOK, Message, Reasons
        <4> QED
          BY <3>1, <4>1
      <3> QED
        BY <1>1, <3>1, <3>2, <3>3, <3>4 DEF Take, TypeOK, Message, Reasons
    <2>4. CASE ~queue[i].old
      <3>1. [job |-> queue[i].job, n |-> queue[i].n, att |-> FALSE, mx |-> MXHosts, res |-> "none"]
              \in InHand
        BY <2>2 DEF Message, InHand
      <3>2. cur' \in [Workers -> InHand] /\ UNCHANGED <<queue, buf, lost>> /\ Goto(w, "fetch")
        BY <1>1, <1>a, <2>4, <3>1 DEF Take
      <3> QED
        BY <1>1, <3>2 DEF Take, TypeOK, InHand, Goto
    <2> QED
      BY <2>3, <2>4
  <1>2. CASE Fetch(w)
    <2>1. [c EXCEPT !.att = TRUE] \in InHand
      BY <1>0 DEF InHand
    <2>2. cur' \in [Workers -> InHand]
      BY <1>0, <1>2, <1>a, <2>1 DEF Fetch
    <2>3. CountsOK'
      BY <1>2, HappensType, BoundsType DEF Fetch
    <2> QED
      BY <1>2, <2>2, <2>3 DEF CountsOK, Fetch, TypeOK, InHand, Goto, queueVars, obsVars
  <1>b. [c EXCEPT !.res = "temp"] \in InHand /\ [c EXCEPT !.res = "ok"] \in InHand
        /\ [c EXCEPT !.res = "perm"] \in InHand /\ (c.mx > 1 => [c EXCEPT !.mx = @ - 1] \in InHand)
    BY <1>0 DEF InHand
  <1>3. CASE Connect(w)
    <2>1. cur' \in [Workers -> InHand]
      BY <1>0, <1>3, <1>a, <1>b DEF Connect
    <2>2. failures' \in [Jobs -> Nat]
      <3>1. failures \in [Jobs -> Nat]
        BY DEF TypeOK
      <3> QED
        BY <1>0, <1>3, <3>1 DEF Connect
    <2> QED
      BY <1>3, <2>1, <2>2 DEF Connect, TypeOK, InHand, Goto, queueVars
  <1>4. CASE Deliver(w)
    <2>1. cur' \in [Workers -> InHand]
      BY <1>0, <1>4, <1>a, <1>b DEF Deliver, NextHost
    <2>2. failures' \in [Jobs -> Nat] /\ sent' \in [Jobs -> Nat]
      <3>1. failures \in [Jobs -> Nat] /\ sent \in [Jobs -> Nat]
        BY DEF TypeOK
      <3> QED
        BY <1>0, <1>4, <3>1 DEF Deliver, NextHost, Accepted
    <2>5. bare' \subseteq Jobs /\ rejected' \subseteq Jobs
      <3>1. bare \subseteq Jobs /\ rejected \subseteq Jobs
        BY DEF TypeOK
      <3> QED
        BY <1>0, <1>4, <3>1 DEF Deliver, Accepted
    <2>3. CountsOK'
      BY <1>4, HappensType, BoundsType DEF Deliver
    <2>4. pc' \in [Workers -> {"idle", "fetch", "send", "deliver", "settle", "bounce",
                               "count", "freeze", "dsn", "ack"}]
      BY <1>4 DEF Deliver, NextHost, Goto, TypeOK
    <2> QED
      BY <1>4, <2>1, <2>2, <2>3, <2>4, <2>5 DEF Deliver, TypeOK, InHand, CountsOK, queueVars
  <1> QED
    BY <1>1, <1>2, <1>3, <1>4

(* Steps of a callback after the outcome.                                  *)
LEMMA OutcomeType ==
    ASSUME TypeOK, NEW w \in Workers,
           \/ Settle(w) \/ InsertBounce(w) \/ CountBounce(w) \/ FreezeForAbuse(w)
           \/ PublishDsn(w) \/ (Ack(w) /\ buf[w] # <<>>)
    PROVE  TypeOK'
  <1> DEFINE c == cur[w]
  <1>0. c \in InHand /\ c.job \in Jobs /\ c.n \in Nat /\ c.n < MaxAttempts /\ From[c.job] \in Senders
    BY CurType DEF Senders
  <1>l. ASSUME NEW why \in Reasons
        PROVE  lost \cup {<<c.job, why>>} \subseteq Jobs \X Reasons
    <2>1. lost \subseteq Jobs \X Reasons
      BY DEF TypeOK, Reasons
    <2> QED
      BY <1>0, <2>1
  <1>1. CASE Settle(w)
    <2>1. blob' \in [Jobs -> BOOLEAN]
      BY <1>0, <1>1 DEF Settle, TypeOK
    <2>2. timers' \in [Workers -> Seq([job : Jobs, n : 1..MaxAttempts - 1])]
      <3>1. timers \in [Workers -> Seq([job : Jobs, n : 1..MaxAttempts - 1])]
        BY DEF TypeOK
      <3>2. CASE UNCHANGED timers
        BY <3>1, <3>2
      <3>3. CASE ~OutOfRetries(c.n) /\ ScheduleRetry(w)
        <4>1. [job |-> c.job, n |-> c.n + 1] \in [job : Jobs, n : 1..MaxAttempts - 1]
          BY <1>0, <3>3 DEF OutOfRetries
        <4>2. Append(timers[w], [job |-> c.job, n |-> c.n + 1]) \in Seq([job : Jobs, n : 1..MaxAttempts - 1])
          BY <3>1, <4>1, AppendFacts
        <4> QED
          BY <3>1, <3>3, <4>2 DEF ScheduleRetry
      <3> QED
        BY <1>1, <3>2, <3>3 DEF Settle
    <2> QED
      BY <1>1, <2>1, <2>2 DEF Settle, ScheduleRetry, Goto, TypeOK, obsVars
  <1>2. CASE InsertBounce(w)
    <2>1. lost' \subseteq Jobs \X Reasons
      <3>1. lost \subseteq Jobs \X Reasons
        BY DEF TypeOK, Reasons
      <3> QED
        BY <1>2, <1>l, <3>1 DEF InsertBounce, Reasons
    <2>2. bounced' \in [Workers -> [Senders -> 0..BounceLimit]]
      <3>1. bounced \in [Workers -> [Senders -> 0..BounceLimit]]
        BY DEF TypeOK
      <3>2. CASE bounced[w][From[c.job]] < BounceLimit
        <4>0. ~(bounced[w][From[c.job]] >= BounceLimit)
          BY <1>0, <3>1, <3>2
        <4>1. bounced' = [bounced EXCEPT ![w] = [bounced[w] EXCEPT ![From[c.job]] = @ + 1]]
          BY <1>2, <4>0 DEF InsertBounce
        <4>2. [bounced[w] EXCEPT ![From[c.job]] = @ + 1] \in [Senders -> 0..BounceLimit]
          BY <1>0, <3>1, <3>2
        <4> QED
          BY <3>1, <4>1, <4>2
      <3> QED
        BY <1>2, <3>1, <3>2 DEF InsertBounce
    <2>3. CountsOK'
      BY <1>2, HappensType, BoundsType DEF InsertBounce
    <2> QED
      BY <1>2, <2>1, <2>2, <2>3 DEF InsertBounce, CountsOK, Goto, TypeOK, Reasons, queueVars
  <1>3. CASE CountBounce(w)
    <2>1. recent' \in [Senders -> Nat]
      <3>1. recent \in [Senders -> Nat]
        BY DEF TypeOK
      <3> QED
        BY <1>0, <1>3, <3>1 DEF CountBounce
    <2>2. CountsOK'
      BY <1>3, HappensType, BoundsType DEF CountBounce
    <2> QED
      BY <1>3, <2>1, <2>2 DEF CountBounce, CountsOK, Goto, TypeOK, obsVars
  <1>4. CASE FreezeForAbuse(w)
    <2>1. status' \in [Senders -> {"active", "suspended"}]
      BY <1>0, <1>4 DEF FreezeForAbuse, TypeOK
    <2>2. CountsOK'
      BY <1>4, HappensType, BoundsType DEF FreezeForAbuse
    <2> QED
      BY <1>4, <2>1, <2>2 DEF FreezeForAbuse, CountsOK, Goto, TypeOK, obsVars
  <1>5. CASE PublishDsn(w)
    <2>1. lost' \subseteq Jobs \X Reasons
      <3>1. lost \subseteq Jobs \X Reasons
        BY DEF TypeOK, Reasons
      <3> QED
        BY <1>5, <1>l, <3>1 DEF PublishDsn, Reasons
    <2>2. CountsOK'
      BY <1>5, HappensType, BoundsType DEF PublishDsn
    <2>3. dsn' \in [Jobs -> Nat]
      <3>1. dsn \in [Jobs -> Nat]
        BY DEF TypeOK
      <3>2. dsn' = dsn \/ dsn' = [dsn EXCEPT ![c.job] = @ + 1]
        BY <1>5 DEF PublishDsn
      <3> QED
        BY <1>0, <3>1, <3>2
    <2> QED
      BY <1>5, <2>1, <2>2, <2>3 DEF PublishDsn, CountsOK, Goto, TypeOK, Reasons, queueVars
  <1>6. CASE Ack(w) /\ buf[w] # <<>>
    <2>1. Head(buf[w]) \in DOMAIN queue /\ Tail(buf[w]) \in Seq(DOMAIN queue)
      BY <1>6, TailFacts DEF TypeOK
    <2>2. queue' \in Seq(Message) /\ DOMAIN queue' = DOMAIN queue
      BY <1>6, <2>1, MarkStep DEF Ack
    <2>3. buf' \in [Workers -> Seq(DOMAIN queue')]
      BY <1>6, <2>1, <2>2 DEF Ack, TypeOK
    <2>4. cur' \in [Workers -> InHand]
      BY <1>6, NoMessageType DEF Ack, TypeOK, InHand
    <2> QED
      BY <1>6, <2>2, <2>3, <2>4 DEF Ack, Goto, TypeOK, Message, InHand, obsVars
  <1> QED
    BY <1>1, <1>2, <1>3, <1>4, <1>5, <1>6

(* Timers and the life cycle of the processes.                             *)
LEMMA ProcessType ==
    ASSUME TypeOK, NEW w \in Workers,
           \/ \E k \in DOMAIN timers[w] : Retry(w, k)
           \/ \E s \in Senders : BounceWindow(w, s)
           \/ Shutdown(w) \/ Drained(w) \/ Crash(w) \/ Restart(w)
    PROVE  TypeOK'
  <1>0. timers \in [Workers -> Seq(Timer)] /\ lost \subseteq Jobs \X Reasons
    BY DEF TypeOK, Reasons, Timer
  <1>t. \A k \in DOMAIN timers[w] :
          timers[w][k] \in Timer /\ timers[w][k].job \in Jobs /\ timers[w][k].n \in 0..MaxAttempts - 1
    <2>1. timers[w] \in Seq(Timer)
      BY <1>0
    <2>2. \A k \in DOMAIN timers[w] : timers[w][k] \in Timer
      BY <2>1, SeqElement
    <2> QED
      BY <2>2 DEF Timer
  <1>1. ASSUME NEW k \in DOMAIN timers[w], Retry(w, k)
        PROVE  TypeOK'
    <2> DEFINE t == timers[w][k]
    <2>1. t \in Timer /\ t.job \in Jobs /\ t.n \in 0..MaxAttempts - 1
      BY <1>t
    <2>2. timers' \in [Workers -> Seq(Timer)]
      BY <1>0, <1>1, RemoveFacts, ZenonT(40) DEF Retry
    <2>3. lost' \subseteq Jobs \X Reasons
      <3>1. \A why \in Reasons : <<t.job, why>> \in Jobs \X Reasons
        BY <2>1
      <3>2. lost' = lost \/ \E why \in Reasons : lost' = lost \cup {<<t.job, why>>}
        BY <1>1 DEF Retry, Reasons
      <3> QED
        BY <1>0, <3>1, <3>2
    <2>4. CountsOK'
      BY <1>1, HappensType, BoundsType DEF Retry
    <2>5. queue' \in Seq(Message) /\ DOMAIN queue \subseteq DOMAIN queue'
      <3>1. CASE Publish(t.job, t.n)
        BY <2>1, <3>1, PublishStep
      <3>2. CASE UNCHANGED queue
        BY <3>2 DEF TypeOK, Message
      <3> QED
        BY <1>1, <3>1, <3>2 DEF Retry
    <2>6. buf' \in [Workers -> Seq(DOMAIN queue')]
      BY <1>1, <2>5, SeqMono, ZenonT(40) DEF Retry, TypeOK
    <2> QED
      BY <1>1, <2>2, <2>3, <2>4, <2>5, <2>6 DEF Retry, TypeOK, Message, Timer, Reasons, CountsOK
  <1>2. ASSUME NEW s \in Senders, BounceWindow(w, s)
        PROVE  TypeOK'
    <2>1. bounced' \in [Workers -> [Senders -> 0..BounceLimit]]
      <3>1. bounced \in [Workers -> [Senders -> 0..BounceLimit]]
        BY DEF TypeOK
      <3>2. [bounced[w] EXCEPT ![s] = 0] \in [Senders -> 0..BounceLimit]
        BY <3>1
      <3>3. bounced' = [bounced EXCEPT ![w] = [bounced[w] EXCEPT ![s] = 0]]
        BY <1>2 DEF BounceWindow
      <3> QED
        BY <3>1, <3>2, <3>3
    <2> QED
      BY <1>2, <2>1 DEF BounceWindow, TypeOK, queueVars, obsVars
  <1>3. CASE Shutdown(w) \/ Restart(w)
    <2>1. CountsOK'
      BY <1>3, HappensType, BoundsType DEF Shutdown, Restart
    <2> QED
      BY <1>3, <2>1 DEF Shutdown, Restart, TypeOK, CountsOK, queueVars, obsVars
  <1>4. ASSUME NEW why \in Reasons, Gone(w, why), CountsOK', UNCHANGED queueVars,
               UNCHANGED <<sent, bare, rejected, failures, dsn>>
        PROVE  TypeOK'
    <2>0. <<>> \in Seq(Timer) /\ <<>> \in Seq(DOMAIN queue)
      OBVIOUS
    <2>1. timers' \in [Workers -> Seq(Timer)] /\ buf' \in [Workers -> Seq(DOMAIN queue')]
      BY <1>0, <1>4, <2>0 DEF Gone, TypeOK, queueVars
    <2>2. lost' \subseteq Jobs \X Reasons
      BY <1>0, <1>4, <1>t DEF Gone
    <2>3. bounced' \in [Workers -> [Senders -> 0..BounceLimit]]
      <3>1. [s \in Senders |-> 0] \in [Senders -> 0..BounceLimit]
        OBVIOUS
      <3> QED
        BY <1>4, <3>1 DEF Gone, TypeOK
    <2>4. cur' \in [Workers -> InHand]
      BY <1>4, NoMessageType DEF Gone, TypeOK, InHand
    <2> QED
      BY <1>4, <2>1, <2>2, <2>3, <2>4 DEF Gone, Goto, TypeOK, CountsOK, InHand, Timer, Reasons, queueVars
  <1>5. CASE Drained(w) \/ Crash(w)
    <2>1. CountsOK'
      BY <1>5, HappensType, BoundsType DEF Drained, Crash
    <2> QED
      BY <1>4, <1>5, <2>1 DEF Drained, Crash, Reasons
  <1> QED
    BY <1>1, <1>2, <1>3, <1>5

-----------------------------------------------------------------------------
(* What a callback knows of the message in hand.                           *)

Failing == {"bounce", "count", "freeze", "dsn"}

(* The message in hand is the first one pulled; the outcome of a delivery  *)
(* was observed; a bounce is on its way only after a refusal or the last   *)
(* attempt.                                                                *)
CallbackInv == \A w \in Workers :
    /\ pc[w] # "idle" => /\ buf[w] # <<>>
                         /\ queue[buf[w][1]].job = cur[w].job /\ queue[buf[w][1]].n = cur[w].n
    /\ pc[w] \in {"idle", "fetch", "send", "deliver"} => cur[w].res = "none"
    /\ pc[w] = "settle" => cur[w].res # "none"
    /\ pc[w] \in Failing => \/ cur[w].res = "perm"
                            \/ cur[w].res = "temp" /\ OutOfRetries(cur[w].n)
    /\ cur[w].res = "ok" => sent[cur[w].job] > 0
    /\ cur[w].res = "perm" => cur[w].job \in rejected

(* An attempt number counts failures: the attempts before it failed.       *)
AttemptInv ==
    /\ \A i \in DOMAIN queue : queue[i].n <= failures[queue[i].job]
    /\ \A w \in Workers : \A k \in DOMAIN timers[w] : timers[w][k].n <= failures[timers[w][k].job]
    /\ \A w \in Workers :
         /\ cur[w].n <= failures[cur[w].job]
         /\ cur[w].res = "temp" => cur[w].n + 1 <= failures[cur[w].job]

(* A delivered, bounced or abandoned message.                              *)
Ended(j) == sent[j] > 0 \/ dsn[j] > 0 \/ LostOf(j) # {}

(* Someone has the m-th attempt of job j or a later one, or j has ended.   *)
Carried(j, m) ==
    \/ \E i \in DOMAIN queue : queue[i].job = j /\ queue[i].n >= m /\ queue[i].state # "done"
    \/ \E w \in Workers : \E k \in DOMAIN timers[w] : timers[w][k].job = j /\ timers[w][k].n >= m
    \/ Ended(j)

(* An acknowledged message, and one about to be, has a successor.          *)
CarriedInv ==
    /\ \A i \in DOMAIN queue : queue[i].state = "done" => Carried(queue[i].job, queue[i].n + 1)
    /\ \A w \in Workers : pc[w] = "ack" => Carried(cur[w].job, cur[w].n + 1)

(* A callback keeps to its own worker.                                     *)
LEMMA CallbackFrame ==
    ASSUME TypeOK, NEW w \in Workers, Callback(w) \/ Drained(w) \/ Crash(w)
    PROVE  \A v \in Workers \ {w} : /\ pc'[v] = pc[v] /\ cur'[v] = cur[v]
                                    /\ buf'[v] = buf[v] /\ timers'[v] = timers[v]
  <1> USE DEF TypeOK
  <1>1. CASE Take(w) \/ Fetch(w) \/ Connect(w) \/ Deliver(w)
    BY <1>1 DEF Take, Fetch, Connect, Deliver, NextHost, Goto
  <1>2. CASE Settle(w) \/ InsertBounce(w) \/ CountBounce(w)
    BY <1>2 DEF Settle, ScheduleRetry, InsertBounce, CountBounce, Goto
  <1>3. CASE FreezeForAbuse(w) \/ PublishDsn(w) \/ Ack(w)
    BY <1>3 DEF FreezeForAbuse, PublishDsn, Ack, Goto
  <1>4. CASE Drained(w) \/ Crash(w)
    BY <1>4 DEF Drained, Crash, Gone, Goto
  <1> QED
    BY <1>1, <1>2, <1>3, <1>4 DEF Callback

(* A worker's callback is moved by its own steps only; a pull adds behind  *)
(* the message in hand.                                                    *)
LEMMA Others ==
    ASSUME TypeOK, [Next]_vars, NEW v \in Workers, ~Callback(v), ~Drained(v), ~Crash(v)
    PROVE  /\ pc'[v] = pc[v] /\ cur'[v] = cur[v]
           /\ buf[v] # <<>> => buf'[v] # <<>> /\ buf'[v][1] = buf[v][1]
  <1>1. CASE UNCHANGED <<pc, cur, buf>>
    BY <1>1
  <1>2. ASSUME NEW w \in Workers, NEW i \in DOMAIN queue, Pull(w, i)
        PROVE  /\ pc'[v] = pc[v] /\ cur'[v] = cur[v]
               /\ buf[v] # <<>> => buf'[v] # <<>> /\ buf'[v][1] = buf[v][1]
    <2>1. buf[v] \in Seq(DOMAIN queue)
      BY DEF TypeOK
    <2>2. buf'[v] = buf[v] \/ buf'[v] = Append(buf[v], i)
      BY <1>2 DEF Pull, TypeOK
    <2>3. buf[v] # <<>> => Append(buf[v], i) # <<>> /\ Append(buf[v], i)[1] = buf[v][1]
      BY <2>1
    <2> QED
      BY <1>2, <2>2, <2>3 DEF Pull
  <1>3. ASSUME NEW w \in Workers, w # v, Callback(w) \/ Drained(w) \/ Crash(w)
        PROVE  pc'[v] = pc[v] /\ cur'[v] = cur[v] /\ buf'[v] = buf[v]
    BY <1>3, CallbackFrame
  <1>4. ASSUME NEW w \in Workers, (\E k \in DOMAIN timers[w] : Retry(w, k))
                 \/ (\E s \in Senders : BounceWindow(w, s)) \/ Shutdown(w) \/ Restart(w)
        PROVE  UNCHANGED <<pc, cur, buf>>
    BY <1>4 DEF Retry, BounceWindow, Shutdown, Restart
  <1>5. CASE (\E j \in Jobs : Submit(j)) \/ (\E i \in DOMAIN queue : AckTimeout(i) \/ GrowOld(i))
             \/ (\E s \in Senders : ResetBounces(s)) \/ UNCHANGED vars
    BY <1>5 DEF Submit, AckTimeout, GrowOld, ResetBounces, workVars, vars
  <1> QED
    BY <1>1, <1>2, <1>3, <1>4, <1>5 DEF Next

(* Messages stay in the stream under their number; acknowledged ones stay  *)
(* acknowledged.                                                           *)
LEMMA QueueKept ==
    ASSUME TypeOK, CallbackInv, [Next]_vars, NEW i \in DOMAIN queue
    PROVE  /\ i \in DOMAIN queue'
           /\ queue'[i].job = queue[i].job /\ queue'[i].n = queue[i].n
           /\ queue[i].state = "done" => queue'[i].state = "done"
           /\ queue[i].old => queue'[i].old
  <1> DEFINE Kept == /\ i \in DOMAIN queue'
                     /\ queue'[i].job = queue[i].job /\ queue'[i].n = queue[i].n
                     /\ queue[i].state = "done" => queue'[i].state = "done"
                     /\ queue[i].old => queue'[i].old
  <1>0. queue \in Seq(Message) /\ queue[i] \in Message
    <2>1. queue \in Seq(Message)
      BY DEF TypeOK, Message
    <2> QED
      BY <2>1, SeqElement
  <1>1. CASE UNCHANGED queue
    BY <1>1
  <1>2. ASSUME NEW j \in Jobs, NEW n \in 0..MaxAttempts - 1, Publish(j, n)
        PROVE  Kept
    BY <1>2, PublishStep
  <1>3. ASSUME NEW k \in DOMAIN queue, NEW s \in {"ready", "out", "done"}, Mark(k, s),
               queue[k].state # "done" \/ s = "done"
        PROVE  Kept
    <2>1. [queue[i] EXCEPT !.state = s].job = queue[i].job /\ [queue[i] EXCEPT !.state = s].n = queue[i].n
          /\ [queue[i] EXCEPT !.state = s].state = s /\ [queue[i] EXCEPT !.state = s].old = queue[i].old
      BY <1>0 DEF Message
    <2>2. DOMAIN queue' = DOMAIN queue /\ queue'[k] = [queue[k] EXCEPT !.state = s]
          /\ \A l \in DOMAIN queue \ {k} : queue'[l] = queue[l]
      BY <1>3, MarkStep
    <2>3. CASE i = k
      BY <1>3, <2>1, <2>2, <2>3
    <2>4. CASE i # k
      BY <2>2, <2>4
    <2> QED
      BY <2>3, <2>4
  <1>4. ASSUME NEW j \in Jobs, Submit(j)
        PROVE  Kept
    <2>1. 0 \in 0..MaxAttempts - 1
      OBVIOUS
    <2> QED
      BY <1>2, <1>4, <2>1 DEF Submit
  <1>5. ASSUME NEW k \in DOMAIN queue, AckTimeout(k)
        PROVE  Kept
    BY <1>3, <1>5 DEF AckTimeout
  <1>6. ASSUME NEW k \in DOMAIN queue, GrowOld(k)
        PROVE  Kept
    <2>1. queue' = [queue EXCEPT ![k] = [queue[k] EXCEPT !.old = TRUE]]
      BY <1>6 DEF GrowOld
    <2>2. [queue[i] EXCEPT !.old = TRUE].job = queue[i].job /\ [queue[i] EXCEPT !.old = TRUE].n = queue[i].n
          /\ [queue[i] EXCEPT !.old = TRUE].state = queue[i].state /\ [queue[i] EXCEPT !.old = TRUE].old
      BY <1>0 DEF Message
    <2> QED
      BY <1>0, <2>1, <2>2
  <1>7. ASSUME NEW w \in Workers, NEW k \in DOMAIN queue, Pull(w, k)
        PROVE  Kept
    BY <1>3, <1>7 DEF Pull
  <1>8. ASSUME NEW w \in Workers, NEW k \in DOMAIN timers[w], Retry(w, k)
        PROVE  Kept
    <2>1. timers[w] \in Seq(Timer)
      BY DEF TypeOK, Timer
    <2>2. timers[w][k] \in Timer
      BY <2>1, SeqElement
    <2>3. timers[w][k].job \in Jobs /\ timers[w][k].n \in 0..MaxAttempts - 1
      BY <2>2 DEF Timer
    <2> QED
      BY <1>1, <1>2, <1>8, <2>3 DEF Retry
  <1>9. ASSUME NEW w \in Workers, Take(w) \/ Ack(w)
        PROVE  Kept
    <2>1. buf[w] # <<>>
      BY <1>9 DEF Take, Ack, At, CallbackInv
    <2>2. Head(buf[w]) \in DOMAIN queue
      BY <2>1, TailFacts DEF TypeOK
    <2> QED
      BY <1>1, <1>3, <1>9, <2>2 DEF Take, Ack
  <1>10. ASSUME NEW w \in Workers, Callback(w) /\ ~Take(w) /\ ~Ack(w)
         PROVE  UNCHANGED queue
    BY <1>10 DEF Callback, Fetch, Connect, Deliver, Settle, InsertBounce, CountBounce, FreezeForAbuse,
       PublishDsn, queueVars
  <1>11. ASSUME NEW w \in Workers, (\E s \in Senders : BounceWindow(w, s)) \/ Shutdown(w)
                  \/ Drained(w) \/ Crash(w) \/ Restart(w)
         PROVE  UNCHANGED queue
    BY <1>11 DEF BounceWindow, Shutdown, Drained, Crash, Restart, queueVars
  <1>12. CASE (\E s \in Senders : ResetBounces(s)) \/ UNCHANGED vars
    BY <1>1, <1>12 DEF ResetBounces, vars
  <1> QED
    BY <1>1, <1>4, <1>5, <1>6, <1>7, <1>8, <1>9, <1>10, <1>11, <1>12 DEF Next

(* What has been observed stays observed.                                  *)
LEMMA ObservedKept ==
    ASSUME TypeOK, [Next]_vars
    PROVE  /\ \A j \in Jobs : sent'[j] >= sent[j] /\ dsn'[j] >= dsn[j] /\ failures'[j] >= failures[j]
           /\ rejected \subseteq rejected' /\ lost \subseteq lost'
  <1>0. sent \in [Jobs -> Nat] /\ dsn \in [Jobs -> Nat] /\ failures \in [Jobs -> Nat]
    BY DEF TypeOK
  <1>1. CASE UNCHANGED <<sent, dsn, failures, rejected>> /\ lost \subseteq lost'
    BY <1>0, <1>1
  <1>2. ASSUME NEW w \in Workers, Connect(w) \/ Deliver(w)
        PROVE  /\ \A j \in Jobs : sent'[j] >= sent[j] /\ failures'[j] >= failures[j]
               /\ rejected \subseteq rejected' /\ UNCHANGED <<dsn, lost>>
    <2>1. cur[w].job \in Jobs
      BY CurType
    <2>2. failures' = failures \/ failures' = [failures EXCEPT ![cur[w].job] = @ + 1]
      BY <1>2 DEF Connect, Deliver, NextHost
    <2>3. sent' = sent \/ sent' = [sent EXCEPT ![cur[w].job] = @ + 1]
      BY <1>2 DEF Connect, Deliver, Accepted
    <2>4. rejected \subseteq rejected' /\ UNCHANGED <<dsn, lost>>
      BY <1>2 DEF Connect, Deliver
    <2> QED
      BY <1>0, <2>1, <2>2, <2>3, <2>4
  <1>3. ASSUME NEW w \in Workers, PublishDsn(w)
        PROVE  /\ \A j \in Jobs : dsn'[j] >= dsn[j]
               /\ lost \subseteq lost' /\ UNCHANGED <<sent, failures, rejected>>
    <2>1. cur[w].job \in Jobs
      BY CurType
    <2>2. dsn' = dsn \/ dsn' = [dsn EXCEPT ![cur[w].job] = @ + 1]
      BY <1>3 DEF PublishDsn
    <2>3. lost \subseteq lost' /\ UNCHANGED <<sent, failures, rejected>>
      BY <1>3 DEF PublishDsn
    <2> QED
      BY <1>0, <2>1, <2>2, <2>3
  <1>4. ASSUME NEW w \in Workers, Callback(w), ~Connect(w), ~Deliver(w), ~PublishDsn(w)
        PROVE  UNCHANGED <<sent, dsn, failures, rejected>> /\ lost \subseteq lost'
    BY <1>4 DEF Callback, Take, Fetch, Settle, InsertBounce, CountBounce, FreezeForAbuse, Ack, obsVars
  <1>5. ASSUME NEW w \in Workers,
               \/ \E i \in DOMAIN queue : Pull(w, i)
               \/ \E k \in DOMAIN timers[w] : Retry(w, k)
               \/ \E s \in Senders : BounceWindow(w, s)
               \/ Shutdown(w) \/ Drained(w) \/ Crash(w) \/ Restart(w)
        PROVE  UNCHANGED <<sent, dsn, failures, rejected>> /\ lost \subseteq lost'
    BY <1>5 DEF Pull, Retry, BounceWindow, Shutdown, Drained, Crash, Restart, Gone, obsVars
  <1>6. CASE (\E j \in Jobs : Submit(j)) \/ (\E i \in DOMAIN queue : AckTimeout(i) \/ GrowOld(i))
             \/ (\E s \in Senders : ResetBounces(s)) \/ UNCHANGED vars
    BY <1>1, <1>6 DEF Submit, AckTimeout, GrowOld, ResetBounces, obsVars, vars
  <1> QED
    BY <1>0, <1>1, <1>2, <1>3, <1>4, <1>5, <1>6 DEF Next

LEMMA TypeStep ==
    ASSUME TypeOK, CallbackInv, [Next]_vars
    PROVE  TypeOK'
  <1>1. CASE UNCHANGED vars
    BY <1>1 DEF vars, TypeOK
  <1>2. ASSUME NEW w \in Workers, Ack(w)
        PROVE  buf[w] # <<>>
    BY <1>2 DEF Ack, At, CallbackInv
  <1> QED
    BY <1>1, <1>2, StreamType, AttemptType, OutcomeType, ProcessType DEF Next, Callback

CallbackOK(w) ==
    /\ pc[w] # "idle" => /\ buf[w] # <<>>
                         /\ queue[buf[w][1]].job = cur[w].job /\ queue[buf[w][1]].n = cur[w].n
    /\ pc[w] \in {"idle", "fetch", "send", "deliver"} => cur[w].res = "none"
    /\ pc[w] = "settle" => cur[w].res # "none"
    /\ pc[w] \in Failing => \/ cur[w].res = "perm"
                            \/ cur[w].res = "temp" /\ OutOfRetries(cur[w].n)
    /\ cur[w].res = "ok" => sent[cur[w].job] > 0
    /\ cur[w].res = "perm" => cur[w].job \in rejected

(* A worker's own step, as far as its message in hand is concerned.        *)
LEMMA CallbackOwn ==
    ASSUME TypeOK, CallbackInv, [Next]_vars, NEW w \in Workers, Callback(w)
    PROVE  CallbackOK(w)'
  <1> DEFINE c == cur[w]
             Hand == /\ buf[w] # <<>>
                     /\ queue[buf[w][1]].job = cur[w].job /\ queue[buf[w][1]].n = cur[w].n
  <1>0. c \in InHand /\ CallbackOK(w) /\ pc \in [Workers -> Points] /\ cur \in [Workers -> InHand]
    <2>1. CallbackOK(w)
      BY DEF CallbackInv, CallbackOK
    <2>2. cur \in [Workers -> InHand] /\ pc \in [Workers -> Points]
      BY DEF TypeOK, InHand, Points
    <2> QED
      BY <2>1, <2>2
  <1>1. /\ \A j \in Jobs : sent'[j] >= sent[j]
        /\ rejected \subseteq rejected' /\ sent \in [Jobs -> Nat] /\ sent' \in [Jobs -> Nat]
        /\ c.job \in Jobs /\ buf[w] \in Seq(DOMAIN queue)
    <2>1. TypeOK'
      BY TypeStep
    <2> QED
      BY <1>0, <2>1, ObservedKept DEF TypeOK, InHand
  <1>2. ASSUME Hand, UNCHANGED buf, cur'[w].job = c.job, cur'[w].n = c.n
        PROVE  Hand'
    <2>1. buf[w][1] \in DOMAIN queue
      BY <1>1, <1>2, TailFacts
    <2> QED
      BY <1>2, <2>1, QueueKept
  <1>3. ASSUME pc[w] # "idle", UNCHANGED <<buf, cur>>, pc'[w] # "idle"
        PROVE  /\ Hand'
               /\ c.res = "ok" => sent'[c.job] > 0
               /\ c.res = "perm" => c.job \in rejected'
    BY <1>0, <1>1, <1>2, <1>3 DEF CallbackOK
  <1>4. ASSUME NEW r \in {"ok", "perm", "temp"}, pc[w] # "idle", UNCHANGED buf, Goto(w, "settle"),
               cur' = [cur EXCEPT ![w] = [c EXCEPT !.res = r]],
               r = "ok" => sent'[c.job] > 0, r = "perm" => c.job \in rejected'
        PROVE  CallbackOK(w)'
    <2>1. pc'[w] = "settle" /\ cur'[w] = [c EXCEPT !.res = r]
      BY <1>0, <1>4 DEF Goto
    <2>2. cur'[w].job = c.job /\ cur'[w].n = c.n /\ cur'[w].res = r
      BY <1>0, <2>1 DEF InHand
    <2>3. Hand'
      BY <1>0, <1>2, <1>4, <2>2 DEF CallbackOK
    <2> QED
      BY <1>4, <2>1, <2>2, <2>3 DEF CallbackOK, Failing
  <1>5. CASE Take(w)
    <2> DEFINE i == Head(buf[w])
               m == [job |-> queue[i].job, n |-> queue[i].n, att |-> FALSE, mx |-> MXHosts, res |-> "none"]
    <2>1. i \in DOMAIN queue /\ i = buf[w][1]
      BY <1>1, <1>5, TailFacts DEF Take
    <2>2. CASE UNCHANGED <<pc, cur>>
      BY <1>0, <1>1, <1>5, <2>2 DEF Take, At, CallbackOK, Failing
    <2>3. CASE cur' = [cur EXCEPT ![w] = m] /\ Goto(w, "fetch") /\ UNCHANGED <<queue, buf>>
      <3>1. pc'[w] = "fetch" /\ cur'[w] = m /\ m.job = queue[i].job /\ m.n = queue[i].n /\ m.res = "none"
        BY <1>0, <2>3 DEF Goto
      <3> QED
        BY <1>5, <2>1, <2>3, <3>1 DEF CallbackOK, Failing, Take
    <2> QED
      BY <1>5, <2>2, <2>3 DEF Take
  <1>6. CASE Fetch(w)
    <2>1. pc'[w] = "send" /\ pc[w] = "fetch" /\ UNCHANGED buf
      BY <1>0, <1>6 DEF Fetch, Goto, At
    <2>2. cur'[w] = c \/ cur'[w] = [c EXCEPT !.att = TRUE]
      BY <1>0, <1>6 DEF Fetch
    <2>3. cur'[w].job = c.job /\ cur'[w].n = c.n /\ cur'[w].res = c.res
      BY <1>0, <2>2 DEF InHand
    <2>4. Hand'
      BY <1>0, <1>2, <2>1, <2>3 DEF CallbackOK
    <2> QED
      BY <1>0, <2>1, <2>3, <2>4 DEF CallbackOK, Failing
  <1>7. CASE Connect(w)
    <2>1. CASE Goto(w, "deliver") /\ UNCHANGED cur
      <3>1. pc'[w] = "deliver" /\ pc[w] = "send" /\ UNCHANGED buf
        BY <1>0, <1>7, <2>1 DEF Connect, Goto, At
      <3> QED
        BY <1>0, <1>3, <2>1, <3>1 DEF CallbackOK, Failing
    <2>2. CASE cur' = [cur EXCEPT ![w].res = "temp"] /\ Goto(w, "settle")
      BY <1>4, <1>7, <2>2 DEF Connect, At
    <2> QED
      BY <1>7, <2>1, <2>2 DEF Connect
  <1>8. CASE Deliver(w)
    <2>0. pc[w] = "deliver" /\ UNCHANGED buf
      BY <1>8 DEF Deliver, At
    <2>1. CASE Accepted(w) /\ cur' = [cur EXCEPT ![w].res = "ok"] /\ Goto(w, "settle")
      <3>1. sent'[c.job] > 0
        BY <1>1, <2>1, SMTT(30) DEF Accepted
      <3> QED
        BY <1>4, <2>0, <2>1, <3>1
    <2>2. CASE cur' = [cur EXCEPT ![w].res = "perm"] /\ rejected' = rejected \cup {c.job} /\ Goto(w, "settle")
      BY <1>4, <2>0, <2>2
    <2>3. CASE NextHost(w)
      <3>1. CASE cur' = [cur EXCEPT ![w].res = "temp"] /\ Goto(w, "settle")
        BY <1>4, <2>0, <3>1
      <3>2. CASE cur' = [cur EXCEPT ![w].mx = @ - 1] /\ UNCHANGED pc
        <4>1. cur'[w] = [c EXCEPT !.mx = @ - 1]
          BY <1>0, <3>2
        <4>2. cur'[w].job = c.job /\ cur'[w].n = c.n /\ cur'[w].res = c.res
          BY <1>0, <4>1 DEF InHand
        <4>3. Hand'
          BY <1>0, <1>2, <2>0, <4>2 DEF CallbackOK
        <4> QED
          BY <1>0, <2>0, <3>2, <4>2, <4>3 DEF CallbackOK, Failing
      <3> QED
        BY <2>3, <3>1, <3>2 DEF NextHost
    <2> QED
      BY <1>8, <2>1, <2>2, <2>3 DEF Deliver
  <1>9. CASE Settle(w)
    <2>1. UNCHANGED <<buf, cur>> /\ pc[w] = "settle" /\ pc'[w] \in {"ack", "bounce"}
          /\ (pc'[w] = "bounce" => c.res = "perm" \/ (c.res = "temp" /\ OutOfRetries(c.n)))
      BY <1>0, <1>9 DEF Settle, ScheduleRetry, Goto, At
    <2> QED
      BY <1>3, <2>1 DEF CallbackOK, Failing
  <1>10. CASE InsertBounce(w) \/ CountBounce(w) \/ FreezeForAbuse(w) \/ PublishDsn(w)
    <2>1. UNCHANGED <<buf, cur>> /\ pc[w] \in Failing /\ pc'[w] \in Failing \cup {"ack"}
      BY <1>0, <1>10 DEF InsertBounce, CountBounce, FreezeForAbuse, PublishDsn, Goto, At, Failing
    <2> QED
      BY <1>0, <1>3, <2>1 DEF CallbackOK, Failing
  <1>11. CASE Ack(w)
    <2>1. pc'[w] = "idle" /\ cur'[w] = NoMessage
      BY <1>0, <1>11 DEF Ack, Goto
    <2> QED
      BY <2>1 DEF CallbackOK, Failing, NoMessage
  <1> QED
    BY <1>5, <1>6, <1>7, <1>8, <1>9, <1>10, <1>11 DEF Callback

LEMMA CallbackStep ==
    ASSUME TypeOK, CallbackInv, [Next]_vars
    PROVE  CallbackInv'
  <1> SUFFICES ASSUME NEW w \in Workers
               PROVE  CallbackOK(w)'
    BY DEF CallbackInv, CallbackOK
  <1>0. CallbackOK(w) /\ cur[w].job \in Jobs /\ buf[w] \in Seq(DOMAIN queue) /\ sent \in [Jobs -> Nat]
    BY CurType DEF CallbackInv, CallbackOK, TypeOK
  <1>1. CASE Callback(w)
    BY <1>1, CallbackOwn
  <1>2. CASE Drained(w) \/ Crash(w)
    <2>1. pc'[w] = "idle" /\ cur'[w] = NoMessage
      BY <1>2 DEF Drained, Crash, Gone, Goto, TypeOK
    <2> QED
      BY <2>1 DEF CallbackOK, Failing, NoMessage
  <1>3. CASE ~Callback(w) /\ ~Drained(w) /\ ~Crash(w)
    <2>1. /\ pc'[w] = pc[w] /\ cur'[w] = cur[w]
          /\ buf[w] # <<>> => buf'[w] # <<>> /\ buf'[w][1] = buf[w][1]
      BY <1>3, Others
    <2>2. buf[w] # <<>> => buf[w][1] \in DOMAIN queue
      BY <1>0, TailFacts
    <2>3. sent[cur[w].job] > 0 => sent'[cur[w].job] > 0
      <3>1. sent'[cur[w].job] >= sent[cur[w].job] /\ sent[cur[w].job] \in Nat /\ sent'[cur[w].job] \in Nat
        BY <1>0, ObservedKept, TypeStep DEF TypeOK
      <3> QED
        BY <3>1
    <2>4. rejected \subseteq rejected'
      BY ObservedKept
    <2> QED
      BY <1>0, <2>1, <2>2, <2>3, <2>4, QueueKept DEF CallbackOK
  <1> QED
    BY <1>1, <1>2, <1>3

(* The program's variables keep their types, and a callback acts on the    *)
(* message it has in hand.                                                 *)
THEOREM TypeCorrect == Spec => [](TypeOK /\ CallbackInv)
  <1>1. Init => TypeOK /\ CallbackInv
    <2>1. ASSUME Init
          PROVE  TypeOK
      <3>1. cur \in [Workers -> InHand]
        BY <2>1, NoMessageType DEF Init
      <3>2. queue \in Seq(Message) /\ buf \in [Workers -> Seq(DOMAIN queue)]
            /\ timers \in [Workers -> Seq(Timer)]
        BY <2>1 DEF Init
      <3>3. CountsOK
        BY <2>1, BoundsType DEF Init, CountsOK
      <3>4. bounced \in [Workers -> [Senders -> 0..BounceLimit]]
        BY <2>1 DEF Init
      <3> QED
        BY <2>1, <3>1, <3>2, <3>3, <3>4 DEF Init, TypeOK, InHand, Message, Timer, CountsOK
    <2>2. ASSUME Init
          PROVE  CallbackInv
      BY <2>2 DEF Init, CallbackInv, NoMessage, Failing
    <2> QED
      BY <2>1, <2>2
  <1> QED
    BY <1>1, TypeStep, CallbackStep, PTL DEF Spec

-----------------------------------------------------------------------------
(* Messages and timers come from one another.                              *)

LEMMA TimerType ==
    ASSUME TypeOK, NEW w \in Workers, NEW k \in DOMAIN timers[w]
    PROVE  timers[w] \in Seq(Timer) /\ timers[w][k] \in Timer
           /\ timers[w][k].job \in Jobs /\ timers[w][k].n \in 0..MaxAttempts - 1
  <1>1. timers[w] \in Seq(Timer)
    BY DEF TypeOK, Timer
  <1>2. timers[w][k] \in Timer
    BY <1>1, SeqElement
  <1> QED
    BY <1>1, <1>2 DEF Timer

LEMMA MessageType ==
    ASSUME TypeOK, NEW i \in DOMAIN queue
    PROVE  queue[i] \in Message /\ queue[i].job \in Jobs /\ queue[i].n \in Nat
  <1>1. queue \in Seq(Message)
    BY DEF TypeOK, Message
  <1>2. queue[i] \in Message
    BY <1>1, SeqElement
  <1> QED
    BY <1>2 DEF Message

(* A new message is a first attempt or what a timer was set for.           *)
LEMMA NewMessage ==
    ASSUME TypeOK, CallbackInv, [Next]_vars, NEW i \in DOMAIN queue', i \notin DOMAIN queue
    PROVE  /\ queue'[i].state = "ready"
           /\ \/ queue'[i].n = 0 /\ \E j \in Jobs : Submit(j) /\ queue'[i].job = j
              \/ \E w \in Workers : \E k \in DOMAIN timers[w] :
                   Retry(w, k) /\ queue'[i].job = timers[w][k].job /\ queue'[i].n = timers[w][k].n
  <1>1. ASSUME NEW j \in Jobs, Submit(j)
        PROVE  queue'[i].n = 0 /\ queue'[i].job = j /\ queue'[i].state = "ready"
    <2>1. 0 \in 0..MaxAttempts - 1 /\ Publish(j, 0)
      BY <1>1 DEF Submit
    <2>2. i = Len(queue) + 1 /\ queue'[i] = [job |-> j, n |-> 0, state |-> "ready", old |-> FALSE]
      BY <2>1, PublishStep
    <2> QED
      BY <2>2
  <1>2. ASSUME NEW w \in Workers, NEW k \in DOMAIN timers[w], Retry(w, k)
        PROVE  queue'[i].job = timers[w][k].job /\ queue'[i].n = timers[w][k].n /\ queue'[i].state = "ready"
    <2> DEFINE t == timers[w][k]
    <2>1. t.job \in Jobs /\ t.n \in 0..MaxAttempts - 1
      BY TimerType
    <2>2. Publish(t.job, t.n)
      BY <1>2 DEF Retry
    <2>3. i = Len(queue) + 1 /\ queue'[i] = [job |-> t.job, n |-> t.n, state |-> "ready", old |-> FALSE]
      BY <2>1, <2>2, PublishStep
    <2> QED
      BY <2>3
  <1>3. ASSUME NEW k \in DOMAIN queue, NEW s \in {"ready", "out", "done"}, Mark(k, s)
        PROVE  FALSE
    BY <1>3, MarkStep
  <1>4. ASSUME NEW k \in DOMAIN queue, AckTimeout(k) \/ GrowOld(k) \/ \E w \in Workers : Pull(w, k)
        PROVE  FALSE
    BY <1>3, <1>4 DEF AckTimeout, GrowOld, Pull
  <1>5. ASSUME NEW w \in Workers, Take(w) \/ Ack(w)
        PROVE  FALSE
    <2>1. buf[w] # <<>>
      BY <1>5 DEF Take, Ack, At, CallbackInv
    <2>2. Head(buf[w]) \in DOMAIN queue
      BY <2>1, TailFacts DEF TypeOK
    <2> QED
      BY <1>3, <1>5, <2>2 DEF Take, Ack
  <1>6. ASSUME NEW w \in Workers,
               \/ Callback(w) /\ ~Take(w) /\ ~Ack(w)
               \/ \E s \in Senders : BounceWindow(w, s)
               \/ Shutdown(w) \/ Drained(w) \/ Crash(w) \/ Restart(w)
        PROVE  UNCHANGED queue
    BY <1>6 DEF Callback, Fetch, Connect, Deliver, Settle, InsertBounce, CountBounce, FreezeForAbuse,
       PublishDsn, BounceWindow, Shutdown, Drained, Crash, Restart, queueVars
  <1>7. CASE (\E s \in Senders : ResetBounces(s)) \/ UNCHANGED vars
    BY <1>7 DEF ResetBounces, vars
  <1> QED
    BY <1>1, <1>2, <1>4, <1>5, <1>6, <1>7 DEF Next

(* A step that touches a worker's timers is its Settle, a timer that runs  *)
(* out, or the end of the process.                                         *)
LEMMA TimerFrame ==
    ASSUME TypeOK, [Next]_vars, NEW w \in Workers, ~Settle(w), ~Drained(w), ~Crash(w),
           \A k \in DOMAIN timers[w] : ~Retry(w, k)
    PROVE  timers'[w] = timers[w]
  <1>1. ASSUME NEW v \in Workers, v # w, Callback(v) \/ Drained(v) \/ Crash(v)
        PROVE  timers'[w] = timers[w]
    BY <1>1, CallbackFrame
  <1>2. ASSUME NEW v \in Workers, v # w, NEW k \in DOMAIN timers[v], Retry(v, k)
        PROVE  timers'[w] = timers[w]
    BY <1>2 DEF Retry, TypeOK
  <1>3. CASE Callback(w)
    BY <1>3 DEF Callback, Take, Fetch, Connect, Deliver, InsertBounce, CountBounce, FreezeForAbuse,
       PublishDsn, Ack
  <1>4. ASSUME NEW v \in Workers,
               \/ \E i \in DOMAIN queue : Pull(v, i)
               \/ \E s \in Senders : BounceWindow(v, s)
               \/ Shutdown(v) \/ Restart(v)
        PROVE  UNCHANGED timers
    BY <1>4 DEF Pull, BounceWindow, Shutdown, Restart
  <1>5. CASE (\E j \in Jobs : Submit(j)) \/ (\E i \in DOMAIN queue : AckTimeout(i) \/ GrowOld(i))
             \/ (\E s \in Senders : ResetBounces(s)) \/ UNCHANGED vars
    BY <1>5 DEF Submit, AckTimeout, GrowOld, ResetBounces, workVars, vars
  <1> QED
    BY <1>1, <1>2, <1>3, <1>4, <1>5 DEF Next

(* A timer was there before, or is the retry of a failed attempt.          *)
LEMMA NewTimer ==
    ASSUME TypeOK, CallbackInv, [Next]_vars, NEW w \in Workers, NEW k \in DOMAIN timers'[w]
    PROVE  \/ \E o \in DOMAIN timers[w] : timers'[w][k] = timers[w][o]
           \/ /\ Settle(w) /\ cur[w].res = "temp" /\ ~OutOfRetries(cur[w].n)
              /\ timers'[w][k].job = cur[w].job /\ timers'[w][k].n = cur[w].n + 1
  <1>0. timers[w] \in Seq(Timer) /\ timers \in [Workers -> Seq(Timer)]
    BY DEF TypeOK, Timer
  <1>1. CASE timers'[w] = timers[w]
    BY <1>1
  <1>2. CASE Settle(w)
    <2> DEFINE t == [job |-> cur[w].job, n |-> cur[w].n + 1]
    <2>1. CASE timers' = [timers EXCEPT ![w] = Append(@, t)] /\ cur[w].res = "temp" /\ ~OutOfRetries(cur[w].n)
      <3>1. timers'[w] = Append(timers[w], t)
        BY <1>0, <2>1
      <3>2. t \in Timer
        BY <2>1, CurType DEF Timer, OutOfRetries
      <3>3. k \in DOMAIN timers[w] \/ k = Len(timers[w]) + 1
        BY <1>0, <3>1, <3>2, AppendFacts
      <3>4. \/ k \in DOMAIN timers[w] /\ timers'[w][k] = timers[w][k]
            \/ timers'[w][k] = t
        BY <1>0, <3>1, <3>2, <3>3, AppendFacts
      <3> QED
        BY <1>2, <2>1, <3>4
    <2>2. CASE UNCHANGED timers
      BY <2>2
    <2> QED
      BY <1>2, <2>1, <2>2 DEF Settle, ScheduleRetry
  <1>3. CASE Drained(w) \/ Crash(w)
    BY <1>0, <1>3 DEF Drained, Crash, Gone
  <1>4. ASSUME NEW o \in DOMAIN timers[w], Retry(w, o)
        PROVE  \E l \in DOMAIN timers[w] : timers'[w][k] = timers[w][l]
    <2>1. timers'[w] = RemoveAt(timers[w], o)
      BY <1>0, <1>4 DEF Retry
    <2> QED
      BY <1>0, <2>1, RemoveFacts
  <1> QED
    BY <1>1, <1>2, <1>3, <1>4, TimerFrame

(* A timer stays, becomes a message, or is given up.                       *)
LEMMA TimerKept ==
    ASSUME TypeOK, [Next]_vars, NEW w \in Workers, NEW k \in DOMAIN timers[w]
    PROVE  \/ \E o \in DOMAIN timers'[w] : timers'[w][o] = timers[w][k]
           \/ \E i \in DOMAIN queue' : /\ queue'[i].job = timers[w][k].job /\ queue'[i].n = timers[w][k].n
                                       /\ queue'[i].state = "ready"
           \/ \E why \in Reasons : <<timers[w][k].job, why>> \in lost'
  <1> DEFINE t == timers[w][k]
  <1>0. timers[w] \in Seq(Timer) /\ timers \in [Workers -> Seq(Timer)] /\ t.job \in Jobs
        /\ t.n \in 0..MaxAttempts - 1
    BY TimerType DEF TypeOK, Timer
  <1>1. CASE timers'[w] = timers[w]
    BY <1>1
  <1>2. CASE Settle(w)
    <2> DEFINE u == [job |-> cur[w].job, n |-> cur[w].n + 1]
    <2>1. CASE timers' = [timers EXCEPT ![w] = Append(@, u)] /\ ~OutOfRetries(cur[w].n)
      <3>1. timers'[w] = Append(timers[w], u) /\ u \in Timer
        BY <1>0, <2>1, CurType, SMTT(30) DEF Timer, OutOfRetries
      <3>2. k \in DOMAIN timers'[w] /\ timers'[w][k] = t
        BY <1>0, <3>1, AppendFacts
      <3> QED
        BY <3>2
    <2>2. CASE UNCHANGED timers
      BY <2>2
    <2> QED
      BY <1>2, <2>1, <2>2 DEF Settle, ScheduleRetry
  <1>3. CASE Drained(w) \/ Crash(w)
    <2>1. <<t.job, "shutdown">> \in lost' \/ <<t.job, "crash">> \in lost'
      BY <1>3 DEF Drained, Crash, Gone
    <2> QED
      BY <2>1 DEF Reasons
  <1>4. ASSUME NEW o \in DOMAIN timers[w], Retry(w, o), o # k
        PROVE  \E l \in DOMAIN timers'[w] : timers'[w][l] = t
    <2>1. timers'[w] = RemoveAt(timers[w], o)
      BY <1>0, <1>4 DEF Retry
    <2> QED
      BY <1>0, <1>4, <2>1, RemoveFacts, SMTT(30)
  <1>5. CASE Retry(w, k)
    <2>1. CASE Publish(t.job, t.n)
      <3>1. Len(queue) + 1 \in DOMAIN queue'
            /\ queue'[Len(queue) + 1] = [job |-> t.job, n |-> t.n, state |-> "ready", old |-> FALSE]
        BY <1>0, <2>1, PublishStep
      <3> QED
        BY <3>1
    <2>2. CASE \E why \in Reasons : lost' = lost \cup {<<t.job, why>>}
      BY <2>2
    <2> QED
      BY <1>5, <2>1, <2>2 DEF Retry, Reasons
  <1> QED
    BY <1>1, <1>2, <1>3, <1>4, <1>5, TimerFrame

-----------------------------------------------------------------------------
(* Bounces, blobs, and messages that are never forgotten.                  *)

(* The attempt in hand.                                                    *)
LEMMA AttemptOwn ==
    ASSUME TypeOK, CallbackInv, AttemptInv, [Next]_vars, NEW w \in Workers
    PROVE  /\ cur'[w].n <= failures'[cur'[w].job]
           /\ cur'[w].res = "temp" => cur'[w].n + 1 <= failures'[cur'[w].job]
  <1> DEFINE c == cur[w]
             Fits(x) == x.n <= failures'[x.job] /\ (x.res = "temp" => x.n + 1 <= failures'[x.job])
  <1>0. /\ c \in InHand /\ cur \in [Workers -> InHand] /\ c.job \in Jobs /\ c.n \in Nat
        /\ failures \in [Jobs -> Nat] /\ failures' \in [Jobs -> Nat]
        /\ \A j \in Jobs : failures'[j] >= failures[j]
        /\ c.n <= failures[c.job] /\ (c.res = "temp" => c.n + 1 <= failures[c.job])
    <2>1. cur \in [Workers -> InHand] /\ failures \in [Jobs -> Nat] /\ failures' \in [Jobs -> Nat]
      BY TypeStep DEF TypeOK, InHand
    <2> QED
      BY <2>1, CurType, ObservedKept DEF AttemptInv
  <1>1. Fits(c)
    <2>1. failures'[c.job] >= failures[c.job] /\ failures[c.job] \in Nat /\ failures'[c.job] \in Nat
      BY <1>0
    <2> QED
      BY <1>0, <2>1
  <1>2. NoMessage.job \in Jobs /\ NoMessage.n = 0 /\ NoMessage.res = "none"
    BY NoMessageType DEF InHand, NoMessage
  <1>3. CASE cur'[w] = c
    BY <1>1, <1>3
  <1>4. CASE cur'[w] = NoMessage
    BY <1>0, <1>2, <1>4
  <1>5. ASSUME NEW x \in InHand, cur'[w] = x, x.job = c.job, x.n = c.n, x.res = c.res \/ x.res # "temp"
        PROVE  Fits(cur'[w])
    BY <1>1, <1>5
  <1>6. ASSUME cur'[w] = [c EXCEPT !.res = "temp"], failures' = [failures EXCEPT ![c.job] = @ + 1]
        PROVE  Fits(cur'[w])
    <2>1. cur'[w].job = c.job /\ cur'[w].n = c.n
      BY <1>0, <1>6 DEF InHand
    <2>2. failures'[c.job] = failures[c.job] + 1 /\ failures[c.job] \in Nat
      BY <1>0, <1>6
    <2> QED
      BY <1>0, <2>1, <2>2
  <1>7. CASE Take(w)
    <2> DEFINE i == Head(buf[w])
    <2>1. CASE UNCHANGED cur
      BY <1>3, <2>1
    <2>2. CASE cur' = [cur EXCEPT ![w] = [job |-> queue[i].job, n |-> queue[i].n, att |-> FALSE,
                                          mx |-> MXHosts, res |-> "none"]]
      <3>1. i \in DOMAIN queue
        BY <1>7, TailFacts DEF Take, TypeOK
      <3>2. cur'[w].job = queue[i].job /\ cur'[w].n = queue[i].n /\ cur'[w].res = "none"
        BY <1>0, <2>2
      <3>3. queue[i].n <= failures[queue[i].job] /\ queue[i].job \in Jobs /\ queue[i].n \in Nat
        BY <3>1, MessageType DEF AttemptInv
      <3>4. failures[queue[i].job] \in Nat /\ failures'[queue[i].job] \in Nat
            /\ failures'[queue[i].job] >= failures[queue[i].job]
        BY <1>0, <3>3
      <3> QED
        BY <3>2, <3>3, <3>4
    <2> QED
      BY <1>7, <2>1, <2>2 DEF Take
  <1>8. CASE Fetch(w)
    <2>1. cur'[w] = c \/ cur'[w] = [c EXCEPT !.att = TRUE]
      BY <1>0, <1>8 DEF Fetch
    <2>2. [c EXCEPT !.att = TRUE] \in InHand /\ [c EXCEPT !.att = TRUE].job = c.job
          /\ [c EXCEPT !.att = TRUE].n = c.n /\ [c EXCEPT !.att = TRUE].res = c.res
      BY <1>0 DEF InHand
    <2> QED
      BY <1>3, <1>5, <2>1, <2>2
  <1>9. ASSUME NextHost(w)
        PROVE  Fits(cur'[w])
    <2>1. \/ c.mx > 1 /\ cur'[w] = [c EXCEPT !.mx = @ - 1]
          \/ cur'[w] = [c EXCEPT !.res = "temp"] /\ failures' = [failures EXCEPT ![c.job] = @ + 1]
      BY <1>0, <1>9 DEF NextHost
    <2>2. c.mx > 1 => /\ [c EXCEPT !.mx = @ - 1] \in InHand /\ [c EXCEPT !.mx = @ - 1].job = c.job
                      /\ [c EXCEPT !.mx = @ - 1].n = c.n /\ [c EXCEPT !.mx = @ - 1].res = c.res
      BY <1>0 DEF InHand
    <2> QED
      BY <1>5, <1>6, <2>1, <2>2
  <1>10. CASE Connect(w)
    <2>1. \/ cur'[w] = c
          \/ cur'[w] = [c EXCEPT !.res = "temp"] /\ failures' = [failures EXCEPT ![c.job] = @ + 1]
      BY <1>0, <1>10 DEF Connect
    <2> QED
      BY <1>3, <1>6, <2>1
  <1>11. CASE Deliver(w)
    <2>1. NextHost(w) \/ \E r \in {"ok", "perm"} : cur'[w] = [c EXCEPT !.res = r]
      BY <1>0, <1>11 DEF Deliver
    <2>2. \A r \in {"ok", "perm"} : /\ [c EXCEPT !.res = r] \in InHand /\ [c EXCEPT !.res = r].job = c.job
                                   /\ [c EXCEPT !.res = r].n = c.n /\ [c EXCEPT !.res = r].res # "temp"
      BY <1>0 DEF InHand
    <2> QED
      BY <1>5, <1>9, <2>1, <2>2
  <1>12. CASE Settle(w) \/ InsertBounce(w) \/ CountBounce(w) \/ FreezeForAbuse(w) \/ PublishDsn(w)
    BY <1>3, <1>12 DEF Settle, InsertBounce, CountBounce, FreezeForAbuse, PublishDsn
  <1>13. CASE Ack(w) \/ Drained(w) \/ Crash(w)
    BY <1>0, <1>4, <1>13 DEF Ack, Drained, Crash, Gone
  <1>14. CASE ~Callback(w) /\ ~Drained(w) /\ ~Crash(w)
    BY <1>3, <1>14, Others
  <1> QED
    BY <1>7, <1>8, <1>10, <1>11, <1>12, <1>13, <1>14 DEF Callback

LEMMA AttemptStep ==
    ASSUME TypeOK, CallbackInv, AttemptInv, [Next]_vars
    PROVE  AttemptInv'
  <1>0. /\ failures \in [Jobs -> Nat] /\ failures' \in [Jobs -> Nat]
        /\ \A j \in Jobs : failures'[j] >= failures[j]
    BY TypeStep, ObservedKept DEF TypeOK
  <1>g. ASSUME NEW j \in Jobs, NEW n \in Nat, n <= failures[j]
        PROVE  n <= failures'[j]
    <2>1. failures[j] \in Nat /\ failures'[j] \in Nat /\ failures'[j] >= failures[j]
      BY <1>0
    <2> QED
      BY <1>g, <2>1
  <1>t. ASSUME NEW w \in Workers, NEW k \in DOMAIN timers[w]
        PROVE  timers[w][k].n <= failures'[timers[w][k].job]
    <2>1. timers[w][k].job \in Jobs /\ timers[w][k].n \in Nat
      BY TimerType
    <2> QED
      BY <1>g, <2>1 DEF AttemptInv
  <1>1. ASSUME NEW i \in DOMAIN queue'
        PROVE  queue'[i].n <= failures'[queue'[i].job]
    <2>1. CASE i \in DOMAIN queue
      <3>1. queue[i].job \in Jobs /\ queue[i].n \in Nat /\ queue[i].n <= failures[queue[i].job]
        BY <2>1, MessageType DEF AttemptInv
      <3> QED
        BY <1>g, <2>1, <3>1, QueueKept
    <2>2. CASE i \notin DOMAIN queue
      <3>1. CASE queue'[i].n = 0 /\ queue'[i].job \in Jobs
        BY <1>0, <3>1
      <3> QED
        BY <1>t, <2>2, <3>1, NewMessage
    <2> QED
      BY <2>1, <2>2
  <1>2. ASSUME NEW w \in Workers, NEW k \in DOMAIN timers'[w]
        PROVE  timers'[w][k].n <= failures'[timers'[w][k].job]
    <2>1. CASE \E o \in DOMAIN timers[w] : timers'[w][k] = timers[w][o]
      BY <1>t, <2>1
    <2>2. CASE /\ cur[w].res = "temp"
               /\ timers'[w][k].job = cur[w].job /\ timers'[w][k].n = cur[w].n + 1
      <3>1. cur[w].job \in Jobs /\ cur[w].n + 1 \in Nat /\ cur[w].n + 1 <= failures[cur[w].job]
        BY <2>2, CurType DEF AttemptInv
      <3> QED
        BY <1>g, <2>2, <3>1
    <2> QED
      BY <2>1, <2>2, NewTimer
  <1> QED
    BY <1>1, <1>2, AttemptOwn DEF AttemptInv

(* A delivery that has ended for good.                                     *)
LEMMA FinalOutcome ==
    ASSUME TypeOK, CallbackInv, AttemptInv, NEW w \in Workers,
           cur[w].res # "none", tmpBlobsTerminal(cur[w].res, cur[w].n)
    PROVE  LET j == cur[w].job
           IN  /\ sent[j] > 0 \/ j \in rejected \/ failures[j] >= MaxAttempts
               /\ cur[w].res # "ok" => j \in rejected \/ failures[j] >= MaxAttempts
  <1>0. cur[w] \in InHand /\ cur[w].job \in Jobs /\ cur[w].n \in Nat /\ failures[cur[w].job] \in Nat
    BY CurType DEF TypeOK
  <1>1. CASE cur[w].res = "ok"
    BY <1>1 DEF CallbackInv
  <1>2. CASE cur[w].res = "perm"
    BY <1>2 DEF CallbackInv
  <1>3. CASE cur[w].res = "temp"
    <2>1. cur[w].n + 1 <= failures[cur[w].job] /\ cur[w].n + 1 >= MaxAttempts
      BY <1>3 DEF AttemptInv, tmpBlobsTerminal
    <2> QED
      BY <1>0, <1>3, <2>1
  <1> QED
    BY <1>0, <1>1, <1>2, <1>3 DEF InHand

LEMMA OutcomeStep ==
    ASSUME TypeOK, CallbackInv, AttemptInv, BounceJustified, BlobsOutliveRetries, [Next]_vars
    PROVE  (BounceJustified /\ BlobsOutliveRetries)'
  <1> DEFINE Refused(j) == j \in rejected \/ failures[j] >= MaxAttempts
  <1>0. ASSUME NEW j \in Jobs
        PROVE  /\ Refused(j) => Refused(j)'
               /\ sent[j] > 0 => sent'[j] > 0
    <2>1. /\ failures[j] \in Nat /\ failures'[j] \in Nat /\ sent[j] \in Nat /\ sent'[j] \in Nat
          /\ failures'[j] >= failures[j] /\ sent'[j] >= sent[j] /\ rejected \subseteq rejected'
      BY TypeStep, ObservedKept DEF TypeOK
    <2> QED
      BY <2>1
  <1>1. ASSUME NEW j \in Jobs, dsn'[j] > 0
        PROVE  Refused(j)'
    <2>1. CASE dsn[j] > 0
      BY <1>0, <2>1 DEF BounceJustified
    <2>2. ASSUME NEW w \in Workers, PublishDsn(w), cur[w].job = j
          PROVE  Refused(j)'
      <3>1. /\ cur[w].res = "perm" \/ (cur[w].res = "temp" /\ OutOfRetries(cur[w].n))
        BY <2>2 DEF PublishDsn, At, CallbackInv, Failing
      <3>2. cur[w].res # "none" /\ cur[w].res # "ok" /\ tmpBlobsTerminal(cur[w].res, cur[w].n)
        BY <3>1 DEF tmpBlobsTerminal, OutOfRetries
      <3>3. Refused(j)
        BY <2>2, <3>2, FinalOutcome
      <3> QED
        BY <1>0, <3>3
    <2>3. ASSUME NEW w \in Workers, PublishDsn(w), cur[w].job # j
          PROVE  dsn'[j] = dsn[j]
      BY <2>3 DEF PublishDsn, TypeOK
    <2>4. ASSUME \A w \in Workers : ~PublishDsn(w)
          PROVE  dsn' = dsn
      BY <2>4, ZenonT(40) DEF Next, Callback, Submit, AckTimeout, GrowOld, ResetBounces, Pull, Retry, BounceWindow,
         Take, Fetch, Connect, Deliver, Settle, InsertBounce, CountBounce, FreezeForAbuse,
         Ack, Shutdown, Drained, Crash, Restart, obsVars, vars
    <2> QED
      BY <1>1, <2>1, <2>2, <2>3, <2>4
  <1>2. ASSUME NEW j \in Jobs, ~blob'[j]
        PROVE  sent'[j] > 0 \/ Refused(j)'
    <2>1. CASE ~blob[j]
      BY <1>0, <2>1 DEF BlobsOutliveRetries
    <2>2. ASSUME NEW w \in Workers, Settle(w), blob[j]
          PROVE  sent'[j] > 0 \/ Refused(j)'
      <3>1. cur[w].job = j /\ tmpBlobsTerminal(cur[w].res, cur[w].n) /\ cur[w].res # "none"
        BY <1>2, <2>2 DEF Settle, At, CallbackInv, TypeOK
      <3>2. sent[j] > 0 \/ Refused(j)
        BY <3>1, FinalOutcome
      <3> QED
        BY <1>0, <3>2
    <2>3. ASSUME \A w \in Workers : ~Settle(w)
          PROVE  blob' = blob
      BY <2>3, ZenonT(40) DEF Next, Callback, Submit, AckTimeout, GrowOld, ResetBounces, Pull, Retry, BounceWindow,
         Take, Fetch, Connect, Deliver, InsertBounce, CountBounce, FreezeForAbuse, PublishDsn,
         Ack, Shutdown, Drained, Crash, Restart, queueVars, vars
    <2> QED
      BY <1>2, <2>1, <2>2, <2>3
  <1> QED
    BY <1>1, <1>2 DEF BounceJustified, BlobsOutliveRetries

(* Attempts are numbered by failures and outcomes are final.               *)
THEOREM OutcomeInvariant ==
    Spec => [](TypeOK /\ CallbackInv /\ AttemptInv /\ BounceJustified /\ BlobsOutliveRetries)
  <1>1. Init => AttemptInv /\ BounceJustified /\ BlobsOutliveRetries
    <2>1. NoMessage.job \in Jobs /\ NoMessage.n = 0 /\ NoMessage.res = "none"
      BY NoMessageType DEF InHand, NoMessage
    <2> QED
      BY <2>1 DEF Init, AttemptInv, BounceJustified, BlobsOutliveRetries
  <1> QED
    BY <1>1, TypeCorrect, AttemptStep, OutcomeStep, PTL DEF Spec

(* insertBounce tells the sender the truth, however often the message was  *)
(* redelivered, retried by several workers or cut off by a crash.          *)
THEOREM BouncesAreJustified == Spec => []BounceJustified
  BY OutcomeInvariant, PTL

(* handle reclaims a message's temporary blobs only once a delivery of it  *)
(* has ended for good.                                                     *)
THEOREM BlobsOutliveTheirRetries == Spec => []BlobsOutliveRetries
  BY OutcomeInvariant, PTL

(* A message is acknowledged at the end of its callback, or for its age.   *)
LEMMA Acknowledged ==
    ASSUME TypeOK, CallbackInv, [Next]_vars, NEW i \in DOMAIN queue,
           queue[i].state # "done", queue'[i].state = "done"
    PROVE  \E w \in Workers :
             /\ buf[w] # <<>> /\ i = buf[w][1]
             /\ Ack(w) \/ (Take(w) /\ <<queue[i].job, "too old">> \in lost')
  <1>1. ASSUME NEW w \in Workers, Take(w) \/ Ack(w)
        PROVE  /\ buf[w] # <<>> /\ i = buf[w][1]
               /\ Ack(w) \/ (Take(w) /\ <<queue[i].job, "too old">> \in lost')
    <2>1. buf[w] # <<>> /\ buf[w] \in Seq(DOMAIN queue)
      BY <1>1 DEF Take, Ack, At, CallbackInv, TypeOK
    <2>2. Head(buf[w]) \in DOMAIN queue /\ Head(buf[w]) = buf[w][1]
      BY <2>1, TailFacts
    <2>3. Mark(Head(buf[w]), "done")
      BY <1>1 DEF Take, Ack
    <2>4. i = Head(buf[w])
      BY <2>2, <2>3, MarkStep, ZenonT(40)
    <2>5. Take(w) => <<queue[i].job, "too old">> \in lost'
      BY <2>4 DEF Take
    <2> QED
      BY <1>1, <2>1, <2>2, <2>4, <2>5
  <1>2. ASSUME \A w \in Workers : ~Take(w) /\ ~Ack(w)
        PROVE  FALSE
    <2>1. ASSUME NEW k \in DOMAIN queue, NEW s \in {"ready", "out"}, Mark(k, s)
          PROVE  FALSE
      <3>1. CASE i = k
        BY <2>1, <3>1, MarkStep, MessageType DEF Message
      <3>2. CASE i # k
        BY <2>1, <3>2, MarkStep
      <3> QED
        BY <3>1, <3>2
    <2>2. ASSUME NEW k \in DOMAIN queue, AckTimeout(k) \/ \E w \in Workers : Pull(w, k)
          PROVE  FALSE
      BY <2>1, <2>2 DEF AckTimeout, Pull
    <2>3. ASSUME NEW k \in DOMAIN queue, GrowOld(k)
          PROVE  FALSE
      <3>1. queue[k] \in Message /\ queue \in Seq(Message)
        BY MessageType DEF TypeOK, Message
      <3>2. queue' = [queue EXCEPT ![k] = [queue[k] EXCEPT !.old = TRUE]]
            /\ [queue[k] EXCEPT !.old = TRUE].state = queue[k].state
        BY <2>3, <3>1 DEF GrowOld, Message
      <3> QED
        BY <3>1, <3>2
    <2>4. ASSUME NEW l \in Jobs, NEW n \in 0..MaxAttempts - 1, Publish(l, n)
          PROVE  FALSE
      BY <2>4, PublishStep
    <2>5. ASSUME NEW l \in Jobs, Submit(l)
          PROVE  FALSE
      <3>1. 0 \in 0..MaxAttempts - 1
        OBVIOUS
      <3> QED
        BY <2>4, <2>5, <3>1 DEF Submit
    <2>6. ASSUME NEW w \in Workers, NEW k \in DOMAIN timers[w], Retry(w, k)
          PROVE  FALSE
      BY <2>4, <2>6, TimerType DEF Retry
    <2>7. ASSUME NEW w \in Workers,
                 \/ Callback(w) \/ \E s \in Senders : BounceWindow(w, s)
                 \/ Shutdown(w) \/ Drained(w) \/ Crash(w) \/ Restart(w)
          PROVE  UNCHANGED queue
      BY <1>2, <2>7 DEF Callback, Fetch, Connect, Deliver, Settle, InsertBounce, CountBounce,
         FreezeForAbuse, PublishDsn, BounceWindow, Shutdown, Drained, Crash, Restart, queueVars
    <2>8. CASE (\E s \in Senders : ResetBounces(s)) \/ UNCHANGED vars
      BY <2>8 DEF ResetBounces, vars
    <2> QED
      BY <2>2, <2>3, <2>5, <2>6, <2>7, <2>8 DEF Next
  <1> QED
    BY <1>1, <1>2

(* To be given up is an end.                                               *)
LEMMA LostEnds ==
    ASSUME NEW j, NEW why, <<j, why>> \in lost'
    PROVE  Ended(j)'
  <1>1. <<j, why>> \in LostOf(j)'
    BY DEF LostOf
  <1> QED
    BY <1>1 DEF Ended

(* Who carries an attempt goes on carrying it or hands it on.              *)
LEMMA CarriedKept ==
    ASSUME TypeOK, CallbackInv, CarriedInv, [Next]_vars, NEW j \in Jobs, NEW m \in Nat, Carried(j, m)
    PROVE  Carried(j, m)'
  <1>1. ASSUME Ended(j)
        PROVE  Ended(j)'
    <2>1. /\ dsn[j] \in Nat /\ dsn'[j] \in Nat /\ sent[j] \in Nat /\ sent'[j] \in Nat
          /\ dsn'[j] >= dsn[j] /\ sent'[j] >= sent[j] /\ lost \subseteq lost'
      BY TypeStep, ObservedKept DEF TypeOK
    <2> QED
      BY <1>1, <2>1 DEF Ended, LostOf
  <1>2. ASSUME NEW w \in Workers, NEW k \in DOMAIN timers[w], timers[w][k].job = j, timers[w][k].n >= m
        PROVE  Carried(j, m)'
    <2>1. ASSUME NEW why \in Reasons, <<j, why>> \in lost'
          PROVE  Ended(j)'
      BY <2>1, LostEnds
    <2>2. ASSUME NEW i \in DOMAIN queue', queue'[i].job = j, queue'[i].n = timers[w][k].n,
                 queue'[i].state = "ready"
          PROVE  Carried(j, m)'
      BY <1>2, <2>2 DEF Carried
    <2>3. ASSUME NEW o \in DOMAIN timers'[w], timers'[w][o] = timers[w][k]
          PROVE  Carried(j, m)'
      BY <1>2, <2>3 DEF Carried
    <2> QED
      BY <1>2, <2>1, <2>2, <2>3, TimerKept DEF Carried
  <1>3. ASSUME NEW i \in DOMAIN queue, queue[i].job = j, queue[i].n >= m, queue[i].state # "done"
        PROVE  Carried(j, m)'
    <2>0. i \in DOMAIN queue' /\ queue'[i].job = j /\ queue'[i].n = queue[i].n /\ queue[i].n \in Nat
      BY <1>3, QueueKept, MessageType
    <2>1. CASE queue'[i].state # "done"
      BY <1>3, <2>0, <2>1 DEF Carried
    <2>2. ASSUME NEW w \in Workers, <<queue[i].job, "too old">> \in lost'
          PROVE  Ended(j)'
      BY <1>3, <2>2, LostEnds
    <2>3. ASSUME NEW w \in Workers, Ack(w), buf[w] # <<>>, i = buf[w][1]
          PROVE  Carried(j, m)'
      <3>1. pc[w] = "ack" /\ Mark(i, "done")
        <4>1. buf[w] \in Seq(DOMAIN queue)
          BY DEF TypeOK
        <4>2. Head(buf[w]) = i
          BY <2>3, <4>1, TailFacts
        <4> QED
          BY <2>3, <4>2 DEF Ack, At
      <3>4. cur[w].job = j /\ cur[w].n = queue[i].n
        BY <1>3, <2>3, <3>1 DEF CallbackInv
      <3>5. Carried(j, queue[i].n + 1)
        BY <3>1, <3>4 DEF CarriedInv
      <3>6. ASSUME NEW l \in DOMAIN queue, queue[l].job = j, queue[l].n >= queue[i].n + 1, queue[l].state # "done"
            PROVE  Carried(j, m)'
        <4>1. l # i /\ queue[l].n \in Nat /\ queue[l].n >= m
          BY <1>3, <2>0, <3>6, MessageType
        <4>2. DOMAIN queue' = DOMAIN queue /\ queue'[l] = queue[l]
          BY <3>1, <4>1, MarkStep
        <4> QED
          BY <3>6, <4>1, <4>2 DEF Carried
      <3>7. ASSUME NEW v \in Workers, NEW k \in DOMAIN timers[v], timers[v][k].job = j,
                   timers[v][k].n >= queue[i].n + 1
            PROVE  Carried(j, m)'
        <4>1. timers[v][k].n >= m /\ UNCHANGED timers
          BY <1>3, <2>0, <2>3, <3>7, TimerType DEF Ack
        <4> QED
          BY <3>7, <4>1 DEF Carried
      <3> QED
        BY <1>1, <3>5, <3>6, <3>7 DEF Carried
    <2> QED
      BY <1>3, <2>1, <2>2, <2>3, Acknowledged DEF Carried
  <1> QED
    BY <1>1, <1>2, <1>3 DEF Carried

(* A callback acknowledges only what was delivered, bounced, given up or   *)
(* will be tried again.                                                    *)
LEMMA CarriedStep ==
    ASSUME TypeOK, CallbackInv, CarriedInv, [Next]_vars
    PROVE  CarriedInv'
  <1>1. ASSUME NEW i \in DOMAIN queue', queue'[i].state = "done"
        PROVE  Carried(queue[i].job, queue[i].n + 1)'
    <2>1. i \in DOMAIN queue
      BY <1>1, NewMessage
    <2>2. PICK j \in Jobs, n \in Nat : /\ queue'[i].job = j /\ queue'[i].n = n
                                     /\ queue[i].job = j /\ queue[i].n = n
      BY <2>1, QueueKept, MessageType
    <2>3. ASSUME Carried(j, n + 1)
          PROVE  Carried(j, n + 1)'
      BY <2>3, CarriedKept
    <2>4. CASE queue[i].state = "done"
      BY <2>1, <2>2, <2>3, <2>4 DEF CarriedInv
    <2>5. CASE <<queue[i].job, "too old">> \in lost'
      BY <2>2, <2>5, LostEnds DEF Carried
    <2>6. ASSUME NEW w \in Workers, Ack(w), buf[w] # <<>>, i = buf[w][1]
          PROVE  Carried(j, n + 1)
      <3>1. pc[w] = "ack"
        BY <2>6 DEF Ack, At
      <3>2. cur[w].job = j /\ cur[w].n = n
        BY <2>2, <2>6, <3>1 DEF CallbackInv
      <3> QED
        BY <3>1, <3>2 DEF CarriedInv
    <2>7. Carried(j, n + 1)'
      BY <1>1, <2>1, <2>2, <2>3, <2>4, <2>5, <2>6, Acknowledged
    <2> QED
      BY <2>2, <2>7
  <1>2. ASSUME NEW w \in Workers, pc'[w] = "ack"
        PROVE  Carried(cur[w].job, cur[w].n + 1)'
    <2>0. PICK c \in InHand : cur[w] = c
      BY CurType
    <2>1. c.job \in Jobs /\ c.n \in Nat /\ c.n < MaxAttempts
      BY <2>0, CurType
    <2>2. CASE pc[w] = "ack" /\ cur'[w] = cur[w]
      BY <2>0, <2>1, <2>2, CarriedKept DEF CarriedInv
    <2>3. CASE Settle(w)
      <3>1. cur'[w] = c /\ (c.res = "ok" \/ (c.res = "temp" /\ ~OutOfRetries(c.n) /\ ScheduleRetry(w)))
        BY <1>2, <2>0, <2>3 DEF Settle, Goto, TypeOK
      <3>2. CASE c.res = "ok"
        <4>1. sent[c.job] > 0 /\ UNCHANGED sent
          BY <2>0, <2>3, <3>2 DEF CallbackInv, Settle, obsVars
        <4> QED
          BY <3>1, <4>1 DEF Carried, Ended
      <3>3. CASE ~OutOfRetries(c.n) /\ ScheduleRetry(w)
        <4> DEFINE t == [job |-> c.job, n |-> c.n + 1]
        <4>1. t \in Timer /\ timers[w] \in Seq(Timer) /\ timers'[w] = Append(timers[w], t)
          <5>1. t \in Timer
            BY <2>1, <3>3 DEF Timer, OutOfRetries
          <5>2. timers \in [Workers -> Seq(Timer)]
            BY DEF TypeOK, Timer
          <5> QED
            BY <2>0, <3>3, <5>1, <5>2 DEF ScheduleRetry
        <4>2. Len(timers[w]) + 1 \in DOMAIN timers'[w] /\ timers'[w][Len(timers[w]) + 1] = t
          BY <4>1, AppendFacts
        <4> QED
          BY <2>1, <3>1, <4>2 DEF Carried
      <3> QED
        BY <3>1, <3>2, <3>3
    <2>4. CASE InsertBounce(w)
      <3>1. cur'[w] = c /\ \E why \in Reasons : <<c.job, why>> \in lost'
        BY <1>2, <2>0, <2>4 DEF InsertBounce, Goto, TypeOK, Reasons
      <3> QED
        BY <3>1, LostEnds DEF Carried
    <2>5. CASE PublishDsn(w)
      <3>1. cur'[w] = c
            /\ (dsn' = [dsn EXCEPT ![c.job] = @ + 1] \/ \E why \in Reasons : <<c.job, why>> \in lost')
        BY <2>0, <2>5 DEF PublishDsn, Reasons
      <3>2. dsn \in [Jobs -> Nat]
        BY DEF TypeOK
      <3>3. dsn' = [dsn EXCEPT ![c.job] = @ + 1] => Ended(c.job)'
        BY <2>1, <3>2 DEF Ended
      <3> QED
        BY <3>1, <3>3, LostEnds DEF Carried
    <2>6. CASE Take(w) \/ Fetch(w) \/ Connect(w) \/ Deliver(w) \/ CountBounce(w) \/ FreezeForAbuse(w) \/ Ack(w)
      BY <1>2, <2>6 DEF Take, Fetch, Connect, Deliver, NextHost, CountBounce, FreezeForAbuse, Ack, Goto, At, TypeOK
    <2>7. CASE Drained(w) \/ Crash(w)
      BY <1>2, <2>7 DEF Drained, Crash, Gone, Goto, TypeOK
    <2>8. CASE ~Callback(w) /\ ~Drained(w) /\ ~Crash(w)
      BY <1>2, <2>2, <2>8, Others
    <2> QED
      BY <2>3, <2>4, <2>5, <2>6, <2>7, <2>8 DEF Callback
  <1> QED
    BY <1>1, <1>2 DEF CarriedInv

(* Whatever is given up has a cause, and a process drains on a SIGTERM.    *)
DrainInv == \A w \in Workers : phase[w] = "draining" => counts["shutdown"] > 0
CausedInv == DrainInv /\ \A x \in lost : Cause(x)

LEMMA CountsGrow ==
    ASSUME TypeOK, CallbackInv, [Next]_vars
    PROVE  \A e \in DOMAIN Bounds : counts[e] > 0 => counts'[e] > 0
  <1>0. counts \in [DOMAIN Bounds -> Nat]
    BY DEF TypeOK
  <1>1. UNCHANGED counts \/ \E e \in DOMAIN Bounds : Happens(e)
    BY BoundsType, ZenonT(60) DEF Next, Callback, Submit, AckTimeout, GrowOld, ResetBounces, Pull, Retry, BounceWindow,
       Take, Fetch, Connect, Deliver, Settle, InsertBounce, CountBounce, FreezeForAbuse, PublishDsn,
       Ack, Shutdown, Drained, Crash, Restart, vars
  <1> QED
    BY <1>0, <1>1 DEF Happens

LEMMA CountsHappen ==
    ASSUME TypeOK, NEW e \in DOMAIN Bounds, Happens(e)
    PROVE  counts'[e] > 0
  <1>1. counts \in [DOMAIN Bounds -> Nat] /\ counts' = [counts EXCEPT ![e] = counts[e] + 1]
    BY DEF TypeOK, Happens
  <1>2. counts[e] \in Nat /\ counts'[e] = counts[e] + 1
    BY <1>1
  <1> QED
    BY <1>2

LEMMA DrainStep ==
    ASSUME TypeOK, CallbackInv, DrainInv, [Next]_vars
    PROVE  DrainInv'
  <1>0. "shutdown" \in DOMAIN Bounds
    BY BoundsType
  <1>1. CASE UNCHANGED phase
    BY <1>0, <1>1, CountsGrow DEF DrainInv
  <1>2. ASSUME NEW w \in Workers, Shutdown(w)
        PROVE  DrainInv'
    <2>1. counts'["shutdown"] > 0
      BY <1>0, <1>2, CountsHappen DEF Shutdown
    <2> QED
      BY <2>1 DEF DrainInv
  <1>3. ASSUME NEW w \in Workers, Drained(w) \/ Crash(w) \/ Restart(w)
        PROVE  DrainInv'
    <2>1. phase'[w] # "draining" /\ \A v \in Workers \ {w} : phase'[v] = phase[v]
      BY <1>3 DEF Drained, Crash, Restart, Gone, TypeOK
    <2> QED
      BY <1>0, <2>1, CountsGrow DEF DrainInv
  <1>4. UNCHANGED phase \/ \E w \in Workers : Shutdown(w) \/ Drained(w) \/ Crash(w) \/ Restart(w)
    BY ZenonT(60) DEF Next, Callback, Submit, AckTimeout, GrowOld, ResetBounces, Pull, Retry, BounceWindow,
       Take, Fetch, Connect, Deliver, Settle, InsertBounce, CountBounce, FreezeForAbuse, PublishDsn,
       Ack, workVars, vars
  <1> QED
    BY <1>1, <1>2, <1>3, <1>4

(* What caused a loss stays on record.                                     *)
LEMMA CauseKept ==
    ASSUME TypeOK, CallbackInv, [Next]_vars, NEW x \in lost, Cause(x)
    PROVE  Cause(x)'
  <1>0. x[1] \in Jobs
    BY DEF TypeOK
  <1>1. /\ failures[x[1]] \in Nat /\ failures'[x[1]] \in Nat /\ failures'[x[1]] >= failures[x[1]]
        /\ rejected \subseteq rejected' /\ MaxAttempts \in Nat
    BY <1>0, TypeStep, ObservedKept, OutboundAssumption DEF TypeOK
  <1>2. Tried(x[1]) => Tried(x[1])'
    BY <1>1 DEF Tried
  <1>3. x[1] \in rejected \/ failures[x[1]] >= MaxAttempts => x[1] \in rejected' \/ failures'[x[1]] >= MaxAttempts
    BY <1>1
  <1>4. \A e \in {"crash", "shutdown", "fault"} : counts[e] > 0 => counts'[e] > 0
    BY BoundsType, CountsGrow
  <1>5. (\E i \in DOMAIN queue : queue[i].job = x[1] /\ queue[i].old)
        => \E i \in DOMAIN queue' : queue'[i].job = x[1] /\ queue'[i].old
    BY QueueKept
  <1> QED
    BY <1>2, <1>3, <1>4, <1>5 DEF Cause

(* A bounce is due only for a message that was refused or ran out of       *)
(* attempts, and a retry only for one that failed.                         *)
LEMMA BounceTried ==
    ASSUME TypeOK, CallbackInv, AttemptInv, NEW w \in Workers, pc[w] \in Failing
    PROVE  /\ cur[w].job \in rejected \/ failures[cur[w].job] >= MaxAttempts
           /\ Tried(cur[w].job)
  <1>0. cur[w].job \in Jobs /\ failures[cur[w].job] \in Nat /\ MaxAttempts \in Nat \ {0}
    BY CurType, OutboundAssumption DEF TypeOK
  <1>1. cur[w].res = "perm" \/ (cur[w].res = "temp" /\ OutOfRetries(cur[w].n))
    BY DEF CallbackInv
  <1>2. cur[w].res # "none" /\ cur[w].res # "ok" /\ tmpBlobsTerminal(cur[w].res, cur[w].n)
    BY <1>1 DEF tmpBlobsTerminal, OutOfRetries
  <1>3. cur[w].job \in rejected \/ failures[cur[w].job] >= MaxAttempts
    BY <1>2, FinalOutcome
  <1> QED
    BY <1>0, <1>3 DEF Tried

LEMMA TimerTried ==
    ASSUME TypeOK, AttemptInv, NEW w \in Workers, NEW k \in DOMAIN timers[w]
    PROVE  Tried(timers[w][k].job)
  <1>1. timers[w][k] \in Timer /\ timers[w][k].job \in Jobs
    BY TimerType
  <1>2. timers[w][k].n <= failures[timers[w][k].job] /\ failures[timers[w][k].job] \in Nat
    BY <1>1 DEF AttemptInv, TypeOK
  <1>3. timers[w][k].n \in Nat /\ timers[w][k].n > 0
    BY <1>1, OutboundAssumption DEF Timer
  <1> QED
    BY <1>2, <1>3 DEF Tried

LEMMA CausedStep ==
    ASSUME TypeOK, CallbackInv, AttemptInv, CausedInv, [Next]_vars
    PROVE  CausedInv'
  <1>0. DrainInv' /\ DrainInv
    BY DrainStep DEF CausedInv
  <1>e. {"crash", "shutdown", "fault"} \subseteq DOMAIN Bounds
    BY BoundsType
  <1>k. \A x \in lost : Cause(x)'
    BY CauseKept DEF CausedInv
  <1>1. ASSUME NEW w \in Workers, Take(w)
        PROVE  \A x \in lost' : Cause(x)'
    <2>1. CASE lost' = lost
      BY <1>k, <2>1
    <2>2. CASE LET i == Head(buf[w])
               IN  queue[i].old /\ buf[w] # <<>> /\ lost' = lost \cup {<<queue[i].job, "too old">>}
      <3>1. Head(buf[w]) \in DOMAIN queue
        BY <2>2, TailFacts DEF TypeOK
      <3>2. PICK i \in DOMAIN queue : i = Head(buf[w])
        BY <3>1
      <3>3. PICK j \in Jobs : j = queue[i].job
        BY MessageType
      <3>4. i \in DOMAIN queue' /\ queue'[i].job = j /\ queue'[i].old
        BY <2>2, <3>2, <3>3, QueueKept
      <3>5. Cause(<<j, "too old">>)'
        BY <3>4 DEF Cause
      <3> QED
        BY <1>k, <2>2, <3>2, <3>3, <3>5
    <2> QED
      BY <1>1, <2>1, <2>2 DEF Take
  <1>2. ASSUME NEW w \in Workers, InsertBounce(w) \/ PublishDsn(w)
        PROVE  \A x \in lost' : Cause(x)'
    <2>0. PICK j \in Jobs : j = cur[w].job
      BY CurType
    <2>1. UNCHANGED <<rejected, failures>>
      BY <1>2 DEF InsertBounce, PublishDsn
    <2>2. (j \in rejected' \/ failures'[j] >= MaxAttempts) /\ Tried(j)'
      BY <1>2, <2>0, <2>1, BounceTried DEF InsertBounce, PublishDsn, At, Failing, Tried
    <2>3. CASE lost' = lost
      BY <1>k, <2>3
    <2>4. CASE lost' = lost \cup {<<j, "bounce limited">>}
      <3>1. Cause(<<j, "bounce limited">>)'
        BY <2>2 DEF Cause
      <3> QED
        BY <1>k, <2>4, <3>1
    <2>5. CASE phase[w] = "draining" /\ lost' = lost \cup {<<j, "shutdown">>}
      <3>1. counts'["shutdown"] > 0
        BY <1>0, <1>e, <2>5, CountsGrow DEF DrainInv
      <3>2. Cause(<<j, "shutdown">>)'
        BY <2>2, <3>1 DEF Cause
      <3> QED
        BY <1>k, <2>5, <3>2
    <2>6. CASE Happens("fault") /\ lost' = lost \cup {<<j, "failed call">>}
      <3>1. counts'["fault"] > 0
        BY <1>e, <2>6, CountsHappen
      <3>2. Cause(<<j, "failed call">>)'
        BY <2>2, <3>1 DEF Cause
      <3> QED
        BY <1>k, <2>6, <3>2
    <2> QED
      BY <1>2, <2>0, <2>3, <2>4, <2>5, <2>6 DEF InsertBounce, PublishDsn
  <1>3. ASSUME NEW w \in Workers, NEW k \in DOMAIN timers[w], Retry(w, k)
        PROVE  \A x \in lost' : Cause(x)'
    <2>0. PICK j \in Jobs : j = timers[w][k].job
      BY TimerType
    <2>1. Tried(j)'
      BY <1>3, <2>0, TimerTried DEF Retry, Tried
    <2>2. CASE lost' = lost
      BY <1>k, <2>2
    <2>3. CASE phase[w] = "draining" /\ lost' = lost \cup {<<j, "shutdown">>}
      <3>1. counts'["shutdown"] > 0
        BY <1>0, <1>e, <2>3, CountsGrow DEF DrainInv
      <3>2. Cause(<<j, "shutdown">>)'
        BY <2>1, <3>1 DEF Cause
      <3> QED
        BY <1>k, <2>3, <3>2
    <2>4. CASE Happens("fault") /\ lost' = lost \cup {<<j, "failed call">>}
      <3>1. counts'["fault"] > 0
        BY <1>e, <2>4, CountsHappen
      <3>2. Cause(<<j, "failed call">>)'
        BY <2>1, <3>1 DEF Cause
      <3> QED
        BY <1>k, <2>4, <3>2
    <2> QED
      BY <1>3, <2>0, <2>2, <2>3, <2>4 DEF Retry
  <1>4. ASSUME NEW w \in Workers, Drained(w) \/ Crash(w)
        PROVE  \A x \in lost' : Cause(x)'
    <2>1. UNCHANGED <<rejected, failures>>
      BY <1>4 DEF Drained, Crash
    <2>2. PICK why \in {"crash", "shutdown"} : Gone(w, why) /\ counts'[why] > 0
      <3>1. CASE Drained(w)
        BY <1>0, <1>e, <3>1, CountsGrow DEF Drained, DrainInv
      <3>2. CASE Crash(w)
        BY <1>e, <3>2, CountsHappen DEF Crash
      <3> QED
        BY <1>4, <3>1, <3>2
    <2>3. ASSUME NEW k \in DOMAIN timers[w], NEW j \in Jobs, j = timers[w][k].job
          PROVE  Cause(<<j, why>>)'
      <3>1. Tried(j)'
        BY <2>1, <2>3, TimerTried DEF Tried
      <3> QED
        BY <2>2, <3>1 DEF Cause
    <2> QED
      BY <1>k, <2>2, <2>3, TimerType DEF Gone
  <1>5. \/ UNCHANGED lost
        \/ \E w \in Workers : \/ Take(w) \/ InsertBounce(w) \/ PublishDsn(w) \/ Drained(w) \/ Crash(w)
                              \/ \E k \in DOMAIN timers[w] : Retry(w, k)
    BY ZenonT(60) DEF Next, Callback, Submit, AckTimeout, GrowOld, ResetBounces, Pull, BounceWindow,
       Fetch, Connect, Deliver, Settle, CountBounce, FreezeForAbuse, Ack, Shutdown, Restart, obsVars, vars
  <1> QED
    BY <1>0, <1>k, <1>1, <1>2, <1>3, <1>4, <1>5 DEF CausedInv

LEMMA CarriedIsKnown ==
    ASSUME TypeOK, CarriedInv, CausedInv
    PROVE  NothingForgotten
  <1> SUFFICES ASSUME NEW i \in DOMAIN queue
               PROVE  Pending(queue[i].job) \/ Ended(queue[i].job)
    BY DEF NothingForgotten, Queued, Ended, CausedInv
  <1>1. CASE queue[i].state # "done"
    BY <1>1 DEF Pending
  <1>2. CASE queue[i].state = "done"
    BY <1>2 DEF CarriedInv, Carried, Pending
  <1> QED
    BY <1>1, <1>2

(* Whatever crashes, redelivers, loses a reply or fails, a queued message  *)
(* is on its way, was delivered, was bounced, or was given up for a cause: *)
(* it was too old, or its delivery had been tried and had failed.          *)
THEOREM NothingIsForgotten == Spec => []NothingForgotten
  <1>0. Init => CausedInv
    BY DEF Init, CausedInv, DrainInv
  <1>1. Init => CarriedInv
    BY DEF Init, CarriedInv
  <1>4. TypeOK /\ CallbackInv /\ AttemptInv /\ CausedInv /\ [Next]_vars => CausedInv'
    BY CausedStep
  <1>2. TypeOK /\ CallbackInv /\ CarriedInv /\ [Next]_vars => CarriedInv'
    BY CarriedStep
  <1>3. TypeOK /\ CarriedInv /\ CausedInv => NothingForgotten
    BY CarriedIsKnown
  <1> QED
    BY <1>0, <1>1, <1>2, <1>3, <1>4, OutcomeInvariant, PTL DEF Spec

-----------------------------------------------------------------------------
(* A steady system: no process ends, no message is offered again or grows  *)
(* old, and no reply, download, publish or update fails.                   *)

Steady == /\ MaxCrashes = 0 /\ MaxShutdowns = 0 /\ MaxTimeouts = 0
          /\ MaxOld = 0 /\ MaxFaults = 0

(* The delivery in hand is over but for the acknowledgement ...            *)
Spent(w) == pc[w] = "ack" \/ (pc[w] = "settle" /\ cur[w].res = "ok")
(* ... or it was refused.                                                  *)
Refusing(w) == pc[w] \in Failing \/ (pc[w] = "settle" /\ cur[w].res = "perm")

(* A message that will be delivered, or is being delivered.                *)
Live(i) == queue[i].state # "done" /\ \A w \in Workers : Spent(w) => buf[w][1] # i
Untouched(j) == sent[j] = 0 /\ dsn[j] = 0 /\ blob[j] /\ j \notin rejected

(* Every message pulled is in one place.                                   *)
OwnInv ==
    /\ \A w \in Workers : phase[w] = "up"
    /\ \A i \in DOMAIN queue : ~queue[i].old
    /\ \A w \in Workers : \A k \in DOMAIN buf[w] : queue[buf[w][k]].state = "out"
    /\ \A w, v \in Workers : \A k \in DOMAIN buf[w], l \in DOMAIN buf[v] :
         buf[w][k] = buf[v][l] => w = v /\ k = l

(* A job has one live message or timer at most.                            *)
OneInv ==
    /\ \A i, l \in DOMAIN queue : Live(i) /\ Live(l) /\ queue[i].job = queue[l].job => i = l
    /\ \A i \in DOMAIN queue, w \in Workers : \A k \in DOMAIN timers[w] :
         Live(i) => timers[w][k].job # queue[i].job
    /\ \A w, v \in Workers : \A k \in DOMAIN timers[w], l \in DOMAIN timers[v] :
         timers[w][k].job = timers[v][l].job => w = v /\ k = l

(* Nothing has happened to a job whose first attempt is not queued.        *)
FreshInv == \A j \in Jobs :
    (\A i \in DOMAIN queue : ~(queue[i].job = j /\ queue[i].n = 0)) =>
        /\ \A i \in DOMAIN queue : queue[i].job # j
        /\ \A w \in Workers : \A k \in DOMAIN timers[w] : timers[w][k].job # j
        /\ Untouched(j)

(* What is live has not been delivered or bounced, and has its blob and no *)
(* refusal until the callback that has it in hand learns of one.           *)
LiveInv ==
    /\ \A w \in Workers : \A k \in DOMAIN timers[w] : Untouched(timers[w][k].job)
    /\ \A i \in DOMAIN queue : Live(i) =>
         /\ sent[queue[i].job] = 0 /\ dsn[queue[i].job] = 0
         /\ (\A w \in Workers : pc[w] \in Failing => buf[w][1] # i) => blob[queue[i].job]
         /\ (\A w \in Workers : Refusing(w) => buf[w][1] # i) => queue[i].job \notin rejected
    /\ \A w \in Workers : pc[w] \in {"send", "deliver", "settle"} => cur[w].att

(* The blob of a job goes with its last attempt.                           *)
ReclaimInv ==
    /\ \A j \in Jobs : sent[j] > 0 =>
         ~blob[j] \/ \E w \in Workers : pc[w] = "settle" /\ cur[w].res = "ok" /\ cur[w].job = j
    /\ \A j \in Jobs : dsn[j] > 0 \/ LostOf(j) # {} => ~blob[j]
    /\ \A w \in Workers : pc[w] \in Failing => ~blob[cur[w].job]

Refused(s) == {j \in rejected : From[j] = s}
(* The refusals that IncrementBounces has not seen.                        *)
Uncounted == {cur[w].job : w \in {v \in Workers : pc[v] \in {"settle", "bounce", "count"}}}

(* The bounce counter counts different jobs.                               *)
CountInv ==
    /\ IsFiniteSet(rejected)
    /\ \A s \in Senders : recent[s] <= Cardinality(Refused(s) \ Uncounted)
    /\ \A w \in Workers : pc[w] \in {"count", "freeze"} => cur[w].res = "perm"
    /\ \A w \in Workers : pc[w] = "freeze" =>
         Cardinality(Refused(From[cur[w].job])) >= FreezeThreshold
    /\ FrozenForCause

Base == Steady /\ TypeOK /\ CallbackInv /\ OwnInv

LEMMA NothingHappens ==
    ASSUME Steady, TypeOK
    PROVE  \A e \in {"crash", "shutdown", "timeout", "old", "fault"} : ~Happens(e)
  <1>1. \A e \in DOMAIN Bounds : Bounds[e] = 0
    BY DEF Steady, Bounds
  <1>2. \A e \in DOMAIN Bounds : counts[e] \in Nat
    BY DEF TypeOK
  <1> QED
    BY <1>1, <1>2, BoundsType DEF Happens

(* The steps of a steady system.                                           *)
LEMMA SteadyNext ==
    ASSUME Base, [Next]_vars
    PROVE  \/ \E j \in Jobs : Submit(j)
           \/ \E s \in Senders : ResetBounces(s)
           \/ \E w \in Workers, i \in DOMAIN queue : Pull(w, i)
           \/ \E w \in Workers : \E k \in DOMAIN timers[w] : Retry(w, k)
           \/ \E w \in Workers, s \in Senders : BounceWindow(w, s)
           \/ \E w \in Workers : Callback(w)
           \/ UNCHANGED vars
  <1>1. \A e \in {"crash", "shutdown", "timeout", "old", "fault"} : ~Happens(e)
    BY NothingHappens DEF Base
  <1>2. \A w \in Workers : ~Shutdown(w) /\ ~Drained(w) /\ ~Crash(w) /\ ~Restart(w)
    BY <1>1 DEF Shutdown, Drained, Crash, Restart, Base, OwnInv
  <1>3. \A i \in DOMAIN queue : ~AckTimeout(i) /\ ~GrowOld(i)
    BY <1>1 DEF AckTimeout, GrowOld
  <1> QED
    BY <1>2, <1>3 DEF Next

(* The message in hand is live until it is spent.                          *)
LEMMA Holder ==
    ASSUME Base, NEW w \in Workers, pc[w] # "idle"
    PROVE  /\ buf[w] # <<>> /\ 1 \in DOMAIN buf[w] /\ buf[w][1] \in DOMAIN queue
           /\ Head(buf[w]) = buf[w][1] /\ queue[buf[w][1]].state = "out"
           /\ queue[buf[w][1]].job = cur[w].job /\ queue[buf[w][1]].n = cur[w].n
           /\ \A v \in Workers : pc[v] # "idle" /\ buf[v][1] = buf[w][1] => v = w
           /\ Live(buf[w][1]) <=> ~Spent(w)
  <1>1. \A v \in Workers : pc[v] # "idle" =>
          /\ buf[v] # <<>> /\ 1 \in DOMAIN buf[v] /\ buf[v][1] \in DOMAIN queue
          /\ Head(buf[v]) = buf[v][1]
    <2> SUFFICES ASSUME NEW v \in Workers, pc[v] # "idle"
                 PROVE  /\ buf[v] # <<>> /\ 1 \in DOMAIN buf[v] /\ buf[v][1] \in DOMAIN queue
                        /\ Head(buf[v]) = buf[v][1]
      OBVIOUS
    <2>1. buf[v] # <<>> /\ buf[v] \in Seq(DOMAIN queue)
      BY DEF Base, CallbackInv, TypeOK
    <2> QED
      BY <2>1, TailFacts
  <1>2. \A v \in Workers : pc[v] # "idle" /\ buf[v][1] = buf[w][1] => v = w
    BY <1>1 DEF Base, OwnInv
  <1>3. queue[buf[w][1]].state = "out"
    BY <1>1 DEF Base, OwnInv
  <1>4. \A v \in Workers : Spent(v) => pc[v] # "idle"
    BY DEF Spent
  <1>5. Live(buf[w][1]) <=> ~Spent(w)
    BY <1>2, <1>3, <1>4 DEF Live
  <1> QED
    BY <1>1, <1>2, <1>3, <1>5 DEF Base, CallbackInv

(* A callback takes hold of a message, works on it, and lets it go.        *)
LEMMA SteadyCallback ==
    ASSUME Base, NEW w \in Workers, Callback(w)
    PROVE  /\ pc[w] # "idle" /\ ~Ack(w) => UNCHANGED <<queue, buf>> /\ pc'[w] # "idle" /\ cur'[w].job = cur[w].job
           /\ Take(w) => UNCHANGED <<queue, buf>> /\ pc[w] = "idle" /\ pc'[w] = "fetch"
           /\ pc[w] = "idle" => Take(w)
           /\ pc[w] \in Failing => pc'[w] \in Failing \cup {"ack"}
           /\ pc[w] = "settle" => pc'[w] \in {"bounce", "ack"} /\ (cur[w].res = "ok" => pc'[w] = "ack")
                                  /\ (cur[w].res = "perm" => pc'[w] = "bounce")
           /\ UNCHANGED phase
  <1>0. pc \in [Workers -> Points] /\ cur \in [Workers -> InHand] /\ cur[w] \in InHand
    <2>1. pc \in [Workers -> Points] /\ cur \in [Workers -> InHand]
      BY DEF Base, TypeOK, Points, InHand
    <2> QED
      BY <2>1
  <1>1. CASE Take(w)
    <2>1. Head(buf[w]) \in DOMAIN queue
      BY <1>1, TailFacts DEF Take, Base, TypeOK
    <2>2. ~queue[Head(buf[w])].old
      BY <2>1 DEF Base, OwnInv
    <2> QED
      BY <1>0, <1>1, <2>2 DEF Take, At, Goto, Failing, Ack
  <1>2. CASE Fetch(w)
    <2>1. cur'[w] = cur[w] \/ cur'[w] = [cur[w] EXCEPT !.att = TRUE]
      BY <1>0, <1>2 DEF Fetch
    <2>2. cur'[w].job = cur[w].job
      BY <1>0, <2>1 DEF InHand
    <2> QED
      BY <1>0, <1>2, <2>2 DEF Fetch, At, Goto, Failing, queueVars, Take
  <1>3. CASE Connect(w) \/ Deliver(w)
    <2>1. \/ cur'[w] = cur[w]
          \/ \E r \in {"ok", "perm", "temp"} : cur'[w] = [cur[w] EXCEPT !.res = r]
          \/ cur'[w] = [cur[w] EXCEPT !.mx = @ - 1]
      BY <1>0, <1>3 DEF Connect, Deliver, NextHost
    <2>2. cur'[w].job = cur[w].job
      BY <1>0, <2>1 DEF InHand
    <2> QED
      BY <1>0, <1>3, <2>2 DEF Connect, Deliver, NextHost, At, Goto, Failing, queueVars, Take
  <1>4. CASE Settle(w)
    BY <1>0, <1>4 DEF Settle, ScheduleRetry, At, Goto, Failing, Take
  <1>5. CASE InsertBounce(w) \/ CountBounce(w) \/ FreezeForAbuse(w) \/ PublishDsn(w)
    BY <1>0, <1>5 DEF InsertBounce, CountBounce, FreezeForAbuse, PublishDsn, At, Goto, Failing, queueVars, Take
  <1>6. CASE Ack(w)
    BY <1>6 DEF Ack, At, Failing, Take
  <1> QED
    BY <1>1, <1>2, <1>3, <1>4, <1>5, <1>6 DEF Callback

(* Messages stay where they are.                                           *)
LEMMA OwnStep ==
    ASSUME Base, [Next]_vars
    PROVE  OwnInv'
  <1> USE DEF Base
  <1>q. queue \in Seq(Message) /\ buf \in [Workers -> Seq(DOMAIN queue)]
        /\ \A w \in Workers : \A k \in DOMAIN buf[w] : buf[w][k] \in DOMAIN queue
    <2>1. queue \in Seq(Message) /\ buf \in [Workers -> Seq(DOMAIN queue)]
      BY DEF TypeOK, Message
    <2> QED
      BY <2>1, SeqElement
  <1>1. ASSUME UNCHANGED <<buf, phase>>, \A i \in DOMAIN queue : queue'[i] = queue[i],
               \A i \in DOMAIN queue' : i \in DOMAIN queue \/ ~queue'[i].old
        PROVE  OwnInv'
    BY <1>1, <1>q DEF OwnInv
  <1>2. ASSUME NEW j \in Jobs, NEW n \in 0..MaxAttempts - 1, Publish(j, n), UNCHANGED <<buf, phase>>
        PROVE  OwnInv'
    <2>1. /\ \A i \in DOMAIN queue : queue'[i] = queue[i]
          /\ \A i \in DOMAIN queue' : i \in DOMAIN queue \/ i = Len(queue) + 1
          /\ queue'[Len(queue) + 1] = [job |-> j, n |-> n, state |-> "ready", old |-> FALSE]
      BY <1>2, PublishStep
    <2>2. ~queue'[Len(queue) + 1].old
      BY <2>1
    <2> QED
      BY <1>1, <1>2, <2>1, <2>2
  <1>3. ASSUME NEW j \in Jobs, Submit(j)
        PROVE  OwnInv'
    <2>1. 0 \in 0..MaxAttempts - 1
      OBVIOUS
    <2> QED
      BY <1>2, <1>3, <2>1 DEF Submit, workVars
  <1>4. ASSUME NEW w \in Workers, NEW k \in DOMAIN timers[w], Retry(w, k)
        PROVE  OwnInv'
    BY <1>2, <1>4, TimerType, NothingHappens DEF Retry, OwnInv
  <1>5. CASE UNCHANGED <<queue, buf, phase>>
    BY <1>5 DEF OwnInv
  <1>6. ASSUME NEW w \in Workers, NEW i \in DOMAIN queue, Pull(w, i)
        PROVE  OwnInv'
    <2>1. /\ DOMAIN queue' = DOMAIN queue /\ queue'[i] = [queue[i] EXCEPT !.state = "out"]
          /\ \A k \in DOMAIN queue \ {i} : queue'[k] = queue[k]
      BY <1>6, MarkStep DEF Pull
    <2>2. queue'[i].state = "out" /\ queue'[i].old = queue[i].old /\ queue[i].state = "ready"
      BY <1>6, <2>1, MessageType DEF Message, Pull
    <2>3. \A v \in Workers : \A k \in DOMAIN buf[v] : buf[v][k] # i
      BY <2>2 DEF OwnInv
    <2>4. buf'[w] = Append(buf[w], i) /\ \A v \in Workers \ {w} : buf'[v] = buf[v]
      BY <1>6, <1>q DEF Pull
    <2>5. \A k \in DOMAIN buf'[w] : \/ k \in DOMAIN buf[w] /\ buf'[w][k] = buf[w][k]
                                    \/ k = Len(buf[w]) + 1 /\ buf'[w][k] = i
      <3>1. buf[w] \in Seq(DOMAIN queue)
        BY <1>q
      <3> QED
        BY <2>4, <3>1, AppendCases
    <2>6. \A v \in Workers : \A k \in DOMAIN buf'[v] :
            \/ k \in DOMAIN buf[v] /\ buf'[v][k] = buf[v][k] /\ buf[v][k] # i /\ buf[v][k] \in DOMAIN queue
            \/ v = w /\ k = Len(buf[w]) + 1 /\ buf'[v][k] = i
      BY <1>q, <2>3, <2>4, <2>5
    <2>7. ASSUME NEW v \in Workers, NEW k \in DOMAIN buf'[v]
          PROVE  queue'[buf'[v][k]].state = "out"
      <3>1. CASE buf'[v][k] = i
        BY <2>2, <3>1
      <3>2. CASE k \in DOMAIN buf[v] /\ buf'[v][k] = buf[v][k] /\ buf[v][k] # i /\ buf[v][k] \in DOMAIN queue
        BY <2>1, <3>2 DEF OwnInv
      <3> QED
        BY <2>6, <3>1, <3>2
    <2>8. \A v, u \in Workers : \A k \in DOMAIN buf'[v], l \in DOMAIN buf'[u] :
            buf'[v][k] = buf'[u][l] => v = u /\ k = l
      BY <2>6 DEF OwnInv
    <2>9. \A k \in DOMAIN queue' : ~queue'[k].old
      BY <2>1, <2>2 DEF OwnInv
    <2> QED
      BY <1>6, <2>7, <2>8, <2>9 DEF Pull, OwnInv
  <1>7. ASSUME NEW w \in Workers, Ack(w)
        PROVE  OwnInv'
    <2> DEFINE i == buf[w][1]
    <2>0. pc[w] # "idle"
      BY <1>7 DEF Ack, At
    <2>1. i \in DOMAIN queue /\ Mark(i, "done") /\ buf[w] # <<>> /\ 1 \in DOMAIN buf[w]
      BY <1>7, <2>0, Holder DEF Ack
    <2>2. /\ DOMAIN queue' = DOMAIN queue /\ queue'[i] = [queue[i] EXCEPT !.state = "done"]
          /\ \A k \in DOMAIN queue \ {i} : queue'[k] = queue[k]
      BY <2>1, MarkStep
    <2>3. queue'[i].old = queue[i].old
      BY <2>1, <2>2, MessageType DEF Message
    <2>4. buf'[w] = Tail(buf[w]) /\ \A v \in Workers \ {w} : buf'[v] = buf[v]
      BY <1>7, <1>q DEF Ack
    <2>5. \A k \in DOMAIN buf'[w] : k + 1 \in DOMAIN buf[w] /\ buf'[w][k] = buf[w][k + 1] /\ k \in Nat /\ k # 0
      BY <1>q, <2>1, <2>4, TailFacts
    <2>6. \A v \in Workers : \A k \in DOMAIN buf'[v] :
            LET o == IF v = w THEN k + 1 ELSE k
            IN  o \in DOMAIN buf[v] /\ buf'[v][k] = buf[v][o] /\ buf[v][o] # i /\ buf[v][o] \in DOMAIN queue
      <3>1. ASSUME NEW v \in Workers, NEW o \in DOMAIN buf[v], v # w \/ o # 1
            PROVE  buf[v][o] # i /\ buf[v][o] \in DOMAIN queue
        BY <1>q, <2>1, <3>1 DEF OwnInv
      <3>2. ASSUME NEW k \in DOMAIN buf'[w]
            PROVE  k + 1 \in DOMAIN buf[w] /\ buf'[w][k] = buf[w][k + 1] /\ k + 1 # 1
        BY <2>5, <3>2
      <3> QED
        BY <2>4, <3>1, <3>2
    <2>7. \A v \in Workers : \A k \in DOMAIN buf'[v] : queue'[buf'[v][k]].state = "out"
      BY <2>2, <2>6 DEF OwnInv
    <2>8. \A v, u \in Workers : \A k \in DOMAIN buf'[v], l \in DOMAIN buf'[u] :
            buf'[v][k] = buf'[u][l] => v = u /\ k = l
      <3> SUFFICES ASSUME NEW v \in Workers, NEW u \in Workers, NEW k \in DOMAIN buf'[v],
                          NEW l \in DOMAIN buf'[u], buf'[v][k] = buf'[u][l]
                   PROVE  v = u /\ k = l
        OBVIOUS
      <3>1. v = u /\ (IF v = w THEN k + 1 ELSE k) = (IF u = w THEN l + 1 ELSE l)
        BY <2>6 DEF OwnInv
      <3> QED
        BY <2>5, <3>1
    <2>9. \A k \in DOMAIN queue' : ~queue'[k].old
      BY <2>2, <2>3 DEF OwnInv
    <2> QED
      BY <1>7, <2>7, <2>8, <2>9 DEF Ack, OwnInv
  <1>8. ASSUME NEW w \in Workers, Callback(w), ~Ack(w)
        PROVE  UNCHANGED <<queue, buf, phase>>
    BY <1>8, SteadyCallback
  <1>9. CASE (\E s \in Senders : ResetBounces(s)) \/ (\E w \in Workers, s \in Senders : BounceWindow(w, s))
             \/ UNCHANGED vars
    BY <1>5, <1>9 DEF ResetBounces, BounceWindow, workVars, queueVars, vars
  <1> QED
    BY <1>3, <1>4, <1>5, <1>6, <1>7, <1>8, <1>9, SteadyNext

LEMMA BaseStep ==
    ASSUME Base, [Next]_vars
    PROVE  Base'
  BY TypeStep, CallbackStep, OwnStep DEF Base, Steady

(* What is spent stays spent, and then acknowledged.                       *)
LEMMA LiveBack ==
    ASSUME Base, [Next]_vars, NEW i \in DOMAIN queue, Live(i)'
    PROVE  Live(i)
  <1>0. TypeOK /\ CallbackInv
    BY DEF Base
  <1>1. queue[i].state # "done"
    BY <1>0, QueueKept DEF Live
  <1>2. ASSUME NEW v \in Workers, Spent(v), buf[v][1] = i
        PROVE  FALSE
    <2>0. pc[v] # "idle" /\ buf[v] # <<>> /\ Head(buf[v]) = i
      BY <1>2, Holder DEF Spent
    <2>1. ~Drained(v) /\ ~Crash(v)
      BY <1>0, NothingHappens DEF Drained, Crash, Base, OwnInv
    <2>2. CASE ~Callback(v)
      <3>1. pc'[v] = pc[v] /\ cur'[v] = cur[v] /\ buf'[v][1] = i
        BY <1>0, <1>2, <2>0, <2>1, <2>2, Others
      <3> QED
        BY <1>2, <3>1 DEF Spent, Live
    <2>3. CASE Ack(v)
      <3>1. Mark(i, "done")
        BY <2>0, <2>3 DEF Ack
      <3>2. queue'[i] = [queue[i] EXCEPT !.state = "done"]
        BY <1>0, <3>1, MarkStep
      <3>3. queue'[i].state = "done"
        BY <1>0, <3>2, MessageType DEF Message
      <3> QED
        BY <3>3 DEF Live
    <2>4. CASE Callback(v) /\ ~Ack(v)
      <3>1. pc[v] # "ack"
        BY <2>4 DEF Callback, Take, Fetch, Connect, Deliver, Settle, InsertBounce, CountBounce,
           FreezeForAbuse, PublishDsn, At
      <3>2. pc[v] = "settle" /\ cur[v].res = "ok"
        BY <1>2, <3>1 DEF Spent
      <3>3. pc'[v] = "ack" /\ buf' = buf
        BY <2>0, <2>4, <3>2, SteadyCallback
      <3> QED
        BY <1>2, <3>3 DEF Spent, Live
    <2> QED
      BY <2>2, <2>3, <2>4
  <1> QED
    BY <1>1, <1>2 DEF Live

(* A callback keeps hold of a message that stays live.                     *)
LEMMA HolderKept ==
    ASSUME Base, [Next]_vars, NEW v \in Workers, pc[v] # "idle", NEW i, i = buf[v][1], Live(i)'
    PROVE  /\ pc'[v] # "idle" /\ buf'[v][1] = i /\ cur'[v].job = cur[v].job
           /\ pc[v] \in Failing => pc'[v] \in Failing
           /\ Refusing(v) => Refusing(v)'
  <1>0. TypeOK /\ CallbackInv /\ buf[v] # <<>> /\ Head(buf[v]) = i /\ i \in DOMAIN queue
    BY Holder DEF Base
  <1>1. ~Drained(v) /\ ~Crash(v)
    BY <1>0, NothingHappens DEF Drained, Crash, Base, OwnInv
  <1>2. CASE ~Callback(v)
    <2>1. pc'[v] = pc[v] /\ cur'[v] = cur[v] /\ buf'[v][1] = i
      BY <1>0, <1>1, <1>2, Others
    <2> QED
      BY <2>1 DEF Refusing
  <1>3. CASE Ack(v)
    <2>1. Mark(i, "done")
      BY <1>0, <1>3 DEF Ack
    <2>2. queue'[i] = [queue[i] EXCEPT !.state = "done"]
      BY <1>0, <2>1, MarkStep
    <2>3. queue'[i].state = "done"
      BY <1>0, <2>2, MessageType DEF Message
    <2> QED
      BY <2>3 DEF Live
  <1>4. CASE Callback(v) /\ ~Ack(v)
    <2>1. buf' = buf /\ pc'[v] # "idle" /\ cur'[v].job = cur[v].job
      BY <1>4, SteadyCallback
    <2>2. pc'[v] # "ack"
      BY <2>1 DEF Live, Spent
    <2>3. pc[v] \in Failing => pc'[v] \in Failing
      BY <1>4, <2>2, SteadyCallback
    <2>4. pc[v] = "settle" /\ cur[v].res = "perm" => pc'[v] \in Failing
      BY <1>4, SteadyCallback DEF Failing
    <2> QED
      BY <2>1, <2>3, <2>4 DEF Refusing
  <1> QED
    BY <1>2, <1>3, <1>4

(* What can touch a job: the delivery in hand, its end, its bounce.        *)
LEMMA Touch ==
    ASSUME Base, [Next]_vars, NEW j \in Jobs
    PROVE  /\ \/ sent'[j] = sent[j]
              \/ \E w \in Workers : /\ Deliver(w) /\ cur[w].job = j /\ UNCHANGED dsn
                                    /\ sent'[j] = sent[j] + 1
                                    /\ pc[w] = "deliver" /\ pc'[w] = "settle" /\ cur'[w].res = "ok"
           /\ \/ dsn'[j] = dsn[j]
              \/ \E w \in Workers : /\ PublishDsn(w) /\ cur[w].job = j /\ UNCHANGED sent
                                    /\ dsn'[j] = dsn[j] + 1
                                    /\ pc[w] = "dsn" /\ pc'[w] = "ack"
           /\ blob'[j] => blob[j]
           /\ \/ blob'[j] = blob[j]
              \/ \E w \in Workers : /\ Settle(w) /\ cur[w].job = j
                                    /\ tmpBlobsTerminal(cur[w].res, cur[w].n)
                                    /\ pc[w] = "settle" /\ pc'[w] \in {"bounce", "ack"}
           /\ \/ j \in rejected' => j \in rejected
              \/ \E w \in Workers : /\ Deliver(w) /\ cur[w].job = j
                                    /\ pc[w] = "deliver" /\ pc'[w] = "settle" /\ cur'[w].res = "perm"
  <1>0. /\ TypeOK /\ sent \in [Jobs -> Nat] /\ dsn \in [Jobs -> Nat] /\ blob \in [Jobs -> BOOLEAN]
        /\ pc \in [Workers -> Points] /\ cur \in [Workers -> InHand]
    BY DEF Base, TypeOK, Points, InHand
  <1>1. ~Happens("fault")
    BY NothingHappens DEF Base
  <1>2. ASSUME NEW w \in Workers, Deliver(w)
        PROVE  /\ UNCHANGED <<dsn, blob>> /\ pc[w] = "deliver"
               /\ \/ sent'[j] = sent[j]
                  \/ /\ cur[w].job = j /\ sent'[j] = sent[j] + 1
                     /\ pc'[w] = "settle" /\ cur'[w].res = "ok"
               /\ \/ j \in rejected' => j \in rejected
                  \/ cur[w].job = j /\ pc'[w] = "settle" /\ cur'[w].res = "perm"
    <2>0. cur[w] \in InHand /\ cur[w].job \in Jobs
      BY <1>0, CurType
    <2>1. \A r \in {"ok", "perm"} : cur' = [cur EXCEPT ![w].res = r] => cur'[w].res = r
      <3>1. \A r \in {"ok", "perm"} : [cur[w] EXCEPT !.res = r].res = r
        BY <2>0 DEF InHand
      <3>2. \A r \in {"ok", "perm"} : cur' = [cur EXCEPT ![w].res = r] => cur'[w] = [cur[w] EXCEPT !.res = r]
        BY <1>0
      <3> QED
        BY <3>1, <3>2
    <2>2. UNCHANGED <<dsn, blob>> /\ pc[w] = "deliver"
      BY <1>2 DEF Deliver, At, queueVars
    <2>3. \/ UNCHANGED <<sent, rejected>>
          \/ /\ sent' = [sent EXCEPT ![cur[w].job] = @ + 1] /\ UNCHANGED rejected
             /\ pc' = [pc EXCEPT ![w] = "settle"] /\ cur' = [cur EXCEPT ![w].res = "ok"]
          \/ /\ rejected' = rejected \cup {cur[w].job} /\ UNCHANGED sent
             /\ pc' = [pc EXCEPT ![w] = "settle"] /\ cur' = [cur EXCEPT ![w].res = "perm"]
      BY <1>1, <1>2 DEF Deliver, Accepted, Goto
    <2>4. pc' = [pc EXCEPT ![w] = "settle"] => pc'[w] = "settle"
      BY <1>0
    <2>5. sent' = [sent EXCEPT ![cur[w].job] = @ + 1] =>
            sent'[j] = sent[j] \/ (cur[w].job = j /\ sent'[j] = sent[j] + 1)
      BY <1>0, <2>0
    <2>6. CASE UNCHANGED <<sent, rejected>>
      BY <2>2, <2>6
    <2>7. CASE /\ sent' = [sent EXCEPT ![cur[w].job] = @ + 1] /\ UNCHANGED rejected
               /\ pc' = [pc EXCEPT ![w] = "settle"] /\ cur' = [cur EXCEPT ![w].res = "ok"]
      BY <2>1, <2>2, <2>4, <2>5, <2>7
    <2>8. CASE /\ rejected' = rejected \cup {cur[w].job} /\ UNCHANGED sent
               /\ pc' = [pc EXCEPT ![w] = "settle"] /\ cur' = [cur EXCEPT ![w].res = "perm"]
      BY <2>1, <2>2, <2>4, <2>8
    <2> QED
      BY <2>3, <2>6, <2>7, <2>8
  <1>3. ASSUME NEW w \in Workers, PublishDsn(w)
        PROVE  /\ UNCHANGED <<sent, blob, rejected>> /\ pc[w] = "dsn" /\ pc'[w] = "ack"
               /\ dsn'[j] = dsn[j] \/ (cur[w].job = j /\ dsn'[j] = dsn[j] + 1)
    <2>1. cur[w].job \in Jobs
      BY <1>0, CurType
    <2>2. dsn' = dsn \/ dsn' = [dsn EXCEPT ![cur[w].job] = @ + 1]
      BY <1>3 DEF PublishDsn
    <2> QED
      BY <1>0, <1>3, <2>1, <2>2 DEF PublishDsn, At, Goto, queueVars
  <1>4. ASSUME NEW w \in Workers, Settle(w)
        PROVE  /\ UNCHANGED <<sent, dsn, rejected>> /\ pc[w] = "settle" /\ pc'[w] \in {"bounce", "ack"}
               /\ blob'[j] => blob[j]
               /\ blob'[j] = blob[j] \/ (cur[w].job = j /\ tmpBlobsTerminal(cur[w].res, cur[w].n))
    <2>1. cur[w].job \in Jobs
      BY <1>0, CurType
    <2>2. UNCHANGED <<sent, dsn, rejected>> /\ pc[w] = "settle" /\ pc'[w] \in {"bounce", "ack"}
      BY <1>0, <1>4 DEF Settle, ScheduleRetry, At, Goto, obsVars
    <2>3. blob' = [blob EXCEPT ![cur[w].job] =
                     @ /\ ~(tmpBlobsTerminal(cur[w].res, cur[w].n) /\ cur[w].att /\ phase[w] = "up")]
      BY <1>4 DEF Settle
    <2>4. (blob'[j] => blob[j]) /\ (blob'[j] = blob[j] \/ (cur[w].job = j /\ tmpBlobsTerminal(cur[w].res, cur[w].n)))
      BY <1>0, <2>1, <2>3
    <2> QED
      BY <2>2, <2>4
  <1>5. ASSUME NEW w \in Workers, Callback(w), ~Deliver(w), ~PublishDsn(w), ~Settle(w)
        PROVE  UNCHANGED <<sent, dsn, blob, rejected>>
    BY <1>5 DEF Callback, Take, Fetch, Connect, InsertBounce, CountBounce, FreezeForAbuse, Ack, queueVars, obsVars
  <1>6. CASE \/ \E k \in Jobs : Submit(k)
             \/ \E s \in Senders : ResetBounces(s)
             \/ \E w \in Workers, i \in DOMAIN queue : Pull(w, i)
             \/ \E w \in Workers : \E k \in DOMAIN timers[w] : Retry(w, k)
             \/ \E w \in Workers, s \in Senders : BounceWindow(w, s)
             \/ UNCHANGED vars
    BY <1>6 DEF Submit, ResetBounces, Pull, Retry, BounceWindow, queueVars, obsVars, vars
  <1>7. CASE \E w \in Workers : Deliver(w)
    BY <1>2, <1>7
  <1>8. CASE \E w \in Workers : PublishDsn(w)
    BY <1>3, <1>8
  <1>9. CASE \E w \in Workers : Settle(w)
    BY <1>4, <1>9
  <1> QED
    BY <1>5, <1>6, <1>7, <1>8, <1>9, SteadyNext

(* The message in hand of a callback that may still touch the job.         *)
LEMMA LiveHand ==
    ASSUME Base, NEW w \in Workers, pc[w] # "idle",
           pc[w] # "ack", pc[w] = "settle" => (cur[w].res # "ok" \/ sent[cur[w].job] = 0)
    PROVE  buf[w][1] \in DOMAIN queue /\ Live(buf[w][1]) /\ queue[buf[w][1]].job = cur[w].job
  <1>1. ~Spent(w)
    BY DEF Spent, Base, CallbackInv
  <1> QED
    BY <1>1, Holder

(* A retry and the attempt it comes from are not live at the same time.    *)
LEMMA OneStep ==
    ASSUME Base, OneInv, FreshInv, [Next]_vars
    PROVE  OneInv'
  <1>0. TypeOK /\ CallbackInv /\ timers \in [Workers -> Seq(Timer)]
    BY DEF Base, TypeOK, Timer
  <1>1. \A i \in DOMAIN queue : i \in DOMAIN queue' /\ queue'[i].job = queue[i].job /\ (Live(i)' => Live(i))
    BY <1>0, QueueKept, LiveBack
  <1> HIDE DEF Live
  <1>2. CASE DOMAIN queue' \subseteq DOMAIN queue /\ UNCHANGED timers
    BY <1>1, <1>2 DEF OneInv
  <1>3. ASSUME NEW j \in Jobs, Submit(j)
        PROVE  OneInv'
    <2>1. /\ \A i \in DOMAIN queue : queue[i].job # j
          /\ \A w \in Workers : \A k \in DOMAIN timers[w] : timers[w][k].job # j
          /\ UNCHANGED timers
      BY <1>3 DEF Submit, FreshInv, workVars
    <2>2. 0 \in 0..MaxAttempts - 1 /\ Publish(j, 0)
      BY <1>3 DEF Submit
    <2>3. /\ \A i \in DOMAIN queue' : i \in DOMAIN queue \/ i = Len(queue) + 1
          /\ queue'[Len(queue) + 1] = [job |-> j, n |-> 0, state |-> "ready", old |-> FALSE]
      BY <1>0, <2>2, PublishStep
    <2>4. \A i \in DOMAIN queue' : i \in DOMAIN queue \/ (i = Len(queue) + 1 /\ queue'[i].job = j)
      BY <2>3
    <2> QED
      BY <1>1, <2>1, <2>4 DEF OneInv
  <1>4. ASSUME NEW w \in Workers, NEW k \in DOMAIN timers[w], Retry(w, k)
        PROVE  OneInv'
    <2> DEFINE t == timers[w][k]
    <2>1. t.job \in Jobs /\ t.n \in 0..MaxAttempts - 1 /\ Publish(t.job, t.n)
      BY <1>0, <1>4, TimerType, NothingHappens DEF Retry, Base, OwnInv
    <2>2. /\ \A i \in DOMAIN queue' : i \in DOMAIN queue \/ i = Len(queue) + 1
          /\ queue'[Len(queue) + 1] = [job |-> t.job, n |-> t.n, state |-> "ready", old |-> FALSE]
      BY <1>0, <2>1, PublishStep
    <2>3. \A i \in DOMAIN queue' : i \in DOMAIN queue \/ (i = Len(queue) + 1 /\ queue'[i].job = t.job)
      BY <2>2
    <2>4. timers'[w] = RemoveAt(timers[w], k) /\ \A v \in Workers \ {w} : timers'[v] = timers[v]
      BY <1>0, <1>4 DEF Retry
    <2> DEFINE Was(v, o) == IF v = w THEN IF o < k THEN o ELSE o + 1 ELSE o
    <2>5. ASSUME NEW v \in Workers, NEW o \in DOMAIN timers'[v]
          PROVE  /\ Was(v, o) \in DOMAIN timers[v] /\ timers'[v][o] = timers[v][Was(v, o)]
                 /\ v # w \/ Was(v, o) # k
      <3>1. CASE v = w
        <4>1. timers[w] \in Seq(Timer)
          BY <1>0
        <4> QED
          BY <2>4, <3>1, <4>1, RemoveFacts
      <3>2. CASE v # w
        BY <2>4, <3>2
      <3> QED
        BY <3>1, <3>2
    <2>6. ASSUME NEW v \in Workers, NEW o \in DOMAIN timers'[v]
          PROVE  timers'[v][o].job # t.job
      BY <2>5 DEF OneInv
    <2>7. ASSUME NEW v \in Workers, NEW u \in Workers, NEW o \in DOMAIN timers'[v], NEW l \in DOMAIN timers'[u],
                 timers'[v][o].job = timers'[u][l].job
          PROVE  v = u /\ o = l
      <3>1. v = u /\ Was(v, o) = Was(u, l)
        BY <2>5, <2>7 DEF OneInv
      <3>2. CASE v # w
        BY <3>1, <3>2
      <3>3. CASE v = w
        <4>0. timers[w] \in Seq(Timer) /\ RemoveAt(timers[w], k) \in Seq(Timer)
          BY <1>0, RemoveFacts
        <4>1. o \in Nat /\ l \in Nat /\ k \in Nat
          BY <2>4, <3>1, <3>3, <4>0
        <4> QED
          BY <3>1, <3>3, <4>1
      <3> QED
        BY <3>2, <3>3
    <2>8. \A v \in Workers : \A o \in DOMAIN timers'[v] : \E l \in DOMAIN timers[v] : timers'[v][o] = timers[v][l]
      BY <2>5
    <2>9. \A i \in DOMAIN queue : Live(i) => queue[i].job # t.job
      BY DEF OneInv
    <2>10. ASSUME NEW i \in DOMAIN queue', NEW l \in DOMAIN queue', Live(i)', Live(l)', queue'[i].job = queue'[l].job
           PROVE  i = l
      BY <1>1, <2>3, <2>9, <2>10 DEF OneInv
    <2>11. ASSUME NEW i \in DOMAIN queue', NEW v \in Workers, NEW o \in DOMAIN timers'[v], Live(i)'
           PROVE  timers'[v][o].job # queue'[i].job
      <3>1. CASE i \in DOMAIN queue
        BY <1>1, <2>8, <2>11, <3>1 DEF OneInv
      <3>2. CASE queue'[i].job = t.job
        BY <2>6, <3>2
      <3> QED
        BY <2>3, <3>1, <3>2
    <2> QED
      BY <2>7, <2>10, <2>11 DEF OneInv
  <1>5. ASSUME NEW w \in Workers, Settle(w), ~UNCHANGED timers
        PROVE  OneInv'
    <2> DEFINE t == [job |-> cur[w].job, n |-> cur[w].n + 1]
               h == buf[w][1]
    <2>1. /\ timers' = [timers EXCEPT ![w] = Append(@, t)] /\ cur[w].res = "temp" /\ ~OutOfRetries(cur[w].n)
          /\ pc[w] = "settle" /\ pc' = [pc EXCEPT ![w] = "ack"] /\ UNCHANGED <<queue, buf>>
      BY <1>5 DEF Settle, ScheduleRetry, Goto, At
    <2>2. t \in Timer /\ t.job = cur[w].job
      BY <1>0, <2>1, CurType DEF Timer, OutOfRetries
    <2>3. timers'[w] = Append(timers[w], t) /\ \A v \in Workers \ {w} : timers'[v] = timers[v]
      BY <1>0, <2>1
    <2>4. h \in DOMAIN queue /\ Live(h) /\ queue[h].job = cur[w].job
      BY <2>1, LiveHand
    <2>5. pc'[w] = "ack"
      BY <2>1 DEF Base, TypeOK
    <2>6. \A i : i = h => ~Live(i)'
      BY <2>1, <2>5 DEF Live, Spent
    <2> HIDE DEF t, h
    <2>7. \A k \in DOMAIN timers'[w] : \/ k \in DOMAIN timers[w] /\ timers'[w][k] = timers[w][k]
                                       \/ k = Len(timers[w]) + 1 /\ timers'[w][k] = t
      <3>1. timers[w] \in Seq(Timer)
        BY <1>0
      <3> QED
        BY <2>2, <2>3, <3>1, AppendCases
    <2>8. \A v \in Workers : \A k \in DOMAIN timers'[v] :
            \/ k \in DOMAIN timers[v] /\ timers'[v][k] = timers[v][k] /\ timers[v][k].job # cur[w].job
            \/ v = w /\ k = Len(timers[w]) + 1 /\ timers'[v][k].job = cur[w].job
      <3>1. \A v \in Workers : \A k \in DOMAIN timers[v] : timers[v][k].job # cur[w].job
        BY <2>4 DEF OneInv
      <3> QED
        BY <2>2, <2>3, <2>7, <3>1
    <2>9. \A i \in DOMAIN queue' : Live(i)' => /\ i \in DOMAIN queue /\ Live(i) /\ queue'[i].job = queue[i].job
                                              /\ queue[i].job # cur[w].job
      BY <1>1, <2>1, <2>4, <2>6 DEF OneInv
    <2>10. ASSUME NEW i \in DOMAIN queue', NEW l \in DOMAIN queue', Live(i)', Live(l)', queue'[i].job = queue'[l].job
           PROVE  i = l
      BY <2>9, <2>10 DEF OneInv
    <2>11. ASSUME NEW i \in DOMAIN queue', NEW v \in Workers, NEW o \in DOMAIN timers'[v], Live(i)'
           PROVE  timers'[v][o].job # queue'[i].job
      BY <2>8, <2>9, <2>11 DEF OneInv
    <2>12. ASSUME NEW v \in Workers, NEW u \in Workers, NEW o \in DOMAIN timers'[v], NEW l \in DOMAIN timers'[u],
                 timers'[v][o].job = timers'[u][l].job
           PROVE  v = u /\ o = l
      BY <2>8, <2>12 DEF OneInv
    <2> QED
      BY <2>10, <2>11, <2>12 DEF OneInv
  <1>6. ASSUME NEW w \in Workers, Callback(w)
        PROVE  DOMAIN queue' \subseteq DOMAIN queue
    <2>1. CASE Ack(w)
      <3>1. Mark(Head(buf[w]), "done") /\ Head(buf[w]) \in DOMAIN queue
        BY <2>1, Holder DEF Ack, At
      <3> QED
        BY <1>0, <3>1, MarkStep
    <2>2. CASE ~Ack(w)
      BY <1>6, <2>2, SteadyCallback
    <2> QED
      BY <2>1, <2>2
  <1>7. ASSUME NEW w \in Workers, Callback(w), ~Settle(w)
        PROVE  UNCHANGED timers
    BY <1>7 DEF Callback, Take, Fetch, Connect, Deliver, InsertBounce, CountBounce, FreezeForAbuse, PublishDsn, Ack
  <1>8. ASSUME NEW w \in Workers, NEW i \in DOMAIN queue, Pull(w, i)
        PROVE  DOMAIN queue' \subseteq DOMAIN queue /\ UNCHANGED timers
    BY <1>0, <1>8, MarkStep DEF Pull
  <1>9. CASE (\E s \in Senders : ResetBounces(s)) \/ (\E w \in Workers, s \in Senders : BounceWindow(w, s))
             \/ UNCHANGED vars
    BY <1>2, <1>9 DEF ResetBounces, BounceWindow, workVars, queueVars, vars
  <1> QED
    BY <1>2, <1>3, <1>4, <1>5, <1>6, <1>7, <1>8, <1>9, SteadyNext

(* A job is touched after its first attempt was queued only.               *)
LEMMA FreshStep ==
    ASSUME Base, FreshInv, [Next]_vars
    PROVE  FreshInv'
  <1> SUFFICES ASSUME NEW j \in Jobs, \A i \in DOMAIN queue' : ~(queue'[i].job = j /\ queue'[i].n = 0)
               PROVE  /\ \A i \in DOMAIN queue' : queue'[i].job # j
                      /\ \A w \in Workers : \A k \in DOMAIN timers'[w] : timers'[w][k].job # j
                      /\ Untouched(j)'
    BY DEF FreshInv
  <1>0. TypeOK /\ CallbackInv
    BY DEF Base
  <1>1. \A i \in DOMAIN queue : i \in DOMAIN queue' /\ queue'[i].job = queue[i].job /\ queue'[i].n = queue[i].n
    BY <1>0, QueueKept
  <1>2. /\ \A i \in DOMAIN queue : queue[i].job # j
        /\ \A w \in Workers : \A k \in DOMAIN timers[w] : timers[w][k].job # j
        /\ Untouched(j)
    BY <1>1 DEF FreshInv
  <1>3. ASSUME NEW i \in DOMAIN queue'
        PROVE  queue'[i].job # j
    <2>1. CASE i \in DOMAIN queue
      BY <1>1, <1>2, <2>1
    <2>2. CASE i \notin DOMAIN queue
      BY <1>0, <1>2, <2>2, NewMessage
    <2> QED
      BY <2>1, <2>2
  <1>4. \A w \in Workers : pc[w] # "idle" => cur[w].job # j
    BY <1>2, Holder
  <1>5. ASSUME NEW w \in Workers, NEW k \in DOMAIN timers'[w]
        PROVE  timers'[w][k].job # j
    <2>1. cur[w].res = "temp" => pc[w] # "idle"
      BY <1>0 DEF CallbackInv
    <2> QED
      BY <1>0, <1>2, <1>4, <2>1, NewTimer
  <1>6. sent'[j] = sent[j] /\ dsn'[j] = dsn[j] /\ blob'[j] = blob[j] /\ (j \in rejected' => j \in rejected)
    BY <1>4, Touch
  <1> QED
    BY <1>2, <1>3, <1>5, <1>6 DEF Untouched

(* The attachments are there whenever a delivery in hand needs them.       *)
LEMMA AttachedStep ==
    ASSUME Base, LiveInv, [Next]_vars, NEW w \in Workers, pc'[w] \in {"send", "deliver", "settle"}
    PROVE  cur'[w].att
  <1>0. /\ TypeOK /\ CallbackInv /\ pc \in [Workers -> Points] /\ cur \in [Workers -> InHand]
        /\ cur[w] \in InHand
    <2>1. pc \in [Workers -> Points] /\ cur \in [Workers -> InHand]
      BY DEF Base, TypeOK, Points, InHand
    <2> QED
      BY <2>1 DEF Base
  <1>1. ~Happens("fault") /\ phase[w] = "up" /\ ~Drained(w) /\ ~Crash(w)
    BY <1>0, NothingHappens DEF Base, OwnInv, Drained, Crash
  <1>2. CASE ~Callback(w)
    <2>1. pc'[w] = pc[w] /\ cur'[w] = cur[w]
      BY <1>0, <1>1, <1>2, Others
    <2> QED
      BY <2>1 DEF LiveInv
  <1>3. CASE Fetch(w)
    <2>1. pc[w] = "fetch"
      BY <1>3 DEF Fetch, At
    <2>2. buf[w][1] \in DOMAIN queue /\ Live(buf[w][1]) /\ queue[buf[w][1]].job = cur[w].job
      BY <2>1, LiveHand
    <2>3. \A v \in Workers : pc[v] \in Failing => buf[v][1] # buf[w][1]
      BY <2>1, Holder DEF Failing
    <2>4. blob[cur[w].job]
      BY <2>2, <2>3 DEF LiveInv
    <2>5. cur' = [cur EXCEPT ![w].att = TRUE]
      BY <1>1, <1>3, <2>4 DEF Fetch
    <2>6. cur'[w] = [cur[w] EXCEPT !.att = TRUE]
      BY <1>0, <2>5
    <2> QED
      BY <1>0, <2>6 DEF InHand
  <1>4. CASE Connect(w) \/ Deliver(w)
    <2>1. cur[w].att
      BY <1>4 DEF Connect, Deliver, At, LiveInv
    <2>2. \/ cur'[w] = cur[w]
          \/ \E r \in {"ok", "perm", "temp"} : cur'[w] = [cur[w] EXCEPT !.res = r]
          \/ cur'[w] = [cur[w] EXCEPT !.mx = @ - 1]
      BY <1>0, <1>4 DEF Connect, Deliver, NextHost
    <2> QED
      BY <1>0, <2>1, <2>2 DEF InHand
  <1>5. CASE Take(w) \/ Settle(w) \/ Ack(w)
    <2>1. pc'[w] \notin {"send", "deliver", "settle"}
      <3>1. CASE Take(w)
        BY <3>1, SteadyCallback DEF Callback
      <3>2. CASE Settle(w) \/ Ack(w)
        BY <1>0, <3>2 DEF Settle, ScheduleRetry, Ack, Goto
      <3> QED
        BY <1>5, <3>1, <3>2
    <2> QED
      BY <2>1
  <1>6. CASE InsertBounce(w) \/ CountBounce(w) \/ FreezeForAbuse(w) \/ PublishDsn(w)
    <2>1. pc'[w] \notin {"send", "deliver", "settle"}
      BY <1>0, <1>6 DEF InsertBounce, CountBounce, FreezeForAbuse, PublishDsn, Goto
    <2> QED
      BY <2>1
  <1> QED
    BY <1>2, <1>3, <1>4, <1>5, <1>6 DEF Callback

(* Nothing happens to a job that waits for its retry.                      *)
LEMMA WaitingStep ==
    ASSUME Base, OneInv, LiveInv, [Next]_vars, NEW w \in Workers, NEW k \in DOMAIN timers'[w],
           NEW j, j = timers'[w][k].job
    PROVE  Untouched(j)'
  <1>0. TypeOK /\ CallbackInv
    BY DEF Base
  <1>1. ASSUME NEW o \in DOMAIN timers[w], timers'[w][k] = timers[w][o]
        PROVE  Untouched(j)'
    <2>0. j = timers[w][o].job /\ j \in Jobs /\ Untouched(j)
      BY <1>0, <1>1, TimerType DEF LiveInv
    <2>1. \A v \in Workers : pc[v] \in {"deliver", "settle", "dsn"} => cur[v].job # j
      <3> SUFFICES ASSUME NEW v \in Workers, pc[v] \in {"deliver", "settle", "dsn"}, cur[v].job = j
                   PROVE  FALSE
        OBVIOUS
      <3>1. pc[v] # "idle" /\ pc[v] # "ack" /\ sent[cur[v].job] = 0
        BY <2>0 DEF Untouched
      <3>2. buf[v][1] \in DOMAIN queue /\ Live(buf[v][1]) /\ queue[buf[v][1]].job = cur[v].job
        BY <3>1, LiveHand
      <3> QED
        BY <2>0, <3>2 DEF OneInv
    <2>2. sent'[j] = sent[j] /\ dsn'[j] = dsn[j] /\ blob'[j] = blob[j] /\ (j \in rejected' => j \in rejected)
      BY <2>0, <2>1, Touch
    <2> QED
      BY <2>0, <2>2 DEF Untouched
  <1>2. CASE Settle(w) /\ cur[w].res = "temp" /\ ~OutOfRetries(cur[w].n) /\ j = cur[w].job
    <2>1. pc[w] = "settle" /\ UNCHANGED <<sent, dsn, rejected>> /\ j \in Jobs
      BY <1>0, <1>2, CurType DEF Settle, At, obsVars
    <2>2. buf[w][1] \in DOMAIN queue /\ Live(buf[w][1]) /\ queue[buf[w][1]].job = cur[w].job
      BY <1>2, <2>1, LiveHand
    <2>3. \A v \in Workers : pc[v] \in Failing \/ Refusing(v) => buf[v][1] # buf[w][1]
      BY <1>2, <2>1, Holder DEF Failing, Refusing
    <2>4. Untouched(j)
      BY <1>2, <2>2, <2>3 DEF LiveInv, Untouched
    <2>5. ~tmpBlobsTerminal(cur[w].res, cur[w].n)
      BY <1>2 DEF tmpBlobsTerminal, OutOfRetries
    <2>6. blob'[j] = blob[j]
      <3>1. blob' = [blob EXCEPT ![cur[w].job] =
                       @ /\ ~(tmpBlobsTerminal(cur[w].res, cur[w].n) /\ cur[w].att /\ phase[w] = "up")]
        BY <1>2 DEF Settle
      <3>2. blob \in [Jobs -> BOOLEAN]
        BY <1>0 DEF TypeOK
      <3> QED
        BY <1>2, <2>1, <2>5, <3>1, <3>2
    <2> QED
      BY <2>1, <2>4, <2>6 DEF Untouched
  <1> QED
    BY <1>0, <1>1, <1>2, NewTimer

(* Nothing happens to a live message but through the callback that has it. *)
LEMMA LiveKept ==
    ASSUME Base, OneInv, LiveInv, [Next]_vars, NEW i \in DOMAIN queue, Live(i)',
           NEW j, j = queue[i].job
    PROVE  /\ sent'[j] = 0 /\ dsn'[j] = 0
           /\ (\A w \in Workers : pc'[w] \in Failing => buf'[w][1] # i) => blob'[j]
           /\ (\A w \in Workers : Refusing(w)' => buf'[w][1] # i) => j \notin rejected'
  <1>0. TypeOK /\ CallbackInv /\ j \in Jobs /\ Live(i)
    BY MessageType, LiveBack DEF Base
  <1>1. sent[j] = 0 /\ dsn[j] = 0
    BY <1>0 DEF LiveInv
  <1>2. ASSUME NEW w \in Workers, pc[w] \in {"deliver", "settle", "dsn"}, cur[w].job = j
        PROVE  buf[w][1] = i
    <2>1. pc[w] # "idle" /\ pc[w] # "ack" /\ sent[cur[w].job] = 0
      BY <1>1, <1>2
    <2>2. buf[w][1] \in DOMAIN queue /\ Live(buf[w][1]) /\ queue[buf[w][1]].job = cur[w].job
      BY <2>1, LiveHand
    <2> QED
      BY <1>0, <1>2, <2>2 DEF OneInv
  <1>3. ASSUME NEW w \in Workers, pc[w] \in {"deliver", "settle", "dsn"}, cur[w].job = j
        PROVE  /\ buf'[w][1] = i /\ pc'[w] # "ack"
               /\ ~(pc'[w] = "settle" /\ cur'[w].res = "ok")
    <2>1. buf'[w][1] = i
      BY <1>2, <1>3, HolderKept
    <2> QED
      BY <2>1 DEF Live, Spent
  <1>4. sent'[j] = 0 /\ dsn'[j] = 0
    BY <1>0, <1>1, <1>3, Touch
  <1>5. ASSUME \A w \in Workers : pc'[w] \in Failing => buf'[w][1] # i
        PROVE  blob'[j]
    <2>1. \A w \in Workers : pc[w] \in Failing => buf[w][1] # i
      <3> SUFFICES ASSUME NEW w \in Workers, pc[w] \in Failing, buf[w][1] = i
                   PROVE  FALSE
        OBVIOUS
      <3>1. pc[w] # "idle"
        BY DEF Failing
      <3>2. pc'[w] \in Failing /\ buf'[w][1] = i
        BY <3>1, HolderKept
      <3> QED
        BY <1>5, <3>2
    <2>2. blob[j]
      BY <1>0, <2>1 DEF LiveInv
    <2>3. blob'[j] = blob[j]
      <3> SUFFICES ASSUME NEW w \in Workers, cur[w].job = j, pc[w] = "settle", pc'[w] \in {"bounce", "ack"}
                   PROVE  FALSE
        BY <1>0, Touch
      <3>1. buf'[w][1] = i /\ pc'[w] # "ack"
        BY <1>3
      <3> QED
        BY <1>5, <3>1 DEF Failing
    <2> QED
      BY <2>2, <2>3
  <1>6. ASSUME \A w \in Workers : Refusing(w)' => buf'[w][1] # i
        PROVE  j \notin rejected'
    <2>1. \A w \in Workers : Refusing(w) => buf[w][1] # i
      <3> SUFFICES ASSUME NEW w \in Workers, Refusing(w), buf[w][1] = i
                   PROVE  FALSE
        OBVIOUS
      <3>1. pc[w] # "idle"
        BY DEF Failing, Refusing
      <3>2. Refusing(w)' /\ buf'[w][1] = i
        BY <3>1, HolderKept
      <3> QED
        BY <1>6, <3>2
    <2>2. j \notin rejected
      BY <1>0, <2>1 DEF LiveInv
    <2>3. j \in rejected' => j \in rejected
      <3> SUFFICES ASSUME NEW w \in Workers, cur[w].job = j, pc[w] = "deliver", pc'[w] = "settle", cur'[w].res = "perm"
                   PROVE  FALSE
        BY <1>0, Touch
      <3>1. buf'[w][1] = i
        BY <1>3
      <3> QED
        BY <1>6, <3>1 DEF Refusing
    <2> QED
      BY <2>2, <2>3
  <1> QED
    BY <1>4, <1>5, <1>6

LEMMA LiveStep ==
    ASSUME Base, OneInv, FreshInv, LiveInv, [Next]_vars
    PROVE  LiveInv'
  <1>0. TypeOK /\ CallbackInv
    BY DEF Base
  <1>1. \A w \in Workers : \A k \in DOMAIN timers'[w] : \A j : j = timers'[w][k].job => Untouched(j)'
    BY WaitingStep
  <1>2. ASSUME NEW w \in Workers, NEW k \in DOMAIN timers'[w]
        PROVE  LET j == timers'[w][k].job
               IN  sent'[j] = 0 /\ dsn'[j] = 0 /\ blob'[j] /\ j \notin rejected'
    BY <1>1 DEF Untouched
  <1>3. ASSUME NEW i \in DOMAIN queue', Live(i)'
        PROVE  LET j == queue'[i].job
               IN  /\ sent'[j] = 0 /\ dsn'[j] = 0
                   /\ (\A w \in Workers : pc'[w] \in Failing => buf'[w][1] # i) => blob'[j]
                   /\ (\A w \in Workers : Refusing(w)' => buf'[w][1] # i) => j \notin rejected'
    <2>1. CASE i \in DOMAIN queue
      <3>1. queue'[i].job = queue[i].job
        BY <1>0, <2>1, QueueKept
      <3> QED
        BY <1>3, <2>1, <3>1, LiveKept
    <2>2. ASSUME NEW j \in Jobs, Submit(j), queue'[i].job = j
          PROVE  sent'[j] = 0 /\ dsn'[j] = 0 /\ blob'[j] /\ j \notin rejected'
      BY <2>2 DEF Submit, FreshInv, Untouched, obsVars
    <2>3. ASSUME NEW w \in Workers, NEW k \in DOMAIN timers[w], Retry(w, k)
          PROVE  LET j == timers[w][k].job
                 IN  sent'[j] = 0 /\ dsn'[j] = 0 /\ blob'[j] /\ j \notin rejected'
      BY <2>3 DEF Retry, LiveInv, Untouched
    <2> QED
      BY <1>0, <2>1, <2>2, <2>3, NewMessage
  <1>4. \A w \in Workers : pc'[w] \in {"send", "deliver", "settle"} => cur'[w].att
    BY AttachedStep
  <1> QED
    BY <1>2, <1>3, <1>4 DEF LiveInv, Untouched

(* Delivered or bounced, once, and whole.                                  *)
LEMMA OnceStep ==
    ASSUME Base, LiveInv, DeliveredOnceWhole, [Next]_vars
    PROVE  DeliveredOnceWhole'
  <1>0. TypeOK /\ sent \in [Jobs -> Nat] /\ dsn \in [Jobs -> Nat]
    BY DEF Base, TypeOK
  <1>1. ASSUME NEW j \in Jobs
        PROVE  sent'[j] + dsn'[j] <= 1
    <2>1. ASSUME NEW w \in Workers, pc[w] \in {"deliver", "dsn"}, cur[w].job = j
          PROVE  sent[j] = 0 /\ dsn[j] = 0
      <3>1. buf[w][1] \in DOMAIN queue /\ Live(buf[w][1]) /\ queue[buf[w][1]].job = cur[w].job
        BY <2>1, LiveHand
      <3> QED
        BY <2>1, <3>1 DEF LiveInv
    <2>2. sent[j] \in Nat /\ dsn[j] \in Nat /\ sent[j] + dsn[j] <= 1
      BY <1>0 DEF DeliveredOnceWhole
    <2>3. \/ sent'[j] = sent[j] /\ dsn'[j] = dsn[j]
          \/ sent[j] = 0 /\ dsn[j] = 0 /\ sent'[j] = 1 /\ dsn'[j] = 0
          \/ sent[j] = 0 /\ dsn[j] = 0 /\ sent'[j] = 0 /\ dsn'[j] = 1
      BY <2>1, <2>2, Touch
    <2> QED
      BY <2>2, <2>3
  <1>2. ASSUME NEW w \in Workers, Deliver(w)
        PROVE  bare' = bare
    <2>1. cur[w].att
      BY <1>2 DEF Deliver, At, LiveInv
    <2>2. ~Happens("fault")
      BY <1>0, NothingHappens DEF Base
    <2> QED
      BY <1>2, <2>1, <2>2 DEF Deliver, Accepted
  <1>3. ASSUME NEW w \in Workers, Callback(w), ~Deliver(w)
        PROVE  bare' = bare
    BY <1>3 DEF Callback, Take, Fetch, Connect, Settle, InsertBounce, CountBounce, FreezeForAbuse, PublishDsn,
       Ack, obsVars
  <1>4. ASSUME \/ \E k \in Jobs : Submit(k)
               \/ \E s \in Senders : ResetBounces(s)
               \/ \E w \in Workers, i \in DOMAIN queue : Pull(w, i)
               \/ \E w \in Workers : \E k \in DOMAIN timers[w] : Retry(w, k)
               \/ \E w \in Workers, s \in Senders : BounceWindow(w, s)
               \/ UNCHANGED vars
        PROVE  bare' = bare
    BY <1>4 DEF Submit, ResetBounces, Pull, Retry, BounceWindow, obsVars, vars
  <1>5. bare' = bare
    BY <1>2, <1>3, <1>4, SteadyNext
  <1> QED
    BY <1>1, <1>5 DEF DeliveredOnceWhole

(* The last attempt deletes the blob.                                      *)
LEMMA Reclaimed ==
    ASSUME Base, LiveInv, NEW w \in Workers, Settle(w), tmpBlobsTerminal(cur[w].res, cur[w].n),
           NEW j, j = cur[w].job
    PROVE  ~blob'[j]
  <1>1. cur[w].att /\ phase[w] = "up" /\ cur[w].job \in Jobs /\ blob \in [Jobs -> BOOLEAN]
    BY CurType DEF Settle, At, LiveInv, Base, OwnInv, TypeOK
  <1>2. blob' = [blob EXCEPT ![cur[w].job] =
                   @ /\ ~(tmpBlobsTerminal(cur[w].res, cur[w].n) /\ cur[w].att /\ phase[w] = "up")]
    BY DEF Settle
  <1> QED
    BY <1>1, <1>2

(* While no process ends, a bounce is all that is suppressed.              *)
LEMMA Suppressed ==
    ASSUME Base, [Next]_vars
    PROVE  lost' = lost \/ \E w \in Workers : pc[w] = "bounce" /\ lost' = lost \cup {<<cur[w].job, "bounce limited">>}
  <1>1. ~Happens("fault") /\ TypeOK /\ \A w \in Workers : phase[w] = "up"
    BY NothingHappens DEF Base, OwnInv
  <1>2. ASSUME NEW w \in Workers, Take(w)
        PROVE  lost' = lost
    <2>1. Head(buf[w]) \in DOMAIN queue
      BY <1>1, <1>2, TailFacts DEF Take, TypeOK
    <2>2. ~queue[Head(buf[w])].old
      BY <2>1 DEF Base, OwnInv
    <2> QED
      BY <1>2, <2>2 DEF Take
  <1>3. ASSUME NEW w \in Workers, InsertBounce(w)
        PROVE  lost' = lost \/ (pc[w] = "bounce" /\ lost' = lost \cup {<<cur[w].job, "bounce limited">>})
    BY <1>1, <1>3 DEF InsertBounce, At
  <1>4. ASSUME NEW w \in Workers, Callback(w), ~Take(w), ~InsertBounce(w)
        PROVE  lost' = lost
    BY <1>1, <1>4 DEF Callback, Fetch, Connect, Deliver, Settle, CountBounce, FreezeForAbuse, PublishDsn, Ack, obsVars
  <1>5. ASSUME NEW w \in Workers, NEW k \in DOMAIN timers[w], Retry(w, k)
        PROVE  lost' = lost
    BY <1>1, <1>5 DEF Retry
  <1>6. ASSUME \/ \E k \in Jobs : Submit(k)
               \/ \E s \in Senders : ResetBounces(s)
               \/ \E w \in Workers, i \in DOMAIN queue : Pull(w, i)
               \/ \E w \in Workers, s \in Senders : BounceWindow(w, s)
               \/ UNCHANGED vars
        PROVE  lost' = lost
    BY <1>6 DEF Submit, ResetBounces, Pull, BounceWindow, obsVars, vars
  <1> QED
    BY <1>2, <1>3, <1>4, <1>5, <1>6, SteadyNext

LEMMA ReclaimStep ==
    ASSUME Base, LiveInv, ReclaimInv, [Next]_vars
    PROVE  ReclaimInv'
  <1>0. /\ TypeOK /\ CallbackInv /\ pc \in [Workers -> Points] /\ cur \in [Workers -> InHand]
        /\ sent \in [Jobs -> Nat] /\ dsn \in [Jobs -> Nat]
    BY DEF Base, TypeOK, Points, InHand
  <1>1. \A w \in Workers : ~Drained(w) /\ ~Crash(w)
    BY <1>0, NothingHappens DEF Base, OwnInv, Drained, Crash
  <1>2. \A j \in Jobs : ~blob[j] => ~blob'[j]
    BY Touch
  <1>3. ASSUME NEW j \in Jobs, sent'[j] > 0
        PROVE  ~blob'[j] \/ \E w \in Workers : pc'[w] = "settle" /\ cur'[w].res = "ok" /\ cur'[w].job = j
    <2>1. CASE sent[j] > 0
      <3>1. CASE ~blob[j]
        BY <1>2, <3>1
      <3>2. ASSUME NEW w \in Workers, pc[w] = "settle", cur[w].res = "ok", cur[w].job = j
            PROVE  ~blob'[j] \/ (pc'[w] = "settle" /\ cur'[w].res = "ok" /\ cur'[w].job = j)
        <4>1. CASE ~Callback(w)
          BY <1>0, <1>1, <3>2, <4>1, Others
        <4>2. CASE Callback(w)
          <5>1. Settle(w)
            BY <3>2, <4>2 DEF Callback, Take, Fetch, Connect, Deliver, InsertBounce, CountBounce, FreezeForAbuse,
               PublishDsn, Ack, At
          <5>2. tmpBlobsTerminal(cur[w].res, cur[w].n)
            BY <3>2 DEF tmpBlobsTerminal
          <5> QED
            BY <3>2, <5>1, <5>2, Reclaimed
        <4> QED
          BY <4>1, <4>2
      <3> QED
        BY <2>1, <3>1, <3>2 DEF ReclaimInv
    <2>2. CASE ~(sent[j] > 0)
      <3>1. sent'[j] # sent[j]
        BY <1>0, <1>3, <2>2
      <3>2. PICK w \in Workers : Deliver(w) /\ cur[w].job = j /\ pc[w] = "deliver" /\ pc'[w] = "settle" /\ cur'[w].res = "ok"
        BY <3>1, Touch
      <3>3. cur'[w].job = cur[w].job
        BY <3>2, SteadyCallback DEF Callback, Ack, At
      <3> QED
        BY <3>2, <3>3
    <2> QED
      BY <2>1, <2>2
  <1>4. ASSUME NEW j \in Jobs, dsn'[j] > 0
        PROVE  ~blob'[j]
    <2>1. CASE dsn[j] > 0
      BY <1>2, <2>1 DEF ReclaimInv
    <2>2. CASE ~(dsn[j] > 0)
      <3>1. dsn'[j] # dsn[j]
        BY <1>0, <1>4, <2>2
      <3>2. PICK w \in Workers : cur[w].job = j /\ pc[w] = "dsn"
        BY <3>1, Touch
      <3> QED
        BY <1>2, <3>2 DEF ReclaimInv, Failing
    <2> QED
      BY <2>1, <2>2
  <1>5. ASSUME NEW j \in Jobs, LostOf(j)' # {}
        PROVE  ~blob'[j]
    <2>1. PICK x \in lost' : x[1] = j
      BY <1>5 DEF LostOf
    <2>2. CASE x \in lost
      <3>1. LostOf(j) # {}
        BY <2>1, <2>2 DEF LostOf
      <3> QED
        BY <1>2, <3>1 DEF ReclaimInv
    <2>3. CASE x \notin lost
      <3>1. PICK w \in Workers : pc[w] = "bounce" /\ x = <<cur[w].job, "bounce limited">>
        BY <2>3, Suppressed
      <3>2. cur[w].job = j
        BY <2>1, <3>1
      <3> QED
        BY <1>2, <3>1, <3>2 DEF ReclaimInv, Failing
    <2> QED
      BY <2>2, <2>3
  <1>6. ASSUME NEW w \in Workers, pc'[w] \in Failing
        PROVE  \A j : j = cur'[w].job => ~blob'[j]
    <2>0. cur[w].job \in Jobs
      BY <1>0, CurType
    <2>1. CASE ~Callback(w)
      <3>1. pc'[w] = pc[w] /\ cur'[w] = cur[w]
        BY <1>0, <1>1, <2>1, Others
      <3> QED
        BY <1>2, <1>6, <2>0, <3>1 DEF ReclaimInv
    <2>2. CASE Callback(w) /\ pc[w] \in Failing
      <3>1. cur'[w].job = cur[w].job
        BY <2>2, SteadyCallback DEF Failing, Ack, At
      <3> QED
        BY <1>2, <2>0, <2>2, <3>1 DEF ReclaimInv
    <2>3. CASE Settle(w)
      <3>1. pc'[w] = "bounce" /\ UNCHANGED cur
        BY <1>0, <1>6, <2>3 DEF Settle, ScheduleRetry, Goto, Failing
      <3>2. cur[w].res = "perm" \/ OutOfRetries(cur[w].n)
        BY <1>0, <2>3, <3>1 DEF Settle, ScheduleRetry, Goto
      <3>3. tmpBlobsTerminal(cur[w].res, cur[w].n)
        BY <3>2 DEF tmpBlobsTerminal, OutOfRetries
      <3> QED
        BY <2>3, <3>1, <3>3, Reclaimed
    <2>4. CASE Take(w) \/ Fetch(w) \/ Connect(w) \/ Deliver(w) \/ Ack(w)
      <3>1. pc'[w] \notin Failing
        <4>1. CASE Take(w)
          BY <4>1, SteadyCallback DEF Callback, Failing
        <4>2. CASE Fetch(w) \/ Connect(w) \/ Deliver(w) \/ Ack(w)
          BY <1>0, <4>2 DEF Fetch, Connect, Deliver, NextHost, Ack, Goto, At, Failing
        <4> QED
          BY <2>4, <4>1, <4>2
      <3> QED
        BY <1>6, <3>1
    <2> QED
      BY <2>1, <2>2, <2>3, <2>4 DEF Callback, InsertBounce, CountBounce, FreezeForAbuse, PublishDsn, At, Failing
  <1>7. ASSUME NEW w \in Workers, pc'[w] \in Failing
        PROVE  ~blob'[cur'[w].job]
    BY <1>6, <1>7
  <1> QED
    BY <1>3, <1>4, <1>5, <1>7 DEF ReclaimInv

(* The blob of a settled message is gone.                                  *)
LEMMA SettledIsReclaimed ==
    ASSUME TypeOK, NothingForgotten, ReclaimInv
    PROVE  BlobsReclaimed
  <1> SUFFICES ASSUME NEW j \in Queued, ~Pending(j)
               PROVE  ~blob[j]
    BY DEF BlobsReclaimed
  <1>1. j \in Jobs
    BY MessageType DEF Queued
  <1>2. \A w \in Workers : ~(pc[w] = "settle" /\ cur[w].job = j)
    BY DEF Pending
  <1> QED
    BY <1>1, <1>2 DEF NothingForgotten, ReclaimInv

(* Refusals add up; one that is counted stays counted.                     *)
LEMMA RefusedGrows ==
    ASSUME Base, OneInv, LiveInv, CountInv, [Next]_vars
    PROVE  /\ rejected \subseteq rejected' /\ IsFiniteSet(rejected')
           /\ \A x \in rejected : x \notin Uncounted => x \notin Uncounted'
  <1>0. TypeOK /\ CallbackInv /\ pc \in [Workers -> Points]
    BY DEF Base, TypeOK, Points
  <1>1. rejected \subseteq rejected'
    BY <1>0, ObservedKept
  <1>2. IsFiniteSet(rejected')
    <2>1. ASSUME NEW w \in Workers, Deliver(w)
          PROVE  rejected' = rejected \/ rejected' = rejected \cup {cur[w].job}
      BY <2>1 DEF Deliver
    <2>2. ASSUME NEW w \in Workers, Callback(w), ~Deliver(w)
          PROVE  rejected' = rejected
      BY <2>2 DEF Callback, Take, Fetch, Connect, Settle, InsertBounce, CountBounce, FreezeForAbuse, PublishDsn,
         Ack, obsVars
    <2>3. ASSUME \/ \E k \in Jobs : Submit(k)
                 \/ \E s \in Senders : ResetBounces(s)
                 \/ \E w \in Workers, i \in DOMAIN queue : Pull(w, i)
                 \/ \E w \in Workers : \E k \in DOMAIN timers[w] : Retry(w, k)
                 \/ \E w \in Workers, s \in Senders : BounceWindow(w, s)
                 \/ UNCHANGED vars
          PROVE  rejected' = rejected
      BY <2>3 DEF Submit, ResetBounces, Pull, Retry, BounceWindow, obsVars, vars
    <2>4. rejected' = rejected \/ \E x : rejected' = rejected \cup {x}
      BY <2>1, <2>2, <2>3, SteadyNext
    <2> QED
      BY <2>4, FS_AddElement DEF CountInv
  <1>3. ASSUME NEW x \in rejected, x \notin Uncounted, NEW w \in Workers,
               pc'[w] \in {"settle", "bounce", "count"}, cur'[w].job = x
        PROVE  FALSE
    <2>1. CASE ~Callback(w)
      <3>1. ~Drained(w) /\ ~Crash(w)
        BY <1>0, NothingHappens DEF Base, OwnInv, Drained, Crash
      <3>2. pc'[w] = pc[w] /\ cur'[w] = cur[w]
        BY <1>0, <2>1, <3>1, Others
      <3> QED
        BY <1>3, <3>2 DEF Uncounted
    <2>2. CASE Callback(w) /\ pc[w] \in {"settle", "bounce", "count"}
      <3>1. cur'[w].job = cur[w].job
        BY <2>2, SteadyCallback DEF Ack, At
      <3> QED
        BY <1>3, <2>2, <3>1 DEF Uncounted
    <2>3. CASE Deliver(w)
      <3>1. pc[w] = "deliver" /\ cur'[w].job = cur[w].job
        BY <2>3, SteadyCallback DEF Callback, Deliver, Ack, At
      <3>2. buf[w][1] \in DOMAIN queue /\ Live(buf[w][1]) /\ queue[buf[w][1]].job = cur[w].job
        BY <3>1, LiveHand
      <3>3. \A v \in Workers : Refusing(v) => buf[v][1] # buf[w][1]
        BY <3>1, Holder DEF Failing, Refusing
      <3> QED
        BY <1>3, <3>1, <3>2, <3>3 DEF LiveInv
    <2>4. CASE Take(w) \/ Fetch(w) \/ Connect(w) \/ FreezeForAbuse(w) \/ PublishDsn(w) \/ Ack(w)
      <3>1. phase[w] = "up"
        BY DEF Base, OwnInv
      <3>2. CASE Take(w)
        BY <1>3, <3>2, SteadyCallback DEF Callback
      <3>3. CASE Fetch(w) \/ Connect(w) \/ FreezeForAbuse(w) \/ PublishDsn(w) \/ Ack(w)
        BY <1>0, <1>3, <3>1, <3>3 DEF Fetch, Connect, FreezeForAbuse, PublishDsn, Ack, Goto
      <3> QED
        BY <2>4, <3>2, <3>3
    <2> QED
      BY <2>1, <2>2, <2>3, <2>4 DEF Callback, Settle, InsertBounce, CountBounce, At
  <1> QED
    BY <1>1, <1>2, <1>3 DEF Uncounted

(* What IncrementBounces counts was not counted before.                    *)
LEMMA CountedOnce ==
    ASSUME Base, OneInv, LiveInv, CountInv, [Next]_vars, NEW w \in Workers, CountBounce(w),
           NEW j, j = cur[w].job
    PROVE  j \in rejected /\ j \in Uncounted /\ j \notin Uncounted'
  <1>0. TypeOK /\ CallbackInv /\ pc \in [Workers -> Points] /\ pc[w] = "count"
    BY DEF Base, TypeOK, Points, CountBounce, At
  <1>1. j \in rejected /\ j \in Uncounted
    BY <1>0 DEF CountInv, CallbackInv, Uncounted
  <1>2. buf[w][1] \in DOMAIN queue /\ Live(buf[w][1]) /\ queue[buf[w][1]].job = j
    BY <1>0, LiveHand
  <1>3. sent[j] = 0
    BY <1>2 DEF LiveInv
  <1>4. ASSUME NEW v \in Workers, pc'[v] \in {"settle", "bounce", "count"}, cur'[v].job = j
        PROVE  FALSE
    <2>1. CASE v = w
      BY <1>0, <1>4, <2>1 DEF CountBounce, Goto
    <2>2. CASE v # w
      <3>1. pc[v] = pc'[v] /\ cur[v] = cur'[v]
        BY <1>0, <2>2, CallbackFrame DEF Callback
      <3>2. buf[v][1] \in DOMAIN queue /\ Live(buf[v][1]) /\ queue[buf[v][1]].job = j
        BY <1>3, <1>4, <3>1, LiveHand
      <3>3. buf[v][1] = buf[w][1]
        BY <1>2, <3>2 DEF OneInv
      <3> QED
        BY <1>0, <1>4, <2>2, <3>1, <3>3, Holder
    <2> QED
      BY <2>1, <2>2
  <1> QED
    BY <1>1, <1>4 DEF Uncounted

LEMMA CountStep ==
    ASSUME Base, OneInv, LiveInv, CountInv, [Next]_vars
    PROVE  CountInv'
  <1>0. /\ TypeOK /\ CallbackInv /\ pc \in [Workers -> Points] /\ recent \in [Senders -> Nat]
        /\ status \in [Senders -> {"active", "suspended"}]
    BY DEF Base, TypeOK, Points
  <1>1. /\ rejected \subseteq rejected' /\ IsFiniteSet(rejected) /\ IsFiniteSet(rejected')
        /\ \A x \in rejected : x \notin Uncounted => x \notin Uncounted'
    BY RefusedGrows DEF CountInv
  <1>2. ASSUME NEW s
        PROVE  /\ IsFiniteSet(Refused(s)) /\ IsFiniteSet(Refused(s)') /\ Cardinality(Refused(s)) <= Cardinality(Refused(s)')
               /\ Cardinality(Refused(s)) \in Nat /\ Cardinality(Refused(s)') \in Nat
    <2>1. Refused(s) \in SUBSET rejected /\ Refused(s)' \in SUBSET rejected' /\ Refused(s) \in SUBSET Refused(s)'
      BY <1>1 DEF Refused
    <2>2. IsFiniteSet(Refused(s)) /\ IsFiniteSet(Refused(s)')
      BY <1>1, <2>1, FS_Subset
    <2> QED
      BY <2>1, <2>2, FS_Subset, FS_CardinalityType
  <1>3. ASSUME NEW s
        PROVE  /\ IsFiniteSet(Refused(s) \ Uncounted) /\ IsFiniteSet((Refused(s) \ Uncounted)')
               /\ (Refused(s) \ Uncounted) \subseteq (Refused(s) \ Uncounted)'
               /\ Cardinality(Refused(s) \ Uncounted) <= Cardinality((Refused(s) \ Uncounted)')
               /\ Cardinality((Refused(s) \ Uncounted)') <= Cardinality(Refused(s)')
               /\ Cardinality(Refused(s) \ Uncounted) \in Nat /\ Cardinality((Refused(s) \ Uncounted)') \in Nat
    <2>1. (Refused(s) \ Uncounted) \subseteq (Refused(s) \ Uncounted)'
      BY <1>1 DEF Refused
    <2>2. Refused(s) \ Uncounted \in SUBSET Refused(s) /\ (Refused(s) \ Uncounted)' \in SUBSET Refused(s)'
      OBVIOUS
    <2>3. IsFiniteSet(Refused(s) \ Uncounted) /\ IsFiniteSet((Refused(s) \ Uncounted)')
          /\ Cardinality((Refused(s) \ Uncounted)') <= Cardinality(Refused(s)')
      BY <1>2, <2>2, FS_Subset
    <2> QED
      BY <2>1, <2>3, FS_Subset, FS_CardinalityType
  <1>4. ASSUME NEW s \in Senders
        PROVE  recent'[s] <= Cardinality((Refused(s) \ Uncounted)')
    <2>0. recent[s] \in Nat /\ recent[s] <= Cardinality(Refused(s) \ Uncounted)
      BY <1>0 DEF CountInv
    <2>a. PICK c : c = Cardinality(Refused(s) \ Uncounted)
      OBVIOUS
    <2>b. PICK d : d = Cardinality((Refused(s) \ Uncounted)')
      OBVIOUS
    <2>c. c <= d /\ c \in Nat /\ d \in Nat
      BY <1>3, <2>a, <2>b, Zenon
    <2>1. CASE recent'[s] = recent[s]
      BY <2>0, <2>1, <2>a, <2>b, <2>c
    <2>2. CASE recent'[s] = 0
      BY <2>2, <2>b, <2>c
    <2>3. ASSUME NEW w \in Workers, CountBounce(w), recent'[s] # recent[s]
          PROVE  recent'[s] <= Cardinality((Refused(s) \ Uncounted)')
      <3>0. PICK j : j = cur[w].job
        OBVIOUS
      <3>1. recent' = [recent EXCEPT ![From[j]] = @ + 1]
        BY <2>3, <3>0 DEF CountBounce
      <3>2. s = From[j] /\ recent'[s] = recent[s] + 1
        BY <1>0, <2>3, <3>1
      <3>3. j \in rejected /\ j \in Uncounted /\ j \notin Uncounted'
        BY <2>3, <3>0, CountedOnce
      <3>4. PICK S : S = Refused(s) \ Uncounted
        OBVIOUS
      <3>5. PICK T : T = (Refused(s) \ Uncounted)'
        OBVIOUS
      <3>6. j \notin S /\ S \subseteq T /\ j \in T
        BY <1>1, <1>3, <3>2, <3>3, <3>4, <3>5 DEF Refused
      <3>7. IsFiniteSet(S) /\ IsFiniteSet(T) /\ Cardinality(S) \in Nat /\ Cardinality(T) \in Nat
        BY <1>3, <3>4, <3>5
      <3>8. Cardinality(S \cup {j}) = Cardinality(S) + 1
        BY <3>6, <3>7, FS_AddElement
      <3>9. S \cup {j} \in SUBSET T
        BY <3>6
      <3>10. Cardinality(S) + 1 <= Cardinality(T)
        BY <3>7, <3>8, <3>9, FS_Subset
      <3> QED
        BY <2>0, <3>2, <3>4, <3>5, <3>7, <3>10
    <2>4. ASSUME NEW r \in Senders, ResetBounces(r)
          PROVE  recent'[s] = recent[s] \/ recent'[s] = 0
      BY <1>0, <2>4 DEF ResetBounces
    <2>5. ASSUME NEW w \in Workers, Callback(w), ~CountBounce(w)
          PROVE  recent' = recent
      BY <2>5 DEF Callback, Take, Fetch, Connect, Deliver, Settle, InsertBounce, FreezeForAbuse, PublishDsn,
         Ack, queueVars
    <2>6. ASSUME \/ \E k \in Jobs : Submit(k)
                 \/ \E w \in Workers, i \in DOMAIN queue : Pull(w, i)
                 \/ \E w \in Workers : \E k \in DOMAIN timers[w] : Retry(w, k)
                 \/ \E w \in Workers, r \in Senders : BounceWindow(w, r)
                 \/ UNCHANGED vars
          PROVE  recent' = recent
      BY <2>6 DEF Submit, Pull, Retry, BounceWindow, queueVars, vars
    <2> QED
      BY <2>1, <2>2, <2>3, <2>4, <2>5, <2>6, SteadyNext
  <1>5. ASSUME NEW w \in Workers, ~Callback(w)
        PROVE  pc'[w] = pc[w] /\ cur'[w] = cur[w]
    <2>1. ~Drained(w) /\ ~Crash(w)
      BY <1>0, NothingHappens DEF Base, OwnInv, Drained, Crash
    <2> QED
      BY <1>0, <1>5, <2>1, Others
  <1>6. ASSUME NEW w \in Workers, Callback(w), pc'[w] \in {"count", "freeze"}
        PROVE  /\ pc[w] \in {"bounce", "count"} /\ UNCHANGED cur /\ cur[w].res = "perm"
               /\ pc'[w] = "freeze" => CountBounce(w)
    <2>1. CASE Take(w)
      BY <1>6, <2>1, SteadyCallback
    <2>2. CASE InsertBounce(w)
      BY <1>0, <1>6, <2>2 DEF InsertBounce, At, Goto
    <2>3. CASE CountBounce(w)
      BY <1>0, <1>6, <2>3 DEF CountBounce, At, Goto, CountInv
    <2>4. CASE Fetch(w) \/ Connect(w) \/ Deliver(w) \/ Settle(w) \/ FreezeForAbuse(w) \/ PublishDsn(w) \/ Ack(w)
      BY <1>0, <1>6, <2>4 DEF Fetch, Connect, Deliver, NextHost, Settle, ScheduleRetry, FreezeForAbuse,
         PublishDsn, Ack, At, Goto
    <2> QED
      BY <1>6, <2>1, <2>2, <2>3, <2>4 DEF Callback
  <1>7. ASSUME NEW w \in Workers, pc'[w] \in {"count", "freeze"}
        PROVE  cur'[w].res = "perm"
    BY <1>5, <1>6, <1>7 DEF CountInv
  <1>8. ASSUME NEW w \in Workers, pc'[w] = "freeze", NEW s, s = From[cur'[w].job]
        PROVE  Cardinality(Refused(s)') >= FreezeThreshold
    <2>1. CASE ~Callback(w)
      <3>1. pc[w] = "freeze" /\ s = From[cur[w].job]
        BY <1>5, <1>8, <2>1
      <3>2. Cardinality(Refused(s)) >= FreezeThreshold
        BY <3>1 DEF CountInv
      <3> QED
        BY <1>2, <3>2
    <2>2. CASE Callback(w)
      <3>1. CountBounce(w) /\ UNCHANGED cur /\ phase[w] = "up"
        BY <1>6, <1>8, <2>2 DEF Base, OwnInv
      <3>2. cur[w].job \in Jobs /\ s = From[cur[w].job] /\ s \in Senders
        BY <1>0, <1>8, <3>1, CurType DEF Senders
      <3>3. recent'[s] >= FreezeThreshold
        BY <1>0, <1>8, <3>1, <3>2 DEF CountBounce, Goto
      <3>4. recent'[s] <= Cardinality((Refused(s) \ Uncounted)') /\ recent'[s] \in Nat
        BY <1>0, <1>4, <3>2, TypeStep DEF TypeOK
      <3>5. PICK c : c = Cardinality((Refused(s) \ Uncounted)')
        OBVIOUS
      <3>6. PICK d : d = Cardinality(Refused(s)')
        OBVIOUS
      <3>7. c <= d /\ c \in Nat /\ d \in Nat
        BY <1>2, <1>3, <3>5, <3>6, Zenon
      <3>8. d >= FreezeThreshold
        BY <3>3, <3>4, <3>5, <3>7
      <3> QED
        BY <3>6, <3>8
    <2> QED
      BY <2>1, <2>2
  <1>9. ASSUME NEW s \in Senders, status'[s] = "suspended"
        PROVE  Cardinality(Refused(s)') >= FreezeThreshold
    <2>1. CASE status[s] = "suspended"
      <3>1. Cardinality(Refused(s)) >= FreezeThreshold
        BY <2>1 DEF CountInv, FrozenForCause, Refused
      <3> QED
        BY <1>2, <3>1
    <2>2. ASSUME NEW w \in Workers, FreezeForAbuse(w), status'[s] # status[s]
          PROVE  Cardinality(Refused(s)) >= FreezeThreshold
      <3>1. pc[w] = "freeze" /\ status' = [status EXCEPT ![From[cur[w].job]] = "suspended"]
        BY <2>2 DEF FreezeForAbuse, At
      <3>2. s = From[cur[w].job]
        BY <1>0, <2>2, <3>1
      <3> QED
        BY <3>1, <3>2 DEF CountInv
    <2>3. ASSUME NEW w \in Workers, Callback(w), ~FreezeForAbuse(w)
          PROVE  status' = status
      BY <2>3 DEF Callback, Take, Fetch, Connect, Deliver, Settle, InsertBounce, CountBounce, PublishDsn,
         Ack, queueVars
    <2>4. ASSUME \/ \E k \in Jobs : Submit(k)
                 \/ \E r \in Senders : ResetBounces(r)
                 \/ \E w \in Workers, i \in DOMAIN queue : Pull(w, i)
                 \/ \E w \in Workers : \E k \in DOMAIN timers[w] : Retry(w, k)
                 \/ \E w \in Workers, r \in Senders : BounceWindow(w, r)
                 \/ UNCHANGED vars
          PROVE  status' = status
      BY <2>4 DEF Submit, ResetBounces, Pull, Retry, BounceWindow, queueVars, vars
    <2> QED
      BY <1>2, <1>9, <2>1, <2>2, <2>3, <2>4, SteadyNext
  <1>10. FrozenForCause'
    BY <1>9 DEF FrozenForCause, Refused
  <1>11. ASSUME NEW w \in Workers, pc'[w] = "freeze"
         PROVE  Cardinality(Refused(From[cur[w].job])') >= FreezeThreshold
    <2>1. PICK s : s = From[cur'[w].job]
      OBVIOUS
    <2>2. Cardinality(Refused(s)') >= FreezeThreshold
      BY <1>8, <1>11, <2>1
    <2> QED
      BY <2>1, <2>2 DEF Refused
  <1> QED
    BY <1>1, <1>4, <1>7, <1>10, <1>11 DEF CountInv

-----------------------------------------------------------------------------

SteadyParts == OwnInv /\ OneInv /\ FreshInv /\ LiveInv /\ ReclaimInv /\ CountInv /\ DeliveredOnceWhole

LEMMA SteadyInit == Init => SteadyParts
  <1> SUFFICES ASSUME Init
               PROVE  SteadyParts
    OBVIOUS
  <1>1. OwnInv /\ OneInv
    BY DEF Init, OwnInv, OneInv
  <1>2. FreshInv /\ LiveInv
    BY DEF Init, FreshInv, LiveInv, Untouched
  <1>3. ReclaimInv
    BY DEF Init, ReclaimInv, LostOf, Failing
  <1>4. CountInv
    <2>1. \A s \in Senders : Refused(s) \ Uncounted = {} /\ recent[s] = 0
      BY DEF Init, Refused
    <2>2. \A s \in Senders : recent[s] <= Cardinality(Refused(s) \ Uncounted)
      BY <2>1, FS_EmptySet
    <2> QED
      BY <2>2, FS_EmptySet DEF Init, CountInv, FrozenForCause
  <1>5. DeliveredOnceWhole
    BY DEF Init, DeliveredOnceWhole
  <1> QED
    BY <1>1, <1>2, <1>3, <1>4, <1>5 DEF SteadyParts

LEMMA SteadyStep ==
    ASSUME Steady, TypeOK, CallbackInv, SteadyParts, [Next]_vars
    PROVE  SteadyParts'
  <1>1. Base
    BY DEF Base, SteadyParts
  <1> QED
    BY <1>1, OwnStep, OneStep, FreshStep, LiveStep, ReclaimStep, CountStep, OnceStep DEF SteadyParts

(* While no message is redelivered and no process ends, what holds of the  *)
(* messages, their retries, their blobs and the bounce counters.           *)
THEOREM SteadyInvariant == Steady => (Spec => []SteadyParts)
  <1> SUFFICES ASSUME Steady
               PROVE  Spec => []SteadyParts
    OBVIOUS
  <1>1. TypeOK /\ CallbackInv /\ SteadyParts /\ [Next]_vars => SteadyParts'
    BY SteadyStep
  <1> QED
    BY <1>1, SteadyInit, TypeCorrect, PTL DEF Spec

(* A message whose deliveries are not repeated reaches its recipient once  *)
(* at most, with its attachments, and is not bounced as well: an attempt   *)
(* and its retry are never live together.                                  *)
THEOREM DeliveredOnceAndWhole == Steady => (Spec => []DeliveredOnceWhole)
  <1>1. SteadyParts => DeliveredOnceWhole
    BY DEF SteadyParts
  <1> QED
    BY <1>1, SteadyInvariant, PTL

(* An account is suspended only for FreezeThreshold different messages     *)
(* refused for good, and a settled message leaves no blob behind.          *)
THEOREM SuspendedAndReclaimedForCause == Steady => (Spec => []SteadyInv)
  <1>1. TypeOK /\ NothingForgotten /\ SteadyParts => SteadyInv
    BY SettledIsReclaimed DEF SteadyParts, SteadyInv, CountInv
  <1> QED
    BY <1>1, SteadyInvariant, TypeCorrect, NothingIsForgotten, PTL
=============================================================================
