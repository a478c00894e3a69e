--------------------------- MODULE ServicesProofs ---------------------------
(***************************************************************************)
(* Proofs about the three workers gathered in MCServices.  The inductive   *)
(* invariant of a worker is kept by its own steps; the steps of the other  *)
(* two leave its state alone.                                              *)
(***************************************************************************)
EXTENDS MCServices, TLAPS

-----------------------------------------------------------------------------
(* The signing batcher.                                                    *)

(* How many of the queued jobs have left the batch.                        *)
Answered == Len(order) - Len(queue) - Len(batch)

(* Of the jobs in the order they were queued, those after the first        *)
(* Answered make up the batch and then the channel; those signed are among *)
(* the first Answered.                                                     *)
JobsInOrder ==
    /\ Answered \in Nat
    /\ \A k \in 1..Len(queue) : queue[k] = order[Answered + Len(batch) + k]
    /\ \A k \in 1..Len(batch) : batch[k] = order[Answered + k]
    /\ \A i \in 1..Len(signed) : \E m \in 1..Answered : order[m] = signed[i]

(* A job is queued once.                                                   *)
QueuedOnce ==
    /\ \A i, k \in 1..Len(order) : order[i] = order[k] => i = k
    /\ \A c \in Callers : pc[c] = "start" => result[c] = "none" /\ \A i \in 1..Len(order) : order[i] # c

(* The result channel of a job that is not answered yet is empty.          *)
ChannelFree == \A i \in 1..Len(order) : i > Answered => result[order[i]] = "none"

BatInv ==
    /\ TypeOK /\ NoJobDropped /\ FirstInFirstOut
    /\ JobsInOrder /\ QueuedOnce /\ ChannelFree

(* The first job of a sequence and the others.                             *)
LEMMA HeadAndTail ==
    ASSUME NEW S, NEW s \in Seq(S), s # <<>>
    PROVE  /\ Len(s) \in Nat \ {0} /\ Head(s) = s[1] /\ s[1] \in S
           /\ Tail(s) \in Seq(S) /\ Len(Tail(s)) = Len(s) - 1
           /\ \A i \in 1..Len(Tail(s)) : Tail(s)[i] = s[i + 1]
  OBVIOUS

(* A job is put at the end of a sequence.                                  *)
LEMMA Appended ==
    ASSUME NEW S, NEW s \in Seq(S), NEW x \in S
    PROVE  /\ Append(s, x) \in Seq(S) /\ Len(Append(s, x)) = Len(s) + 1
           /\ \A i \in 1..Len(s) : Append(s, x)[i] = s[i]
           /\ Append(s, x)[Len(s) + 1] = x
  OBVIOUS

LEMMA SequenceDomain ==
    ASSUME NEW S, NEW s \in Seq(S)
    PROVE  /\ DOMAIN s = 1..Len(s) /\ Len(s) \in Nat
           /\ \A i \in 1..Len(s) : s[i] \in S
  OBVIOUS

LEMMA BatcherStart == Init => BatInv
  <1> SUFFICES ASSUME Init PROVE BatInv
    OBVIOUS
  <1>2. Len(queue) = 0 /\ Len(batch) = 0 /\ Len(order) = 0 /\ Len(signed) = 0
    BY DEF Init
  <1>1. TypeOK
    <2>1. {queue, batch, order, signed} \subseteq Seq(Callers)
      BY DEF Init
    <2>2. Len(queue) <= QueueSize /\ Len(batch) <= MaxBatch
      BY <1>2, BatcherAssumption
    <2>3. /\ pc \in [Callers -> {"start", "wait", "returned"}]
          /\ ret \in [Callers -> Outcomes] /\ result \in [Callers -> Outcomes]
      BY DEF Init, Outcomes
    <2> QED
      BY <2>1, <2>2, <2>3 DEF Init, TypeOK
  <1>3. JobsInOrder /\ QueuedOnce /\ ChannelFree
    BY <1>2 DEF JobsInOrder, QueuedOnce, ChannelFree, Answered, Init
  <1>4. NoJobDropped /\ FirstInFirstOut
    BY DEF Init, NoJobDropped, FirstInFirstOut
  <1> QED
    BY <1>1, <1>3, <1>4 DEF BatInv

(* A caller puts its job into the channel.                                 *)
LEMMA KeptByEnqueue ==
    ASSUME BatInv, NEW c \in Callers, Enqueue(c)
    PROVE  BatInv'
  <1> USE BatcherAssumption
  <1>1. /\ queue \in Seq(Callers) /\ batch \in Seq(Callers) /\ order \in Seq(Callers) /\ signed \in Seq(Callers)
        /\ pc \in [Callers -> {"start", "wait", "returned"}]
    BY DEF BatInv, TypeOK
  <1>2. UNCHANGED <<ret, result, cancelled, done, bpc, final, batch, signed>>
    BY DEF Enqueue, batcherVars
  <1>3. /\ queue' \in Seq(Callers) /\ Len(queue') = Len(queue) + 1
        /\ \A i \in 1..Len(queue) : queue'[i] = queue[i]
        /\ queue'[Len(queue) + 1] = c
    BY <1>1, Appended DEF Enqueue
  <1>4. /\ order' \in Seq(Callers) /\ Len(order') = Len(order) + 1
        /\ \A i \in 1..Len(order) : order'[i] = order[i]
        /\ order'[Len(order) + 1] = c
    BY <1>1, Appended DEF Enqueue
  <1>5. Len(queue) \in Nat /\ Len(batch) \in Nat /\ Len(order) \in Nat /\ Len(signed) \in Nat
    BY <1>1
  <1>6. Answered' = Answered /\ Answered \in Nat
    BY <1>2, <1>3, <1>4, <1>5 DEF Answered, BatInv, JobsInOrder
  <1>7. TypeOK'
    BY <1>2, <1>3, <1>4, <1>5 DEF BatInv, TypeOK, Enqueue
  <1>8. JobsInOrder'
    <2>1. \A k \in 1..Len(queue') : queue'[k] = order'[Answered + Len(batch) + k]
      <3> SUFFICES ASSUME NEW k \in 1..Len(queue') PROVE queue'[k] = order'[Answered + Len(batch) + k]
        OBVIOUS
      <3>1. CASE k = Len(queue) + 1
        <4>1. Answered + Len(batch) + k = Len(order) + 1
          BY <3>1, <1>5 DEF Answered
        <4> QED
          BY <3>1, <4>1, <1>3, <1>4
      <3>2. CASE k # Len(queue) + 1
        <4>1. k \in 1..Len(queue)
          BY <3>2, <1>3, <1>5
        <4>2. Answered + Len(batch) + k \in 1..Len(order)
          BY <4>1, <1>5, <1>6 DEF Answered
        <4> QED
          BY <4>1, <4>2, <1>3, <1>4 DEF BatInv, JobsInOrder
      <3> QED
        BY <3>1, <3>2
    <2>2. \A k \in 1..Len(batch) : batch[k] = order'[Answered + k]
      <3> SUFFICES ASSUME NEW k \in 1..Len(batch) PROVE batch[k] = order'[Answered + k]
        OBVIOUS
      <3>1. Answered + k \in 1..Len(order)
        BY <1>5, <1>6 DEF Answered
      <3> QED
        BY <3>1, <1>4 DEF BatInv, JobsInOrder
    <2>3. \A m \in 1..Answered : m \in 1..Len(order)
      BY <1>5, <1>6 DEF Answered
    <2>4. \A i \in 1..Len(signed) : \E m \in 1..Answered : order'[m] = signed[i]
      BY <2>3, <1>4 DEF BatInv, JobsInOrder
    <2> QED
      BY <2>1, <2>2, <2>4, <1>2, <1>6 DEF JobsInOrder
  <1>9. pc[c] = "start" /\ result[c] = "none" /\ \A i \in 1..Len(order) : order[i] # c
    BY DEF Enqueue, BatInv, QueuedOnce
  <1>10. QueuedOnce'
    <2>1. \A i \in 1..Len(order') : i \in 1..Len(order) \/ i = Len(order) + 1
      BY <1>4, <1>5
    <2>2. \A i, k \in 1..Len(order') : order'[i] = order'[k] => i = k
      BY <2>1, <1>4, <1>9 DEF BatInv, QueuedOnce
    <2>3. \A d \in Callers : pc'[d] = "start" => d # c /\ pc[d] = "start"
      BY <1>1 DEF Enqueue
    <2>4. \A d \in Callers : pc'[d] = "start" => result'[d] = "none" /\ \A i \in 1..Len(order') : order'[i] # d
      BY <2>1, <2>3, <1>2, <1>4 DEF BatInv, QueuedOnce
    <2> QED
      BY <2>2, <2>4 DEF QueuedOnce
  <1>11. ChannelFree'
    <2>1. \A i \in 1..Len(order') : i \in 1..Len(order) \/ i = Len(order) + 1
      BY <1>4, <1>5
    <2> QED
      BY <2>1, <1>2, <1>4, <1>6, <1>9 DEF BatInv, ChannelFree
  <1>12. NoJobDropped'
    <2>1. InSeq(c, queue)'
      <3>1. Len(queue) + 1 \in DOMAIN queue'
        BY <1>3, <1>5, SequenceDomain
      <3> QED
        BY <3>1, <1>3 DEF InSeq
    <2>2. \A d : InSeq(d, queue) => InSeq(d, queue')
      <3>1. DOMAIN queue = 1..Len(queue) /\ DOMAIN queue' = 1..(Len(queue) + 1)
        BY <1>1, <1>3, SequenceDomain
      <3>2. \A i \in DOMAIN queue : i \in DOMAIN queue' /\ queue'[i] = queue[i]
        BY <3>1, <1>3, <1>5
      <3> QED
        BY <3>2 DEF InSeq
    <2>3. \A d \in Callers : pc'[d] = "wait" => d = c \/ pc[d] = "wait"
      BY <1>1 DEF Enqueue
    <2> QED
      BY <2>1, <2>2, <2>3, <1>2 DEF BatInv, NoJobDropped, InSeq
  <1>13. FirstInFirstOut'
    <2>1. \A m \in DOMAIN order : m \in DOMAIN order' /\ order'[m] = order[m]
      BY <1>1, <1>4, <1>5, SequenceDomain
    <2> QED
      BY <2>1, <1>2 DEF BatInv, FirstInFirstOut
  <1> QED
    BY <1>7, <1>8, <1>10, <1>11, <1>12, <1>13 DEF BatInv

(* A caller gives up, receives its answer or is cancelled; the batcher is  *)
(* stopped or changes its phase: the jobs stay where they are.             *)
LEMMA KeptByCallers ==
    ASSUME BatInv, TypeOK', UNCHANGED <<queue, batch, order, signed>>,
           \A c \in Callers : /\ pc'[c] = "start" => pc[c] = "start"
                              /\ pc'[c] = "wait" => pc[c] = "wait" /\ result'[c] = result[c]
                              /\ result'[c] # result[c] => result'[c] = "none"
    PROVE  BatInv'
  <1>1. Answered' = Answered
    BY DEF Answered
  <1>2. JobsInOrder' /\ FirstInFirstOut'
    BY <1>1 DEF BatInv, JobsInOrder, FirstInFirstOut
  <1>3. QueuedOnce'
    BY DEF BatInv, QueuedOnce
  <1>4. NoJobDropped'
    BY DEF BatInv, NoJobDropped, InSeq
  <1>5. \A i \in 1..Len(order) : order[i] \in Callers
    BY DEF BatInv, TypeOK
  <1>6. ChannelFree'
    BY <1>1, <1>5 DEF BatInv, ChannelFree
  <1> QED
    BY <1>2, <1>3, <1>4, <1>6 DEF BatInv

LEMMA KeptByGiveUp ==
    ASSUME BatInv, NEW c \in Callers, GiveUp(c)
    PROVE  BatInv'
  <1>1. PICK r \in Outcomes : Return(c, r)
    BY DEF GiveUp, Outcomes
  <1>2. UNCHANGED <<result, cancelled, queue, done, order, bpc, final, batch, signed>>
    BY DEF GiveUp, batcherVars
  <1>3. TypeOK'
    BY <1>1, <1>2 DEF Return, BatInv, TypeOK
  <1>4. \A d \in Callers : /\ pc'[d] = "start" => pc[d] = "start"
                           /\ pc'[d] = "wait" => pc[d] = "wait" /\ result'[d] = result[d]
                           /\ result'[d] # result[d] => result'[d] = "none"
    BY <1>1, <1>2 DEF Return, BatInv, TypeOK
  <1> QED
    BY <1>2, <1>3, <1>4, KeptByCallers

LEMMA KeptByReceive ==
    ASSUME BatInv, NEW c \in Callers, Receive(c)
    PROVE  BatInv'
  <1>1. Return(c, result[c]) /\ result' = [result EXCEPT ![c] = "none"]
    BY DEF Receive
  <1>2. UNCHANGED <<cancelled, queue, done, order, bpc, final, batch, signed>>
    BY DEF Receive, batcherVars
  <1>3. TypeOK'
    BY <1>1, <1>2 DEF Return, BatInv, TypeOK, Outcomes
  <1>4. \A d \in Callers : /\ pc'[d] = "start" => pc[d] = "start"
                           /\ pc'[d] = "wait" => pc[d] = "wait" /\ result'[d] = result[d]
                           /\ result'[d] # result[d] => result'[d] = "none"
    BY <1>1 DEF Return, BatInv, TypeOK
  <1> QED
    BY <1>2, <1>3, <1>4, KeptByCallers

LEMMA KeptByOthers ==
    ASSUME BatInv, \/ \E c \in Callers : Cancel(c)
                   \/ Stop \/ Tick \/ LastBatch \/ DrainEnd \/ BatchDone
    PROVE  BatInv'
  <1>1. UNCHANGED <<pc, ret, result, queue, batch, order, signed>>
    BY DEF Cancel, Stop, Tick, LastBatch, DrainEnd, BatchDone, callerVars, batcherVars
  <1>2. cancelled' \subseteq Callers /\ done' \in BOOLEAN /\ final' \in BOOLEAN
        /\ bpc' \in {"loop", "drain", "sign", "exit"}
    <2>1. CASE \E c \in Callers : Cancel(c)
      BY <2>1 DEF Cancel, BatInv, TypeOK, batcherVars
    <2>2. CASE Stop
      BY <2>2 DEF Stop, BatInv, TypeOK, batcherVars, callerVars
    <2>3. CASE Tick \/ LastBatch \/ DrainEnd
      BY <2>3 DEF Tick, LastBatch, DrainEnd, BatInv, TypeOK, callerVars
    <2>4. CASE BatchDone
      BY <2>4 DEF BatchDone, BatInv, TypeOK, callerVars
    <2> QED
      BY <2>1, <2>2, <2>3, <2>4
  <1>3. TypeOK'
    BY <1>1, <1>2 DEF BatInv, TypeOK
  <1> QED
    BY <1>1, <1>3, KeptByCallers

(* The oldest job of the channel becomes the last one of the batch.        *)
LEMMA KeptByDrain ==
    ASSUME BatInv, DrainOne
    PROVE  BatInv'
  <1> USE BatcherAssumption
  <1>1. /\ queue \in Seq(Callers) /\ batch \in Seq(Callers) /\ order \in Seq(Callers) /\ signed \in Seq(Callers)
        /\ queue # <<>>
    BY DEF BatInv, TypeOK, DrainOne
  <1>2. UNCHANGED <<pc, ret, cancelled, order, result, done, bpc, final, signed>>
    BY DEF DrainOne, callerVars
  <1>3. /\ Len(queue) \in Nat \ {0} /\ Head(queue) = queue[1] /\ queue[1] \in Callers
        /\ queue' \in Seq(Callers) /\ Len(queue') = Len(queue) - 1
        /\ \A i \in 1..Len(queue') : queue'[i] = queue[i + 1]
    BY <1>1, HeadAndTail DEF DrainOne
  <1>4. /\ batch' \in Seq(Callers) /\ Len(batch') = Len(batch) + 1
        /\ \A i \in 1..Len(batch) : batch'[i] = batch[i]
        /\ batch'[Len(batch) + 1] = queue[1]
    BY <1>1, <1>3, Appended DEF DrainOne
  <1>5. Len(batch) \in Nat /\ Len(order) \in Nat /\ Len(signed) \in Nat
    BY <1>1
  <1>6. Answered' = Answered /\ Answered \in Nat
    BY <1>2, <1>3, <1>4, <1>5 DEF Answered, BatInv, JobsInOrder
  <1>7. TypeOK'
    <2>1. Len(batch') <= MaxBatch /\ Len(queue') <= QueueSize
      BY <1>3, <1>4, <1>5 DEF DrainOne, BatInv, TypeOK
    <2> QED
      BY <2>1, <1>2, <1>3, <1>4 DEF BatInv, TypeOK
  <1>8. JobsInOrder'
    <2>1. \A k \in 1..Len(queue') : queue'[k] = order[Answered + Len(batch') + k]
      <3> SUFFICES ASSUME NEW k \in 1..Len(queue') PROVE queue'[k] = order[Answered + Len(batch') + k]
        OBVIOUS
      <3>1. k + 1 \in 1..Len(queue) /\ Answered + Len(batch') + k = Answered + Len(batch) + (k + 1)
        BY <1>3, <1>4, <1>5, <1>6
      <3>2. queue[k + 1] = order[Answered + Len(batch) + (k + 1)]
        BY <3>1 DEF BatInv, JobsInOrder
      <3> QED
        BY <3>1, <3>2, <1>3
    <2>2. \A k \in 1..Len(batch') : batch'[k] = order[Answered + k]
      <3> SUFFICES ASSUME NEW k \in 1..Len(batch') PROVE batch'[k] = order[Answered + k]
        OBVIOUS
      <3>1. CASE k = Len(batch) + 1
        <4>1. 1 \in 1..Len(queue) /\ Answered + k = Answered + Len(batch) + 1
          BY <3>1, <1>3, <1>5, <1>6
        <4> QED
          BY <3>1, <4>1, <1>4 DEF BatInv, JobsInOrder
      <3>2. CASE k \in 1..Len(batch)
        BY <3>2, <1>4 DEF BatInv, JobsInOrder
      <3> QED
        BY <3>1, <3>2, <1>4, <1>5
    <2> QED
      BY <2>1, <2>2, <1>2, <1>6 DEF BatInv, JobsInOrder
  <1>9. QueuedOnce' /\ FirstInFirstOut'
    BY <1>2 DEF BatInv, QueuedOnce, FirstInFirstOut
  <1>10. ChannelFree'
    BY <1>2, <1>6 DEF BatInv, ChannelFree
  <1>11. NoJobDropped'
    <2>1. DOMAIN queue = 1..Len(queue) /\ DOMAIN batch = 1..Len(batch)
          /\ DOMAIN queue' = 1..Len(queue') /\ DOMAIN batch' = 1..Len(batch')
      BY <1>1, <1>3, <1>4, SequenceDomain
    <2>2. \A c : InSeq(c, batch) => InSeq(c, batch')
      BY <2>1, <1>4, <1>5 DEF InSeq
    <2>3. \A c : InSeq(c, queue) => InSeq(c, batch') \/ InSeq(c, queue')
      <3> SUFFICES ASSUME NEW i \in 1..Len(queue) PROVE InSeq(queue[i], batch') \/ InSeq(queue[i], queue')
        BY <2>1 DEF InSeq
      <3>1. CASE i = 1
        BY <3>1, <2>1, <1>4, <1>5 DEF InSeq
      <3>2. CASE i # 1
        <4>1. i - 1 \in 1..Len(queue') /\ (i - 1) + 1 = i
          BY <3>2, <1>3
        <4> QED
          BY <4>1, <2>1, <1>3 DEF InSeq
      <3> QED
        BY <3>1, <3>2
    <2> QED
      BY <2>2, <2>3, <1>2 DEF BatInv, NoJobDropped
  <1> QED
    BY <1>7, <1>8, <1>9, <1>10, <1>11 DEF BatInv

(* The first job of the batch is answered and leaves it.                   *)
LEMMA KeptBySign ==
    ASSUME BatInv, SignOne
    PROVE  BatInv'
  <1> USE BatcherAssumption
  <1>1. /\ queue \in Seq(Callers) /\ batch \in Seq(Callers) /\ order \in Seq(Callers) /\ signed \in Seq(Callers)
        /\ batch # <<>> /\ result \in [Callers -> Outcomes]
    BY DEF BatInv, TypeOK, SignOne
  <1>2. UNCHANGED <<pc, ret, cancelled, order, queue, done, bpc, final>>
    BY DEF SignOne, callerVars
  <1>3. /\ Len(batch) \in Nat \ {0} /\ Head(batch) = batch[1] /\ batch[1] \in Callers
        /\ batch' \in Seq(Callers) /\ Len(batch') = Len(batch) - 1
        /\ \A i \in 1..Len(batch') : batch'[i] = batch[i + 1]
    BY <1>1, HeadAndTail DEF SignOne
  <1>4. PICK c \in Callers : c = batch[1]
    BY <1>3
  <1>5. PICK r \in Outcomes \ {"none"} :
            result' = [result EXCEPT ![c] = r] /\ signed' \in {signed, Append(signed, c)}
    BY <1>3, <1>4 DEF SignOne, Answer, Deposit, Outcomes
  <1>6. Len(queue) \in Nat /\ Len(order) \in Nat /\ Len(signed) \in Nat
    BY <1>1
  <1>7. Answered \in Nat /\ Answered' = Answered + 1 /\ Answered + 1 \in 1..Len(order)
    BY <1>2, <1>3, <1>6 DEF Answered, BatInv, JobsInOrder
  <1>8. order[Answered + 1] = c
    <2>1. 1 \in 1..Len(batch)
      BY <1>3
    <2> QED
      BY <2>1, <1>4 DEF BatInv, JobsInOrder
  <1>9. /\ signed' \in Seq(Callers) /\ Len(signed') \in {Len(signed), Len(signed) + 1}
        /\ \A i \in 1..Len(signed) : signed'[i] = signed[i]
        /\ \A i \in 1..Len(signed') : i \in 1..Len(signed) \/ (i = Len(signed) + 1 /\ signed'[i] = c)
    <2>1. CASE signed' = signed
      BY <2>1, <1>1
    <2>2. CASE signed' = Append(signed, c)
      BY <2>2, <1>1, <1>6, Appended
    <2> QED
      BY <2>1, <2>2, <1>5
  <1>10. TypeOK'
    <2>1. Len(batch') <= MaxBatch
      BY <1>3 DEF BatInv, TypeOK
    <2>2. result' \in [Callers -> Outcomes]
      BY <1>1, <1>5
    <2> QED
      BY <2>1, <2>2, <1>2, <1>3, <1>9 DEF BatInv, TypeOK
  <1>11. \A i \in 1..Len(signed) : \E m \in 1..Answered : order[m] = signed[i]
    BY DEF BatInv, JobsInOrder
  <1>12. JobsInOrder'
    <2>1. \A k \in 1..Len(queue) : queue[k] = order[(Answered + 1) + Len(batch') + k]
      <3> SUFFICES ASSUME NEW k \in 1..Len(queue) PROVE queue[k] = order[(Answered + 1) + Len(batch') + k]
        OBVIOUS
      <3>1. (Answered + 1) + Len(batch') + k = Answered + Len(batch) + k
        BY <1>3, <1>6, <1>7
      <3> QED
        BY <3>1 DEF BatInv, JobsInOrder
    <2>2. \A k \in 1..Len(batch') : batch'[k] = order[(Answered + 1) + k]
      <3> SUFFICES ASSUME NEW k \in 1..Len(batch') PROVE batch'[k] = order[(Answered + 1) + k]
        OBVIOUS
      <3>1. k + 1 \in 1..Len(batch) /\ (Answered + 1) + k = Answered + (k + 1)
        BY <1>3, <1>7
      <3>2. batch[k + 1] = order[Answered + (k + 1)]
        BY <3>1 DEF BatInv, JobsInOrder
      <3> QED
        BY <3>1, <3>2, <1>3
    <2>3. \A i \in 1..Len(signed') : \E m \in 1..(Answered + 1) : order[m] = signed'[i]
      <3> SUFFICES ASSUME NEW i \in 1..Len(signed') PROVE \E m \in 1..(Answered + 1) : order[m] = signed'[i]
        OBVIOUS
      <3>1. CASE i \in 1..Len(signed)
        <4>1. PICK m \in 1..Answered : order[m] = signed[i]
          BY <3>1, <1>11
        <4>2. m \in 1..(Answered + 1)
          BY <1>7
        <4> QED
          BY <3>1, <4>1, <4>2, <1>9
      <3>2. CASE signed'[i] = c
        <4>1. Answered + 1 \in 1..(Answered + 1)
          BY <1>7
        <4> QED
          BY <3>2, <4>1, <1>8
      <3> QED
        BY <3>1, <3>2, <1>9
    <2> QED
      BY <2>1, <2>2, <2>3, <1>2, <1>7 DEF JobsInOrder
  <1>13. QueuedOnce'
    <2>1. pc[c] # "start"
      BY <1>7, <1>8 DEF BatInv, QueuedOnce
    <2> QED
      BY <2>1, <1>1, <1>2, <1>5 DEF BatInv, QueuedOnce
  <1>14. ChannelFree'
    <2> SUFFICES ASSUME NEW i \in 1..Len(order), i > Answered + 1 PROVE result'[order[i]] = "none"
      BY <1>2, <1>7 DEF ChannelFree
    <2>1. order[i] # c /\ order[i] \in Callers
      BY <1>1, <1>7, <1>8 DEF BatInv, QueuedOnce
    <2>2. result[order[i]] = "none"
      BY <1>7 DEF BatInv, ChannelFree
    <2> QED
      BY <2>1, <2>2, <1>1, <1>5
  <1>15. NoJobDropped'
    <2>1. DOMAIN batch = 1..Len(batch) /\ DOMAIN batch' = 1..Len(batch')
      BY <1>1, <1>3, SequenceDomain
    <2>2. \A d : InSeq(d, batch) => d = c \/ InSeq(d, batch')
      <3> SUFFICES ASSUME NEW i \in 1..Len(batch), batch[i] # c PROVE InSeq(batch[i], batch')
        BY <2>1 DEF InSeq
      <3>1. i - 1 \in 1..Len(batch') /\ (i - 1) + 1 = i
        BY <1>3, <1>4
      <3> QED
        BY <3>1, <2>1, <1>3 DEF InSeq
    <2>3. result'[c] # "none" /\ \A d \in Callers : d # c => result'[d] = result[d]
      BY <1>1, <1>5
    <2> QED
      BY <2>2, <2>3, <1>2 DEF BatInv, NoJobDropped
  <1>16. FirstInFirstOut'
    <2>1. DOMAIN signed = 1..Len(signed) /\ DOMAIN signed' = 1..Len(signed') /\ DOMAIN order = 1..Len(order)
      BY <1>1, <1>9, SequenceDomain
    <2>2. order' = order
      BY <1>2
    <2> SUFFICES ASSUME NEW i \in DOMAIN signed', NEW k \in DOMAIN signed', i < k
                 PROVE  \E m, n \in DOMAIN order : m < n /\ order[m] = signed'[i] /\ order[n] = signed'[k]
      BY <2>2 DEF FirstInFirstOut
    <2>3. i \in DOMAIN signed /\ signed'[i] = signed[i]
      <3>1. i \in 1..Len(signed') /\ k \in 1..Len(signed')
        BY <2>1
      <3>2. Len(signed') = Len(signed) \/ Len(signed') = Len(signed) + 1
        BY <1>9
      <3>3. i \in 1..Len(signed)
        BY <3>1, <3>2, <1>6
      <3> QED
        BY <3>3, <2>1, <1>9
    <2>4. CASE k \in DOMAIN signed
      <3>1. signed'[k] = signed[k]
        BY <2>1, <2>4, <1>9
      <3>2. FirstInFirstOut
        BY DEF BatInv
      <3> QED
        BY <3>1, <3>2, <2>3, <2>4 DEF FirstInFirstOut
    <2>5. CASE signed'[k] = c
      <3>1. PICK m \in 1..Answered : order[m] = signed[i]
        BY <2>1, <2>3, <1>11
      <3>2. m \in DOMAIN order /\ Answered + 1 \in DOMAIN order /\ m < Answered + 1
        BY <2>1, <1>7, <1>6
      <3> QED
        BY <3>1, <3>2, <2>3, <2>5, <1>8
    <2> QED
      BY <2>1, <2>4, <2>5, <1>9
  <1> QED
    BY <1>10, <1>12, <1>13, <1>14, <1>15, <1>16 DEF BatInv

LEMMA BatcherStep ==
    ASSUME BatInv, [Next]_vars
    PROVE  BatInv'
  <1>1. CASE \E c \in Callers : Enqueue(c)
    BY <1>1, KeptByEnqueue
  <1>2. CASE \E c \in Callers : GiveUp(c)
    BY <1>2, KeptByGiveUp
  <1>3. CASE \E c \in Callers : Receive(c)
    BY <1>3, KeptByReceive
  <1>4. CASE \/ \E c \in Callers : Cancel(c)
             \/ Stop \/ Tick \/ LastBatch \/ DrainEnd \/ BatchDone
    BY <1>4, KeptByOthers
  <1>5. CASE DrainOne
    BY <1>5, KeptByDrain
  <1>6. CASE SignOne
    BY <1>6, KeptBySign
  <1>7. CASE UNCHANGED vars
    BY <1>7 DEF vars, BatInv, TypeOK, NoJobDropped, FirstInFirstOut, JobsInOrder, QueuedOnce, ChannelFree,
                Answered, InSeq
  <1> QED
    BY <1>1, <1>2, <1>3, <1>4, <1>5, <1>6, <1>7 DEF Next, Work

-----------------------------------------------------------------------------
(* The account lifecycle.                                                  *)

(* Why an account is where it is.  A deletion the owner asked for carries  *)
(* the date of the request; payment_failed_at is the last failure that was *)
(* recorded; an account that is to be purged was so ordered by support,    *)
(* has an old failure, or is a sign-up that was given up a lapse after it  *)
(* was left unpaid.                                                        *)
CauseOf(row, last, ask, told) ==
    /\ row.status = "deleted_tombstone" => row.delAt # Null /\ ask = row.delAt
    /\ row.failedAt # Null => last = row.failedAt
    /\ row.status = "pending_payment" => told \/ last = row.created
    /\ row.status = "purge_pending" =>
         \/ told
         \/ Before(last, 2)
         \/ row.delAt # Null /\ last # Null /\ last + Lapse < row.delAt

AccInv ==
    /\ AccTypeOK
    /\ \A u \in Users : unpaid[u] # Null => unpaid[u] <= now
    /\ \A u \in Users : Exists(u) => CauseOf(users[u], unpaid[u], asked[u], ordered[u])

LEMMA Times == Null \notin Nat /\ Time \subseteq Nat /\ \A t \in TimeOrNull : t # Null => t \in Nat
  BY AccountsAssumption DEF Time, TimeOrNull

LEMMA AccountsStart == AccInit => AccInv
  <1> SUFFICES ASSUME AccInit PROVE AccInv
    OBVIOUS
  <1>1. AccTypeOK
    BY AccountsAssumption DEF AccInit, AccTypeOK, TimeOrNull, Time
  <1> QED
    BY <1>1 DEF AccInit, AccInv, Exists

(* The fields of a row.                                                    *)
LEMMA RowFields ==
    ASSUME AccInv, NEW u \in Users, Exists(u)
    PROVE  /\ users[u] \in Row
           /\ users[u].status \in Statuses
           /\ users[u].failedAt \in TimeOrNull /\ users[u].delAt \in TimeOrNull
           /\ users[u].created \in Time /\ users[u].lastAt \in Time
           /\ unpaid[u] \in TimeOrNull /\ asked[u] \in TimeOrNull
           /\ now \in Time /\ (unpaid[u] # Null => unpaid[u] <= now)
           /\ CauseOf(users[u], unpaid[u], asked[u], ordered[u])
  <1>1. users[u] \in Row
    BY DEF AccInv, AccTypeOK, Exists
  <1> QED
    BY <1>1 DEF AccInv, AccTypeOK, Row

(* The columns that say why.                                               *)
SameDates(row, old) ==
    row.failedAt = old.failedAt /\ row.delAt = old.delAt /\ row.created = old.created

(* A row whose dates stay and whose status stays, or needs no cause.       *)
LEMMA CauseStays ==
    ASSUME NEW row, NEW old, NEW last, NEW ask, NEW told, CauseOf(old, last, ask, told), SameDates(row, old),
           row.status \in {old.status, "active", "suspended", "lapsed_to_free", "payment_failed",
                           "tombstone", "prune_warned", "pruning"}
    PROVE  CauseOf(row, last, ask, told)
  BY DEF CauseOf, SameDates

(* What the statements write into a row.                                   *)
LEMMA StatusWritten ==
    ASSUME NEW r \in Row, NEW s \in Statuses, NEW row, row = [r EXCEPT !.status = s]
    PROVE  row \in Row /\ SameDates(row, r) /\ row.status = s
  BY DEF Row, SameDates

LEMMA RowDowngraded ==
    ASSUME NEW r \in Row
    PROVE  Downgraded(r) \in Row /\ SameDates(Downgraded(r), r) /\ Downgraded(r).status = "lapsed_to_free"
  BY DEF Row, SameDates, Downgraded, Statuses

(* One row is replaced, and what is observed of its user with it.          *)
LEMMA RowReplaced ==
    ASSUME AccInv, NEW u \in Users, NEW row \in Row \cup {Null, Gone},
           users' = [users EXCEPT ![u] = row], now' = now,
           sweep' \in {"idle", "purge"}, listed' \subseteq [u: Users, status: Statuses],
           calls' \in 0..MaxCalls, aFaults' \in 0..MaxFaults,
           asked' \in [Users -> TimeOrNull], unpaid' \in [Users -> TimeOrNull],
           ordered' \in [Users -> BOOLEAN],
           \A w \in Users : w # u => asked'[w] = asked[w] /\ unpaid'[w] = unpaid[w] /\ ordered'[w] = ordered[w],
           unpaid'[u] # Null => unpaid'[u] <= now,
           row \in {Null, Gone} \/ CauseOf(row, unpaid'[u], asked'[u], ordered'[u])
    PROVE  AccInv'
  <1>1. AccTypeOK'
    BY DEF AccInv, AccTypeOK
  <1>2. \A w \in Users : users'[w] = IF w = u THEN row ELSE users[w]
    BY DEF AccInv, AccTypeOK
  <1>3. \A w \in Users : unpaid'[w] # Null => unpaid'[w] <= now'
    BY DEF AccInv
  <1> SUFFICES ASSUME NEW w \in Users, Exists(w)' PROVE CauseOf(users[w], unpaid[w], asked[w], ordered[w])'
    BY <1>1, <1>3 DEF AccInv
  <1>4. CASE w = u
    BY <1>2, <1>4 DEF Exists, CauseOf, Before
  <1>5. CASE w # u
    BY <1>2, <1>5 DEF AccInv, Exists, CauseOf, Before
  <1> QED
    BY <1>4, <1>5

(* A call of a user, an administrator or a webhook counts.                 *)
LEMMA CallBounds ==
    ASSUME AccInv, OutsideCall
    PROVE  calls' \in 0..MaxCalls
  BY AccountsAssumption DEF AccInv, AccTypeOK, OutsideCall

(* A call replaces one row, or removes it, and leaves what is observed.    *)
LEMMA RowReplacedByCall ==
    ASSUME AccInv, NEW u \in Users, NEW row \in Row \cup {Null, Gone},
           users' = [users EXCEPT ![u] = row], OutsideCall,
           UNCHANGED <<now, sweep, listed, aFaults, asked, unpaid, ordered>>,
           row \in {Null, Gone} \/ CauseOf(row, unpaid[u], asked[u], ordered[u])
    PROVE  AccInv'
  <1>1. calls' \in 0..MaxCalls
    BY CallBounds
  <1>2. /\ sweep' \in {"idle", "purge"} /\ listed' \subseteq [u: Users, status: Statuses]
        /\ aFaults' \in 0..MaxFaults
        /\ asked' \in [Users -> TimeOrNull] /\ unpaid' \in [Users -> TimeOrNull] /\ ordered' \in [Users -> BOOLEAN]
        /\ unpaid'[u] # Null => unpaid'[u] <= now
    BY DEF AccInv, AccTypeOK
  <1> QED
    BY <1>1, <1>2, RowReplaced

LEMMA KeptByRegister ==
    ASSUME AccInv, NEW u \in Users, RegisterUser(u)
    PROVE  AccInv'
  <1>1. PICK s \in {"active", "pending_payment"}, t \in {"free", "paid"} :
            SetRow(u, [status |-> s, tier |-> t, failedAt |-> Null, delAt |-> Null,
                       lastAt |-> now, created |-> now, keys |-> TRUE, data |-> TRUE,
                       credit |-> Null, sub |-> FALSE])
    BY DEF RegisterUser
  <1> DEFINE row == [status |-> s, tier |-> t, failedAt |-> Null, delAt |-> Null,
                     lastAt |-> now, created |-> now, keys |-> TRUE, data |-> TRUE,
                     credit |-> Null, sub |-> FALSE]
  <1>2. row \in Row /\ row.status = s /\ row.failedAt = Null /\ row.created = now
    BY DEF Row, Statuses, TimeOrNull, AccInv, AccTypeOK
  <1>3. users' = [users EXCEPT ![u] = row]
    BY <1>1 DEF SetRow
  <1> HIDE DEF row
  <1>4. users'[u] = row
    BY <1>3 DEF AccInv, AccTypeOK
  <1>5. unpaid' = [unpaid EXCEPT ![u] = IF s = "active" THEN Null ELSE now]
    BY <1>2, <1>4 DEF RegisterUser
  <1>6. /\ unpaid' \in [Users -> TimeOrNull] /\ unpaid'[u] = IF s = "active" THEN Null ELSE now
        /\ \A w \in Users : w # u => unpaid'[w] = unpaid[w]
    BY <1>5 DEF AccInv, AccTypeOK, TimeOrNull
  <1>7. CauseOf(row, unpaid'[u], asked'[u], ordered'[u])
    BY <1>2, <1>6 DEF CauseOf
  <1>8. /\ OutsideCall /\ UNCHANGED <<now, sweep, listed, aFaults, asked, ordered>>
        /\ sweep \in {"idle", "purge"} /\ listed \subseteq [u: Users, status: Statuses]
        /\ aFaults \in 0..MaxFaults /\ asked \in [Users -> TimeOrNull] /\ ordered \in [Users -> BOOLEAN] /\ now \in Nat
    BY Times DEF RegisterUser, AccInv, AccTypeOK
  <1>9. unpaid'[u] # Null => unpaid'[u] <= now
    BY <1>6, <1>8
  <1> QED
    BY <1>2, <1>3, <1>6, <1>7, <1>8, <1>9, RowReplaced, CallBounds

(* A call that leaves what is observed of the users alone.                 *)
LEMMA KeptByPlainCalls ==
    ASSUME AccInv, NEW u \in Users,
           \/ UpdateUserTier(u) \/ AddCompCredit(u) \/ DowngradeToFree(u)
           \/ BumpLastActivity(u) \/ FreezeForAbuse(u)
    PROVE  AccInv'
  <1>1. Exists(u) /\ OutsideCall /\ UNCHANGED <<now, sweep, listed, aFaults, asked, unpaid, ordered>>
    BY DEF UpdateUserTier, AddCompCredit, DowngradeToFree, BumpLastActivity,
           FreezeForAbuse, Has, AccGhosts
  <1>2. users[u] \in Row /\ now \in Time /\ CauseOf(users[u], unpaid[u], asked[u], ordered[u])
    BY <1>1, RowFields
  <1>3. PICK row \in Row : /\ users' = [users EXCEPT ![u] = row] /\ SameDates(row, users[u])
                           /\ row.status \in {users[u].status, "active", "suspended", "lapsed_to_free"}
    <2>1. CASE \E t \in {"free", "paid"} : users' = [users EXCEPT ![u] = [users[u] EXCEPT !.tier = t]]
      <3>1. PICK t \in {"free", "paid"} : users' = [users EXCEPT ![u] = [users[u] EXCEPT !.tier = t]]
        BY <2>1
      <3> DEFINE row == [users[u] EXCEPT !.tier = t]
      <3>2. row \in Row /\ SameDates(row, users[u]) /\ row.status = users[u].status
        BY <1>2 DEF Row, SameDates
      <3> QED
        BY <3>1, <3>2
    <2>2. CASE users' = [users EXCEPT ![u] = [users[u] EXCEPT !.sub = TRUE]]
      <3> DEFINE row == [users[u] EXCEPT !.sub = TRUE]
      <3>1. row \in Row /\ SameDates(row, users[u]) /\ row.status = users[u].status
        BY <1>2 DEF Row, SameDates
      <3> QED
        BY <2>2, <3>1
    <2>3. CASE AddCompCredit(u)
      <3> DEFINE row == [users[u] EXCEPT !.tier = "paid", !.credit = now + 1]
      <3>1. now + 1 \in 0..(MaxNow + 1)
        BY <1>2, AccountsAssumption DEF Time
      <3>2. row \in Row /\ SameDates(row, users[u]) /\ row.status = users[u].status
        BY <3>1, <1>2 DEF Row, SameDates
      <3>3. users' = [users EXCEPT ![u] = row]
        BY <2>3 DEF AddCompCredit, SetRow
      <3> HIDE DEF row
      <3> QED
        BY <3>2, <3>3
    <2>4. CASE DowngradeToFree(u)
      BY <2>4, <1>2, RowDowngraded DEF DowngradeToFree, SetRow
    <2>5. CASE BumpLastActivity(u)
      <3> DEFINE row == [users[u] EXCEPT !.lastAt = now]
      <3>1. row \in Row /\ SameDates(row, users[u]) /\ row.status = users[u].status
        BY <1>2 DEF Row, SameDates
      <3>2. users' = [users EXCEPT ![u] = row]
        BY <2>5 DEF BumpLastActivity, SetRow
      <3> HIDE DEF row
      <3> QED
        BY <3>1, <3>2
    <2>6. CASE FreezeForAbuse(u)
      <3> DEFINE row == [users[u] EXCEPT !.status = "suspended"]
      <3>1. row \in Row /\ SameDates(row, users[u]) /\ row.status = "suspended"
        BY <1>2 DEF Row, SameDates, Statuses
      <3>2. users' = [users EXCEPT ![u] = row]
        BY <2>6 DEF FreezeForAbuse, SetStatus, SetRow
      <3> HIDE DEF row
      <3> QED
        BY <3>1, <3>2
    <2> QED
      BY <2>1, <2>2, <2>3, <2>4, <2>5, <2>6 DEF UpdateUserTier, SetRow
  <1>4. CauseOf(row, unpaid[u], asked[u], ordered[u])
    BY <1>2, <1>3, CauseStays
  <1> QED
    BY <1>1, <1>3, <1>4, RowReplacedByCall

(* Support sets a status by hand.                                          *)
LEMMA KeptByStatusUpdate ==
    ASSUME AccInv, NEW u \in Users, UpdateAccountStatus(u)
    PROVE  AccInv'
  <1>1. Exists(u) /\ OutsideCall /\ UNCHANGED <<now, sweep, listed, aFaults, asked, unpaid>>
    BY DEF UpdateAccountStatus
  <1>2. users[u] \in Row /\ now \in Time /\ CauseOf(users[u], unpaid[u], asked[u], ordered[u])
    BY <1>1, RowFields
  <1>3. PICK s \in validAccountStatuses :
          /\ users' = [users EXCEPT ![u] = [users[u] EXCEPT !.status = s]]
          /\ ordered' = [ordered EXCEPT ![u] = IF s = "active" THEN FALSE
                                               ELSE ordered[u] \/ s \in {"pending_payment", "purge_pending"}]
    BY DEF UpdateAccountStatus, SetStatus, SetRow
  <1> DEFINE row == [users[u] EXCEPT !.status = s]
  <1>4. row \in Row /\ SameDates(row, users[u]) /\ row.status = s
    BY <1>2, StatusWritten DEF validAccountStatuses, Statuses
  <1>5. /\ ordered' \in [Users -> BOOLEAN]
        /\ s \in {"pending_payment", "purge_pending"} => ordered'[u]
        /\ \A w \in Users : w # u => ordered'[w] = ordered[w]
    BY <1>3 DEF AccInv, AccTypeOK
  <1>6. users' = [users EXCEPT ![u] = row]
    BY <1>3
  <1> HIDE DEF row
  <1>7. CauseOf(row, unpaid'[u], asked'[u], ordered'[u])
    BY <1>1, <1>2, <1>4, <1>5 DEF CauseOf, SameDates, validAccountStatuses
  <1>8. /\ sweep \in {"idle", "purge"} /\ listed \subseteq [u: Users, status: Statuses]
        /\ aFaults \in 0..MaxFaults /\ asked \in [Users -> TimeOrNull] /\ unpaid \in [Users -> TimeOrNull]
        /\ (unpaid[u] # Null => unpaid[u] <= now)
    BY DEF AccInv, AccTypeOK
  <1> QED
    BY <1>1, <1>4, <1>5, <1>6, <1>7, <1>8, RowReplaced, CallBounds

LEMMA KeptByPaymentFailure ==
    ASSUME AccInv, NEW u \in Users, SetPaymentFailedAt(u)
    PROVE  AccInv'
  <1>1. Exists(u) /\ OutsideCall /\ UNCHANGED <<now, sweep, listed, aFaults, asked, ordered>>
    BY DEF SetPaymentFailedAt, Has
  <1>2. users[u] \in Row /\ now \in Time /\ unpaid[u] \in TimeOrNull /\ (unpaid[u] # Null => unpaid[u] <= now)
    BY <1>1, RowFields
  <1> DEFINE row == [users[u] EXCEPT !.failedAt = now, !.status = "payment_failed"]
  <1>3. row \in Row /\ row.status = "payment_failed" /\ row.failedAt = now
    BY <1>2 DEF Row, Statuses, TimeOrNull
  <1>4. users' = [users EXCEPT ![u] = row]
    BY DEF SetPaymentFailedAt, SetRow
  <1> HIDE DEF row
  <1>5. /\ unpaid' \in [Users -> TimeOrNull]
        /\ unpaid'[u] = now
        /\ \A w \in Users : w # u => unpaid'[w] = unpaid[w]
    BY <1>2 DEF SetPaymentFailedAt, AccInv, AccTypeOK, TimeOrNull
  <1>6. now \in Nat /\ now # Null
    BY <1>2, Times
  <1>7. unpaid'[u] # Null /\ unpaid'[u] <= now
    BY <1>2, <1>5, <1>6
  <1>8. CauseOf(row, unpaid'[u], asked'[u], ordered'[u])
    BY <1>3, <1>5 DEF CauseOf
  <1>9. /\ sweep \in {"idle", "purge"} /\ listed \subseteq [u: Users, status: Statuses]
        /\ aFaults \in 0..MaxFaults /\ asked \in [Users -> TimeOrNull] /\ ordered \in [Users -> BOOLEAN]
    BY DEF AccInv, AccTypeOK
  <1> QED
    BY <1>1, <1>3, <1>4, <1>5, <1>7, <1>8, <1>9, RowReplaced, CallBounds

(* The owner asks for the deletion, takes it back or recovers the account. *)
LEMMA KeptByOwner ==
    ASSUME AccInv, NEW u \in Users, RequestDeletion(u) \/ CancelDeletion(u) \/ ReactivateIfTombstoned(u)
    PROVE  AccInv'
  <1>1. Exists(u) /\ OutsideCall /\ UNCHANGED <<now, sweep, listed, aFaults, unpaid, ordered>>
    BY DEF RequestDeletion, CancelDeletion, ReactivateIfTombstoned, Has
  <1>2. /\ users[u] \in Row /\ now \in Time /\ asked[u] \in TimeOrNull
        /\ CauseOf(users[u], unpaid[u], asked[u], ordered[u])
    BY <1>1, RowFields
  <1>3. now # Null
    BY <1>2, Times
  <1>4. PICK row \in Row, ask \in TimeOrNull :
            /\ users' = [users EXCEPT ![u] = row] /\ asked' = [asked EXCEPT ![u] = ask]
            /\ CauseOf(row, unpaid[u], ask, ordered[u])
    <2>1. CASE RequestDeletion(u)
      <3> DEFINE row == [users[u] EXCEPT !.status = "deleted_tombstone", !.delAt = now]
      <3>1. row \in Row /\ row.status = "deleted_tombstone" /\ row.delAt = now /\ row.failedAt = users[u].failedAt
        BY <1>2 DEF Row, Statuses, TimeOrNull
      <3>2. users' = [users EXCEPT ![u] = row] /\ asked' = [asked EXCEPT ![u] = now]
        BY <2>1 DEF RequestDeletion, SetRow
      <3> HIDE DEF row
      <3>3. CauseOf(row, unpaid[u], now, ordered[u]) /\ now \in TimeOrNull
        BY <3>1, <1>2, <1>3 DEF CauseOf, TimeOrNull
      <3> QED
        BY <3>1, <3>2, <3>3
    <2>2. CASE CancelDeletion(u)
      <3> DEFINE row == [users[u] EXCEPT !.status = "active", !.delAt = Null]
      <3>1. row \in Row /\ row.status = "active" /\ row.failedAt = users[u].failedAt
        BY <1>2 DEF Row, Statuses, TimeOrNull
      <3>2. users' = [users EXCEPT ![u] = row] /\ asked' = [asked EXCEPT ![u] = Null]
        BY <2>2 DEF CancelDeletion, SetRow
      <3> HIDE DEF row
      <3>3. CauseOf(row, unpaid[u], Null, ordered[u]) /\ Null \in TimeOrNull
        BY <3>1, <1>2 DEF CauseOf, TimeOrNull
      <3> QED
        BY <3>1, <3>2, <3>3
    <2>3. CASE ReactivateIfTombstoned(u) /\ users[u].status \in {"tombstone", "deleted_tombstone"}
      <3> DEFINE row == [users[u] EXCEPT !.keys = TRUE, !.status = "active", !.delAt = Null, !.lastAt = now]
                 ask == IF users[u].status = "deleted_tombstone" THEN Null ELSE asked[u]
      <3>1. row \in Row /\ row.status = "active" /\ row.failedAt = users[u].failedAt
        BY <1>2 DEF Row, Statuses, TimeOrNull
      <3>2. users' = [users EXCEPT ![u] = row] /\ asked' = [asked EXCEPT ![u] = ask]
        BY <2>3 DEF ReactivateIfTombstoned, SetRow
      <3>3. ask \in TimeOrNull
        BY <1>2 DEF TimeOrNull
      <3> HIDE DEF row, ask
      <3>4. CauseOf(row, unpaid[u], ask, ordered[u])
        BY <3>1, <1>2 DEF CauseOf
      <3> QED
        BY <3>1, <3>2, <3>3, <3>4
    <2>4. CASE ReactivateIfTombstoned(u) /\ users[u].status \notin {"tombstone", "deleted_tombstone"}
      <3> DEFINE row == [users[u] EXCEPT !.keys = TRUE]
      <3>1. row \in Row /\ row.status = users[u].status /\ SameDates(row, users[u])
        BY <1>2 DEF Row, SameDates
      <3>2. users' = [users EXCEPT ![u] = row] /\ asked' = [asked EXCEPT ![u] = asked[u]]
        BY <2>4 DEF ReactivateIfTombstoned, SetRow
      <3> HIDE DEF row
      <3>3. CauseOf(row, unpaid[u], asked[u], ordered[u])
        BY <3>1, <1>2, CauseStays
      <3> QED
        BY <3>1, <3>2, <3>3, <1>2
    <2> QED
      BY <2>1, <2>2, <2>3, <2>4
  <1>5. /\ asked' \in [Users -> TimeOrNull] /\ asked'[u] = ask
        /\ \A w \in Users : w # u => asked'[w] = asked[w]
    BY <1>4 DEF AccInv, AccTypeOK
  <1>6. /\ sweep \in {"idle", "purge"} /\ listed \subseteq [u: Users, status: Statuses]
        /\ aFaults \in 0..MaxFaults /\ unpaid \in [Users -> TimeOrNull] /\ ordered \in [Users -> BOOLEAN]
        /\ (unpaid[u] # Null => unpaid[u] <= now)
    BY DEF AccInv, AccTypeOK
  <1> QED
    BY <1>1, <1>4, <1>5, <1>6, RowReplaced, CallBounds

LEMMA StatusSet ==
    ASSUME AccInv, NEW w \in Users, Exists(w), NEW s \in Statuses, NEW row,
           row = [users[w] EXCEPT !.status = s]
    PROVE  row \in Row /\ SameDates(row, users[w]) /\ row.status = s
  BY RowFields, StatusWritten

LEMMA KeptByDeleteUser ==
    ASSUME AccInv, NEW u \in Users, DeleteUser(u)
    PROVE  AccInv'
  <1>1. OutsideCall /\ users' = [users EXCEPT ![u] = Gone] /\ UNCHANGED <<now, sweep, listed, aFaults, asked, unpaid, ordered>>
    BY DEF DeleteUser, SetRow, AccGhosts
  <1> QED
    BY <1>1, RowReplacedByCall

(* A statement of the cron goes over the table.                            *)
LEMMA TableSwept ==
    ASSUME AccInv, users' \in [Users -> Row \cup {Null, Gone}],
           \A w \in Users : users'[w] = users[w] \/ (Exists(w) /\ CauseOf(users'[w], unpaid[w], asked[w], ordered[w])),
           sweep' \in {"idle", "purge"}, aFaults' \in 0..MaxFaults, UNCHANGED <<now, listed, calls, asked, unpaid, ordered>>
    PROVE  AccInv'
  <1>1. AccTypeOK'
    BY DEF AccInv, AccTypeOK
  <1>2. \A w \in Users : unpaid'[w] # Null => unpaid'[w] <= now'
    BY DEF AccInv
  <1> SUFFICES ASSUME NEW w \in Users, Exists(w)' PROVE CauseOf(users[w], unpaid[w], asked[w], ordered[w])'
    BY <1>1, <1>2 DEF AccInv
  <1> QED
    BY DEF AccInv, Exists, CauseOf, Before

(* A sweep that only sets a status that needs no cause.                    *)
LEMMA StatusSwept ==
    ASSUME AccInv, DOMAIN users' = Users, users' = [u \in Users |-> users'[u]],
           \A w \in Users : \/ users'[w] = users[w]
                            \/ /\ Exists(w) /\ users'[w] \in Row /\ SameDates(users'[w], users[w])
                               /\ users'[w].status \in {"suspended", "lapsed_to_free", "tombstone", "prune_warned",
                                                        "pruning", "active"},
           sweep' \in {"idle", "purge"}, UNCHANGED <<now, listed, calls, aFaults, asked, unpaid, ordered>>
    PROVE  AccInv'
  <1>1. users' \in [Users -> Row \cup {Null, Gone}]
    BY DEF AccInv, AccTypeOK
  <1>2. \A w \in Users : users'[w] = users[w] \/ (Exists(w) /\ CauseOf(users'[w], unpaid[w], asked[w], ordered[w]))
    BY RowFields, CauseStays
  <1>3. aFaults' \in 0..MaxFaults
    BY DEF AccInv, AccTypeOK
  <1> QED
    BY <1>1, <1>2, <1>3, TableSwept

LEMMA KeptBySuspend ==
    ASSUME AccInv, SuspendUnpaid
    PROVE  AccInv'
  <1>1. /\ sweep' \in {"idle", "purge"} /\ UNCHANGED <<now, listed, calls, aFaults, asked, unpaid, ordered>>
        /\ users' = [u \in Users |-> IF Exists(u) /\ users[u].status = "payment_failed" /\ Before(users[u].failedAt, 1)
                                     THEN [users[u] EXCEPT !.status = "suspended"] ELSE users[u]]
    BY DEF SuspendUnpaid, Sweep, AccGhosts
  <1>2. DOMAIN users' = Users /\ users' = [u \in Users |-> users'[u]]
    BY <1>1
  <1>3. \A w \in Users : \/ users'[w] = users[w]
                         \/ Exists(w) /\ users'[w] = [users[w] EXCEPT !.status = "suspended"]
    BY <1>1
  <1>4. \A w \in Users : \/ users'[w] = users[w]
                         \/ /\ Exists(w) /\ users'[w] \in Row /\ SameDates(users'[w], users[w])
                            /\ users'[w].status = "suspended"
    <2> SUFFICES ASSUME NEW w \in Users, Exists(w), users'[w] = [users[w] EXCEPT !.status = "suspended"]
                 PROVE  /\ users'[w] \in Row /\ SameDates(users'[w], users[w])
                        /\ users'[w].status = "suspended"
      BY <1>3
    <2> QED
      BY StatusSet DEF Statuses
  <1> QED
    BY <1>1, <1>2, <1>4, StatusSwept

LEMMA KeptByPurge ==
    ASSUME AccInv, PurgeUnpaid
    PROVE  AccInv'
  <1>1. sweep' \in {"idle", "purge"} /\ UNCHANGED <<now, listed, calls, asked, unpaid, ordered>>
    BY DEF PurgeUnpaid, AccGhosts
  <1>2. aFaults' \in 0..MaxFaults
    BY AccountsAssumption DEF PurgeUnpaid, AccInv, AccTypeOK
  <1>3. CASE UNCHANGED users
    BY <1>1, <1>2, <1>3, TableSwept DEF AccInv, AccTypeOK
  <1>4. CASE users' = [u \in Users |-> IF Exists(u) /\ users[u].status = "suspended" /\ Before(users[u].failedAt, 2)
                                       THEN [users[u] EXCEPT !.status = "purge_pending"] ELSE users[u]]
    <2>1. \A w \in Users : \/ users'[w] = users[w]
                           \/ /\ Exists(w) /\ Before(users[w].failedAt, 2)
                              /\ users'[w] = [users[w] EXCEPT !.status = "purge_pending"]
      BY <1>4
    <2>2. ASSUME NEW w \in Users, Exists(w), Before(users[w].failedAt, 2),
                 users'[w] = [users[w] EXCEPT !.status = "purge_pending"]
          PROVE  users'[w] \in Row /\ CauseOf(users'[w], unpaid[w], asked[w], ordered[w])
      <3>1. /\ users'[w] \in Row /\ SameDates(users'[w], users[w]) /\ users'[w].status = "purge_pending"
        BY <2>2, StatusSet DEF Statuses
      <3>2. /\ users[w].failedAt \in TimeOrNull /\ unpaid[w] \in TimeOrNull /\ now \in Nat
            /\ users[w].failedAt # Null => unpaid[w] = users[w].failedAt
        BY <2>2, RowFields, Times DEF CauseOf
      <3>3. users[w].failedAt # Null /\ users[w].failedAt + 2 < now
        BY <2>2 DEF Before
      <3>4. users[w].failedAt \in Nat /\ unpaid[w] \in Nat /\ unpaid[w] # Null
        BY <3>2, <3>3, Times
      <3>5. Before(unpaid[w], 2)
        BY <3>2, <3>3, <3>4 DEF Before
      <3> QED
        BY <3>1, <3>2, <3>5 DEF CauseOf, SameDates
    <2>3. users' \in [Users -> Row \cup {Null, Gone}]
      BY <1>4, <2>1, <2>2 DEF AccInv, AccTypeOK
    <2> QED
      BY <1>1, <1>2, <2>1, <2>2, <2>3, TableSwept
  <1> QED
    BY <1>3, <1>4 DEF PurgeUnpaid, Sweep

(* The sweeps that set a status that needs no cause.                       *)
LEMMA KeptByMarks ==
    ASSUME AccInv, MarkLapsedToFree \/ MarkDormantTombstone \/ MarkLapsedPruneWarned \/ MarkLapsedPruning,
           UNCHANGED <<now, sweep, listed, calls, aFaults, asked, unpaid, ordered>>
    PROVE  AccInv'
  <1>1. DOMAIN users' = Users /\ users' = [u \in Users |-> users'[u]]
    BY DEF MarkLapsedToFree, MarkDormantTombstone, MarkLapsedPruneWarned, MarkLapsedPruning, Sweep
  <1>2. sweep' \in {"idle", "purge"}
    BY DEF AccInv, AccTypeOK
  <1>3. \A w \in Users : \/ users'[w] = users[w]
                         \/ Exists(w) /\ users'[w] = Downgraded(users[w])
                         \/ Exists(w) /\ users'[w] = [users[w] EXCEPT !.status = "tombstone"]
                         \/ Exists(w) /\ users'[w] = [users[w] EXCEPT !.status = "prune_warned"]
                         \/ Exists(w) /\ users'[w] = [users[w] EXCEPT !.status = "pruning"]
    <2>1. CASE MarkLapsedToFree
      BY <2>1 DEF MarkLapsedToFree, Sweep
    <2>2. CASE MarkDormantTombstone
      BY <2>2 DEF MarkDormantTombstone, Sweep
    <2>3. CASE MarkLapsedPruneWarned
      BY <2>3 DEF MarkLapsedPruneWarned, Sweep
    <2>4. CASE MarkLapsedPruning
      BY <2>4 DEF MarkLapsedPruning, Sweep
    <2> QED
      BY <2>1, <2>2, <2>3, <2>4
  <1>4. \A w \in Users : \/ users'[w] = users[w]
                         \/ /\ Exists(w) /\ users'[w] \in Row /\ SameDates(users'[w], users[w])
                            /\ users'[w].status \in {"lapsed_to_free", "tombstone", "prune_warned", "pruning"}
    <2> SUFFICES ASSUME NEW w \in Users, users'[w] # users[w]
                 PROVE  /\ Exists(w) /\ users'[w] \in Row /\ SameDates(users'[w], users[w])
                        /\ users'[w].status \in {"lapsed_to_free", "tombstone", "prune_warned", "pruning"}
      OBVIOUS
    <2>1. Exists(w) /\ users[w] \in Row
      BY <1>3, RowFields
    <2>2. CASE users'[w] = Downgraded(users[w])
      BY <2>1, <2>2, RowDowngraded
    <2>3. CASE users'[w] = [users[w] EXCEPT !.status = "tombstone"]
      BY <2>1, <2>3, StatusSet DEF Statuses
    <2>4. CASE users'[w] = [users[w] EXCEPT !.status = "prune_warned"]
      BY <2>1, <2>4, StatusSet DEF Statuses
    <2>5. CASE users'[w] = [users[w] EXCEPT !.status = "pruning"]
      BY <2>1, <2>5, StatusSet DEF Statuses
    <2> QED
      BY <1>3, <2>2, <2>3, <2>4, <2>5
  <1> QED
    BY <1>1, <1>2, <1>4, StatusSwept

LEMMA KeptByFinishPruning ==
    ASSUME AccInv, FinishPruning, UNCHANGED <<now, sweep, listed, calls, aFaults, asked, unpaid, ordered>>
    PROVE  AccInv'
  <1>1. PICK u \in Users : Exists(u) /\ users' = [users EXCEPT ![u] = [users[u] EXCEPT !.status = "active"]]
    BY DEF FinishPruning, Has, SetStatus, SetRow
  <1>2. DOMAIN users' = Users /\ users' = [w \in Users |-> users'[w]]
    BY <1>1 DEF AccInv, AccTypeOK
  <1>3. /\ users'[u] = [users[u] EXCEPT !.status = "active"]
        /\ \A w \in Users : w # u => users'[w] = users[w]
    BY <1>1 DEF AccInv, AccTypeOK
  <1>4. users'[u] \in Row /\ SameDates(users'[u], users[u]) /\ users'[u].status = "active"
    BY <1>1, <1>3, StatusSet DEF Statuses
  <1>5. sweep' \in {"idle", "purge"}
    BY DEF AccInv, AccTypeOK
  <1>6. \A w \in Users : \/ users'[w] = users[w]
                         \/ /\ Exists(w) /\ users'[w] \in Row /\ SameDates(users'[w], users[w])
                            /\ users'[w].status = "active"
    BY <1>1, <1>3, <1>4
  <1> QED
    BY <1>2, <1>5, <1>6, StatusSwept

(* A sign-up left unpaid is given up; its date is that of the sweep.       *)
LEMMA KeptByStale ==
    ASSUME AccInv, MarkStalePendingPayment, UNCHANGED <<now, sweep, listed, calls, aFaults, asked, unpaid, ordered>>
    PROVE  AccInv'
  <1>1. users' = [u \in Users |-> IF Exists(u) /\ users[u].status = "pending_payment" /\ Before(users[u].created, Lapse)
                                  THEN [users[u] EXCEPT !.status = "purge_pending", !.delAt = now] ELSE users[u]]
    BY DEF MarkStalePendingPayment, Sweep
  <1>2. \A w \in Users : \/ users'[w] = users[w]
                         \/ /\ Exists(w) /\ users[w].status = "pending_payment" /\ Before(users[w].created, Lapse)
                            /\ users'[w] = [users[w] EXCEPT !.status = "purge_pending", !.delAt = now]
    BY <1>1
  <1>3. ASSUME NEW w \in Users, Exists(w), users[w].status = "pending_payment", Before(users[w].created, Lapse),
               users'[w] = [users[w] EXCEPT !.status = "purge_pending", !.delAt = now]
        PROVE  users'[w] \in Row /\ CauseOf(users'[w], unpaid[w], asked[w], ordered[w])
    <2>1. users[w] \in Row /\ now \in Time /\ CauseOf(users[w], unpaid[w], asked[w], ordered[w])
      BY <1>3, RowFields
    <2>2. /\ users'[w] \in Row /\ users'[w].status = "purge_pending" /\ users'[w].delAt = now
          /\ users'[w].failedAt = users[w].failedAt
      BY <2>1, <1>3 DEF Row, Statuses, TimeOrNull
    <2>3. now # Null
      BY <2>1, Times
    <2>4. ordered[w] \/ (unpaid[w] = users[w].created /\ unpaid[w] # Null /\ unpaid[w] + Lapse < now)
      BY <2>1, <1>3 DEF CauseOf, Before
    <2> QED
      BY <2>1, <2>2, <2>3, <2>4 DEF CauseOf
  <1>4. users' \in [Users -> Row \cup {Null, Gone}]
    BY <1>1, <1>2, <1>3 DEF AccInv, AccTypeOK
  <1>5. sweep' \in {"idle", "purge"} /\ aFaults' \in 0..MaxFaults
    BY DEF AccInv, AccTypeOK
  <1> QED
    BY <1>2, <1>3, <1>4, <1>5, TableSwept

LEMMA KeptByPeriod ==
    ASSUME AccInv, NextPeriod
    PROVE  AccInv'
  <1>1. now' = now + 1 /\ now \in Nat /\ now' \in Time
        /\ UNCHANGED <<users, sweep, listed, calls, aFaults, asked, unpaid, ordered>>
    BY AccountsAssumption DEF NextPeriod, AccInv, AccTypeOK, Time, AccGhosts
  <1>2. AccTypeOK'
    BY <1>1 DEF AccInv, AccTypeOK
  <1>3. \A u \in Users : unpaid[u] # Null => unpaid[u] \in Nat
    BY Times DEF AccInv, AccTypeOK
  <1>4. \A u \in Users : unpaid'[u] # Null => unpaid'[u] <= now'
    BY <1>1, <1>3 DEF AccInv
  <1>5. ASSUME NEW u \in Users, Exists(u)' PROVE CauseOf(users[u], unpaid[u], asked[u], ordered[u])'
    <2>1. Exists(u) /\ users'[u] = users[u] /\ unpaid'[u] = unpaid[u] /\ asked'[u] = asked[u] /\ ordered'[u] = ordered[u]
      BY <1>1, <1>5 DEF Exists
    <2>2. CauseOf(users[u], unpaid[u], asked[u], ordered[u])
      BY <2>1 DEF AccInv
    <2>3. Before(unpaid[u], 2) => Before(unpaid[u], 2)'
      BY <1>1, <1>3 DEF Before
    <2> QED
      BY <2>1, <2>2, <2>3 DEF CauseOf
  <1> QED
    BY <1>2, <1>4, <1>5 DEF AccInv

LEMMA KeptByListing ==
    ASSUME AccInv, GetDeletionPendingUsers
    PROVE  AccInv'
  <1>1. UNCHANGED <<users, now, sweep, calls, aFaults, asked, unpaid, ordered>>
    BY DEF GetDeletionPendingUsers, AccGhosts
  <1>2. PICK S \in SUBSET DueUsers : listed' = {[u |-> u, status |-> users[u].status] : u \in S}
    BY DEF GetDeletionPendingUsers
  <1>3. \A u \in S : u \in Users /\ users[u].status \in Statuses
    BY RowFields DEF DueUsers
  <1>4. listed' \subseteq [u: Users, status: Statuses]
    BY <1>2, <1>3
  <1>5. AccTypeOK'
    BY <1>1, <1>4 DEF AccInv, AccTypeOK
  <1> QED
    BY <1>1, <1>5 DEF AccInv, Exists, CauseOf, Before

LEMMA KeptByWipe ==
    ASSUME AccInv, NEW u \in Users, Wipe(u)
    PROVE  AccInv'
  <1>1. /\ UNCHANGED <<now, sweep, calls, asked, unpaid, ordered>>
        /\ listed' \subseteq listed /\ (aFaults' = aFaults \/ (aFaults < MaxFaults /\ aFaults' = aFaults + 1))
        /\ PurgeUser(u) \/ TombstoneUser(u) \/ UNCHANGED users
    BY DEF Wipe, AccGhosts
  <1>2. /\ sweep' \in {"idle", "purge"} /\ listed' \subseteq [u: Users, status: Statuses]
        /\ calls' \in 0..MaxCalls /\ aFaults' \in 0..MaxFaults
        /\ asked' \in [Users -> TimeOrNull] /\ unpaid' \in [Users -> TimeOrNull] /\ ordered' \in [Users -> BOOLEAN]
        /\ unpaid'[u] # Null => unpaid'[u] <= now
    BY <1>1, AccountsAssumption DEF AccInv, AccTypeOK
  <1>3. CASE PurgeUser(u)
    <2>1. users' = [users EXCEPT ![u] = Gone] /\ Gone \in Row \cup {Null, Gone} /\ Gone \in {Null, Gone}
      BY <1>3 DEF PurgeUser, SetRow
    <2> QED
      BY <1>1, <1>2, <2>1, RowReplaced
  <1>4. CASE Exists(u) /\ TombstoneUser(u)
    <2>1. users[u] \in Row /\ CauseOf(users[u], unpaid[u], asked[u], ordered[u])
      BY <1>4, RowFields
    <2> DEFINE row == [users[u] EXCEPT !.keys = FALSE, !.data = FALSE, !.sub = FALSE, !.failedAt = Null,
                                       !.tier = "free"]
    <2>2. /\ row \in Row /\ row.status = users[u].status /\ row.delAt = users[u].delAt
          /\ row.created = users[u].created /\ row.failedAt = Null
      BY <2>1 DEF Row, TimeOrNull
    <2>3. users' = [users EXCEPT ![u] = row]
      BY <1>4 DEF TombstoneUser, SetRow
    <2> HIDE DEF row
    <2>4. CauseOf(row, unpaid'[u], asked'[u], ordered'[u])
      BY <1>1, <2>1, <2>2 DEF CauseOf
    <2> QED
      BY <1>1, <1>2, <2>2, <2>3, <2>4, RowReplaced
  <1>5. CASE UNCHANGED users
    <2>1. AccTypeOK'
      BY <1>1, <1>2, <1>5 DEF AccInv, AccTypeOK
    <2> QED
      BY <1>1, <1>5, <2>1 DEF AccInv, Exists, CauseOf, Before
  <1> QED
    BY <1>1, <1>3, <1>4, <1>5 DEF TombstoneUser

LEMMA AccountsStep ==
    ASSUME AccInv, [AccNext]_accVars
    PROVE  AccInv'
  <1>1. CASE \E u \in Users : UserCall(u)
    BY <1>1, KeptByRegister, KeptByPlainCalls, KeptByStatusUpdate, KeptByPaymentFailure, KeptByOwner, KeptByDeleteUser DEF UserCall, DowngradeExpired
  <1>2. CASE \E u \in Users : Wipe(u)
    BY <1>2, KeptByWipe
  <1>3. CASE NextPeriod \/ SuspendUnpaid \/ PurgeUnpaid \/ GetDeletionPendingUsers
    BY <1>3, KeptByPeriod, KeptBySuspend, KeptByPurge, KeptByListing
  <1>4. CASE Lifecycle
    <2>1. UNCHANGED <<now, sweep, listed, calls, aFaults, asked, unpaid, ordered>>
      BY <1>4 DEF Lifecycle, AccGhosts
    <2> QED
      BY <1>4, <2>1, KeptByMarks, KeptByFinishPruning, KeptByStale DEF Lifecycle
  <1>5. CASE UNCHANGED accVars
    BY <1>5 DEF accVars, AccInv, AccTypeOK, Exists, CauseOf, Before
  <1> QED
    BY <1>1, <1>2, <1>3, <1>4, <1>5 DEF AccNext

(* The cause of a row that is due is old enough.  A sign-up that was given *)
(* up has waited for the lapse and for the grace period.                   *)
LEMMA CausesAreOld == AccInv => DueForCause
  <1> SUFFICES ASSUME AccInv, NEW u \in DueUsers
               PROVE  /\ users[u].status = "deleted_tombstone" => Before(asked[u], Grace)
                      /\ users[u].status = "purge_pending" => ordered[u] \/ Before(unpaid[u], 2)
    BY DEF DueForCause
  <1>1. u \in Users /\ Exists(u) /\ Due(users[u])
    BY DEF DueUsers
  <1>2. /\ users[u].delAt \in TimeOrNull /\ unpaid[u] \in TimeOrNull /\ now \in Nat
        /\ CauseOf(users[u], unpaid[u], asked[u], ordered[u])
    BY <1>1, RowFields, Times
  <1>3. ASSUME users[u].status = "deleted_tombstone" PROVE Before(asked[u], Grace)
    BY <1>1, <1>2, <1>3 DEF Due, CauseOf
  <1>4. ASSUME users[u].status = "purge_pending", ~ordered[u], ~Before(unpaid[u], 2) PROVE FALSE
    <2>1. users[u].delAt # Null /\ unpaid[u] # Null /\ unpaid[u] + Lapse < users[u].delAt
      BY <1>2, <1>4 DEF CauseOf
    <2>2. users[u].delAt + Grace < now
      BY <1>1, <1>4, <2>1 DEF Due, Before
    <2>3. ~(unpaid[u] + 2 < now)
      BY <1>4, <2>1 DEF Before
    <2>4. users[u].delAt \in Nat /\ unpaid[u] \in Nat
      BY <1>2, <2>1, Times
    <2> QED
      BY <1>2, <2>1, <2>2, <2>3, <2>4, AccountsAssumption
  <1> QED
    BY <1>3, <1>4

-----------------------------------------------------------------------------
(* The queue watchdog.                                                     *)

(* OnFail is not called before MaxConsecutiveMisses pings in a row failed  *)
(* to come back: the safety half of DeadBrokerNoticed.                     *)
NoFalseAlarm == loop = "failed" => blind = MaxMisses

(* The loop's count is that of the pings that did not come back, and below *)
(* the limit as long as the loop runs.                                     *)
DogInv ==
    /\ DogTypeOK /\ NoFalseAlarm
    /\ misses = blind
    /\ loop \in {"tick", "grace"} => misses < MaxMisses

LEMMA WatchdogStart == DogInit => DogInv
  BY WatchdogAssumption DEF DogInit, DogInv, DogTypeOK, NoFalseAlarm, Pings

LEMMA MissCounted ==
    ASSUME DogInv, loop \in {"tick", "grace"}, CountMiss(misses)
    PROVE  /\ misses' \in 0..MaxMisses /\ blind' \in 0..MaxMisses /\ misses' = blind'
           /\ loop' \in {"tick", "failed"}
           /\ loop' = "failed" => blind' = MaxMisses
           /\ loop' = "tick" => misses' < MaxMisses
  BY WatchdogAssumption DEF DogInv, DogTypeOK, CountMiss

LEMMA WatchdogStep ==
    ASSUME DogInv, [DogNext]_dogVars
    PROVE  DogInv'
  <1> USE WatchdogAssumption DEF DogInv, NoFalseAlarm
  <1>1. CASE Heartbeat
    <2>1. ping' \in Pings
      BY <1>1 DEF Heartbeat, DogTypeOK, Pings
    <2>2. CASE broker = "down"
      BY <1>1, <2>1, <2>2, MissCounted DEF Heartbeat, DogTypeOK
    <2>3. CASE broker # "down"
      BY <1>1, <2>1, <2>3 DEF Heartbeat, DogTypeOK
    <2> QED
      BY <2>2, <2>3
  <1>2. CASE Consume
    <2>1. CASE ping \in seen
      BY <1>2, <2>1 DEF Consume, DogTypeOK
    <2>2. CASE ping \notin seen
      BY <1>2, <2>2, MissCounted DEF Consume, DogTypeOK
    <2> QED
      BY <2>1, <2>2
  <1>3. CASE StopWatchdog
    BY <1>3 DEF StopWatchdog, DogTypeOK
  <1>4. CASE BrokerChange
    BY <1>4 DEF BrokerChange, DogTypeOK
  <1>5. ASSUME NEW p \in Pings, Deliver(p) PROVE DogInv'
    BY <1>5 DEF Deliver, DogTypeOK
  <1>6. CASE UNCHANGED dogVars
    BY <1>6 DEF dogVars, DogTypeOK
  <1> QED
    BY <1>1, <1>2, <1>3, <1>4, <1>5, <1>6 DEF DogNext, DogStep

-----------------------------------------------------------------------------
(* The three workers together.                                             *)

AllInv == BatInv /\ AccInv /\ DogInv

(* Whatever the number of callers, users, pings and periods, and whatever  *)
(* worker a behaviour runs, its invariant holds from the start on.         *)
THEOREM WorkersInvariant == ServicesSpec => []AllInv
  <1>1. ServicesInit => AllInv
    BY BatcherStart, AccountsStart, WatchdogStart DEF ServicesInit, AllInv
  <1>2. AllInv /\ [ServicesNext]_servicesVars => AllInv'
    <2> SUFFICES ASSUME AllInv, [ServicesNext]_servicesVars PROVE AllInv'
      OBVIOUS
    <2>1. [Next]_vars /\ [AccNext]_accVars /\ [DogNext]_dogVars
      BY DEF ServicesNext, servicesVars
    <2> QED
      BY <2>1, BatcherStep, AccountsStep, WatchdogStep DEF AllInv
  <1> QED
    BY <1>1, <1>2, PTL DEF ServicesSpec

(* No job a caller of Submit waits for is dropped, jobs are signed in the  *)
(* order they were queued (batcher.go), and no account is handed to the    *)
(* wipe without a cause that is old enough (auth_store.go), for every      *)
(* number of callers and users, every queue and batch size and every       *)
(* length of the periods.                                                  *)
THEOREM ServicesCorrect == ServicesSpec => []ServicesInv
  <1>1. AllInv => ServicesInv
    BY CausesAreOld DEF AllInv, BatInv, AccInv, DogInv, ServicesInv
  <1> QED
    BY <1>1, WorkersInvariant, PTL

(* The result channel of the next job of a batch is empty.                 *)
AnswerFits == batch # <<>> => result[Head(batch)] = "none"

(* The batcher never waits for room in a result channel of one value       *)
(* (processBatch in batcher.go), whoever gave up before.                   *)
THEOREM AnswersNeverBlock == ServicesSpec => []AnswerFits
  <1>1. AllInv => AnswerFits
    <2> SUFFICES ASSUME BatInv, batch # <<>> PROVE result[Head(batch)] = "none"
      BY DEF AllInv, AnswerFits
    <2>1. batch \in Seq(Callers) /\ queue \in Seq(Callers) /\ order \in Seq(Callers)
      BY DEF BatInv, TypeOK
    <2>2. Len(batch) \in Nat \ {0} /\ Head(batch) = batch[1] /\ Len(queue) \in Nat /\ Len(order) \in Nat
      BY <2>1, HeadAndTail
    <2>3. Answered \in Nat /\ Answered + 1 \in 1..Len(order) /\ 1 \in 1..Len(batch)
      BY <2>2 DEF Answered, BatInv, JobsInOrder
    <2>4. batch[1] = order[Answered + 1]
      BY <2>3 DEF BatInv, JobsInOrder
    <2>5. result[order[Answered + 1]] = "none"
      BY <2>3 DEF BatInv, ChannelFree
    <2> QED
      BY <2>2, <2>4, <2>5
  <1> QED
    BY <1>1, WorkersInvariant, PTL

(* The signed jobs are different ones.                                     *)
SignedOnce == \A i, k \in 1..Len(signed) : signed[i] = signed[k] => i = k

(* No job is signed twice (processBatch in batcher.go), across batches and *)
(* also when its caller is gone.                                           *)
THEOREM NoJobSignedTwice == ServicesSpec => []SignedOnce
  <1>1. AllInv => SignedOnce
    <2> SUFFICES ASSUME BatInv PROVE SignedOnce
      BY DEF AllInv
    <2>0. Len(signed) \in Nat
      BY DEF BatInv, TypeOK
    <2> SUFFICES ASSUME NEW i \in 1..Len(signed), NEW k \in 1..Len(signed), i < k, signed[i] = signed[k]
                 PROVE  FALSE
      BY <2>0 DEF SignedOnce
    <2>1. DOMAIN signed = 1..Len(signed) /\ DOMAIN order = 1..Len(order) /\ Len(order) \in Nat
      BY SequenceDomain DEF BatInv, TypeOK
    <2>2. PICK m \in DOMAIN order, n \in DOMAIN order : m < n /\ order[m] = signed[i] /\ order[n] = signed[k]
      BY <2>1 DEF BatInv, FirstInFirstOut
    <2>3. m = n
      BY <2>1, <2>2 DEF BatInv, QueuedOnce
    <2> QED
      BY <2>1, <2>2, <2>3
  <1> QED
    BY <1>1, WorkersInvariant, PTL

(* The watchdog (watchdog.go) asks for no restart before                   *)
(* MaxConsecutiveMisses pings in a row failed to come back in time,        *)
(* whatever pings are lost or late.                                        *)
THEOREM WatchdogNoFalseAlarm == ServicesSpec => []NoFalseAlarm
  <1>1. AllInv => NoFalseAlarm
    BY DEF AllInv, DogInv
  <1> QED
    BY <1>1, WorkersInvariant, PTL

=============================================================================
