--------------------------- MODULE SigningBatcher ---------------------------
(***************************************************************************)
(* SigningBatcher (internal/payment/batcher.go): callers submit blinded    *)
(* tokens over a bounded channel and wait; one goroutine signs them in     *)
(* batches, on a ticker, and once more when it is stopped.  Every select   *)
(* of the code is a choice between its ready cases.  A caller stands for   *)
(* one call of Submit, with the context of its HTTP request.               *)
(***************************************************************************)
EXTENDS Naturals, Sequences

CONSTANTS
    Callers,    \* calls of Submit
    Keyless,    \* callers whose tier has no signing key, or whose token cannot be signed
    QueueSize,  \* capacity of the channel (1000 in the code)
    MaxBatch    \* maxBatch (100 in the code)

ASSUME BatcherAssumption ==
    /\ Keyless \subseteq Callers
    /\ QueueSize \in Nat \ {0} /\ MaxBatch \in Nat \ {0}

VARIABLES
    pc,         \* per caller: "start", "wait" or "returned"
    ret,        \* per caller: what Submit returned
    result,     \* per caller: content of the job's result channel
    cancelled,  \* callers whose context is done
    queue,      \* the channel of jobs
    done,       \* the done channel is closed
    bpc,        \* the goroutine: "loop", "drain", "sign" or "exit"
    final,      \* the batch in progress is the one on the way out
    batch,      \* the batch in progress
    order,      \* observation: the jobs in the order they were queued
    signed      \* observation: the jobs signed, in order

callerVars == <<pc, ret, cancelled, order>>
batcherVars == <<bpc, final, batch, signed>>
vars == <<pc, ret, result, cancelled, queue, done, bpc, final, batch, order, signed>>

Outcomes == {"none", "signature", "cancelled", "no key", "stopped"}

Init ==
    /\ pc = [c \in Callers |-> "start"] /\ ret = [c \in Callers |-> "none"]
    /\ result = [c \in Callers |-> "none"]
    /\ cancelled = {} /\ queue = <<>> /\ done = FALSE
    /\ bpc = "loop" /\ final = FALSE /\ batch = <<>>
    /\ order = <<>> /\ signed = <<>>

-----------------------------------------------------------------------------
(* Submit.                                                                 *)

Return(c, r) ==
    /\ pc' = [pc EXCEPT ![c] = "returned"]
    /\ ret' = [ret EXCEPT ![c] = r]

Enqueue(c) ==
    /\ pc[c] = "start" /\ Len(queue) < QueueSize
    /\ queue' = Append(queue, c) /\ order' = Append(order, c)
    /\ pc' = [pc EXCEPT ![c] = "wait"]
    /\ UNCHANGED <<ret, result, cancelled, done, batcherVars>>

(* Both selects of Submit end when the context or the batcher is done; a   *)
(* job already queued stays where it is.                                   *)
GiveUp(c) ==
    /\ pc[c] # "returned"
    /\ \/ c \in cancelled /\ Return(c, "cancelled")
       \/ done /\ Return(c, "stopped")
    /\ UNCHANGED <<result, cancelled, queue, done, order, batcherVars>>

Receive(c) ==
    /\ pc[c] = "wait" /\ result[c] # "none"
    /\ Return(c, result[c])
    /\ result' = [result EXCEPT ![c] = "none"]
    /\ UNCHANGED <<cancelled, queue, done, order, batcherVars>>

Cancel(c) ==
    /\ pc[c] # "returned" /\ c \notin cancelled
    /\ cancelled' = cancelled \cup {c}
    /\ UNCHANGED <<pc, ret, result, queue, done, order, batcherVars>>

Stop ==
    /\ ~done
    /\ done' = TRUE
    /\ UNCHANGED <<callerVars, result, queue, batcherVars>>

-----------------------------------------------------------------------------
(* run, processBatch and drain.                                            *)

Tick ==
    /\ bpc = "loop"
    /\ bpc' = "drain"
    /\ UNCHANGED <<callerVars, result, queue, done, final, batch, signed>>

LastBatch ==
    /\ bpc = "loop" /\ done
    /\ bpc' = "drain" /\ final' = TRUE
    /\ UNCHANGED <<callerVars, result, queue, done, batch, signed>>

(* mutant: the newest job of the batch goes first *)
DrainFront ==
    /\ bpc = "drain" /\ Len(batch) < MaxBatch /\ queue # <<>>
    /\ batch' = <<Head(queue)>> \o batch
    /\ queue' = Tail(queue)
    /\ UNCHANGED <<callerVars, result, done, bpc, final, signed>>

DrainOne ==
    /\ bpc = "drain" /\ Len(batch) < MaxBatch /\ queue # <<>>
    /\ batch' = Append(batch, Head(queue))
    /\ queue' = Tail(queue)
    /\ UNCHANGED <<callerVars, result, done, bpc, final, signed>>

DrainEnd ==
    /\ bpc = "drain" /\ (Len(batch) = MaxBatch \/ queue = <<>>)
    /\ bpc' = "sign"
    /\ UNCHANGED <<callerVars, result, queue, done, final, batch, signed>>

(* mutant: a result channel without a buffer *)
DepositUnbuffered(c, r) == pc[c] = "wait" /\ result' = [result EXCEPT ![c] = r]

(* The result channel has room for one value.                              *)
Deposit(c, r) == result[c] = "none" /\ result' = [result EXCEPT ![c] = r]

(* mutant: a cancelled job is dropped without an answer *)
AnswerDrops(c) ==
    \/ /\ c \in cancelled
       /\ UNCHANGED <<result, signed>>
    \/ /\ c \notin cancelled /\ c \in Keyless
       /\ Deposit(c, "no key")
       /\ UNCHANGED signed
    \/ /\ c \notin cancelled /\ c \notin Keyless
       /\ Deposit(c, "signature")
       /\ signed' = Append(signed, c)

Answer(c) ==
    \/ /\ c \in cancelled
       /\ Deposit(c, "cancelled")
       /\ UNCHANGED signed
    \/ /\ c \notin cancelled /\ c \in Keyless
       /\ Deposit(c, "no key")
       /\ UNCHANGED signed
    \/ /\ c \notin cancelled /\ c \notin Keyless
       /\ Deposit(c, "signature")
       /\ signed' = Append(signed, c)

SignOne ==
    /\ bpc = "sign" /\ batch # <<>>
    /\ Answer(Head(batch))
    /\ batch' = Tail(batch)
    /\ UNCHANGED <<callerVars, queue, done, bpc, final>>

BatchDone ==
    /\ bpc = "sign" /\ batch = <<>>
    /\ bpc' = IF final THEN "exit" ELSE "loop"
    /\ UNCHANGED <<callerVars, result, queue, done, final, batch, signed>>

Work == DrainOne \/ DrainEnd \/ SignOne \/ BatchDone

Next ==
    \/ \E c \in Callers : Enqueue(c) \/ GiveUp(c) \/ Receive(c) \/ Cancel(c)
    \/ Stop \/ Tick \/ LastBatch \/ Work

(* The ticker keeps firing and goroutines keep running.                    *)
Fairness ==
    /\ WF_vars(Tick) /\ WF_vars(Work)
    /\ \A c \in Callers : WF_vars(Enqueue(c) \/ GiveUp(c) \/ Receive(c))

Spec == Init /\ [][Next]_vars
FairSpec == Spec /\ Fairness

-----------------------------------------------------------------------------
(* Properties.                                                             *)

(* Every variable keeps its type; the channel and the batch keep within    *)
(* their capacities.                                                       *)
TypeOK ==
    /\ pc \in [Callers -> {"start", "wait", "returned"}]
    /\ ret \in [Callers -> Outcomes] /\ result \in [Callers -> Outcomes]
    /\ cancelled \subseteq Callers
    /\ queue \in Seq(Callers) /\ Len(queue) <= QueueSize
    /\ done \in BOOLEAN /\ final \in BOOLEAN
    /\ bpc \in {"loop", "drain", "sign", "exit"}
    /\ batch \in Seq(Callers) /\ Len(batch) <= MaxBatch
    /\ order \in Seq(Callers) /\ signed \in Seq(Callers)

InSeq(c, s) == \E i \in DOMAIN s : s[i] = c

(* A caller that waits can always be answered: its job is still queued, or *)
(* in the batch, or its result is in the channel.  No job is dropped on    *)
(* the way, whoever gives up and whenever the batcher stops.               *)
NoJobDropped ==
    \A c \in Callers : pc[c] = "wait" =>
        InSeq(c, queue) \/ InSeq(c, batch) \/ result[c] # "none"

(* Jobs are signed once each, in the order in which they were queued,      *)
(* across batches and whoever gives up in between.                         *)
FirstInFirstOut ==
    \A i, k \in DOMAIN signed : i < k =>
        \E m, n \in DOMAIN order : m < n /\ order[m] = signed[i] /\ order[n] = signed[k]

(* Every call of Submit returns, also when other callers give up with      *)
(* their jobs queued, the channel is full, or the batcher has exited.      *)
EverySubmitReturns == \A c \in Callers : <>(pc[c] = "returned")
=============================================================================
