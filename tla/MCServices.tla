----------------------------- MODULE MCServices -----------------------------
(***************************************************************************)
(* The three workers whose progress matters, in one instance for TLC: the  *)
(* signing batcher, the account lifecycle with its cron, and the queue     *)
(* watchdog.  They share no state, so a behaviour runs one of them, chosen *)
(* at the start; the fairness of each is that of its own module.           *)
(***************************************************************************)
EXTENDS SigningBatcher, Accounts, Watchdog

VARIABLE part   \* the worker this behaviour runs

servicesVars == <<part, vars, accVars, dogVars>>

ServicesInit ==
    /\ part \in {"batcher", "accounts", "watchdog"}
    /\ Init /\ AccInit /\ DogInit

ServicesNext ==
    \/ part = "batcher" /\ Next /\ UNCHANGED <<part, accVars, dogVars>>
    \/ part = "accounts" /\ AccNext /\ UNCHANGED <<part, vars, dogVars>>
    \/ part = "watchdog" /\ DogNext /\ UNCHANGED <<part, vars, accVars>>

\* Fairness, AccFairness and DogFairness, each for the behaviours that run the worker.
ServicesFairness ==
    /\ WF_vars(part = "batcher" /\ Tick) /\ WF_vars(part = "batcher" /\ Work)
    /\ \A c \in Callers : WF_vars(part = "batcher" /\ (Enqueue(c) \/ GiveUp(c) \/ Receive(c)))
    /\ WF_accVars(part = "accounts" /\ GetDeletionPendingUsers)
    /\ \A u \in Users : WF_accVars(part = "accounts" /\ Wipe(u))
    /\ WF_dogVars(part = "watchdog" /\ DogStep)

ServicesSpec == ServicesInit /\ [][ServicesNext]_servicesVars /\ ServicesFairness

-----------------------------------------------------------------------------
\* Types, and what must hold at every moment: no job a caller of Submit waits for is dropped
\* and jobs are signed in the order they were queued, whoever gives up (batcher.go); an account
\* is handed to the wipe only at its owner's request, on an order of support or on a recorded
\* failure of payment of the required age (auth_store.go, DueForCause).
ServicesInv ==
    /\ TypeOK /\ AccTypeOK /\ DogTypeOK
    /\ NoJobDropped /\ FirstInFirstOut
    /\ DueForCause

\* Every call of Submit returns: EverySubmitReturns of SigningBatcher, for the behaviours that
\* run the batcher.
SubmitsReturn == part = "batcher" => EverySubmitReturns
=============================================================================
