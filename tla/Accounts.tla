------------------------------ MODULE Accounts ------------------------------
(***************************************************************************)
(* The status lifecycle of an account: internal/storage/auth_store.go, and *)
(* the credits of billing_store.go that keep a paid tier.                  *)
(* Each store call is one SQL statement or one transaction, hence one      *)
(* action; TransitionPaymentFailedAccounts is two statements and the wipe  *)
(* a listing followed by one transaction per account.  The callers (API,   *)
(* webhooks, cron) are outside the repository: users, administrators and   *)
(* webhooks call what they like, the cron keeps calling its sweeps.        *)
(* Time is counted in the thirty-day periods of the lifecycle.             *)
(***************************************************************************)
EXTENDS Naturals, FiniteSets, Tables

CONSTANTS
    Users,      \* user ids; an id is never used again
    Grace,      \* periods between a deletion request and the wipe
    Lapse,      \* periods after which an unpaid account or sign-up is given up
    Dormant,    \* idle periods before a free account is marked
    ListLimit,  \* LIMIT of GetDeletionPendingUsers
    MaxNow,     \* bound: periods
    MaxCalls,   \* bound: calls of users, administrators and webhooks
    MaxFaults   \* bound: failed statements and transactions of the cron

ASSUME AccountsAssumption ==
    /\ Null \notin Nat
    /\ {Grace, Lapse, Dormant, ListLimit, MaxNow, MaxCalls, MaxFaults} \subseteq Nat
    /\ ListLimit > 0
    /\ Grace + Lapse > 0

VARIABLES
    users,      \* the table: user id -> row
    now,
    sweep,      \* "purge" between the two statements of the payment sweep
    listed,     \* rows the wipe has listed and not yet handled
    calls, aFaults,
    asked,      \* when the owner last asked for deletion and did not take it back
    unpaid,     \* when a failed payment was last recorded, or the sign-up was left
                \* unpaid; a later payment does not take it back, see DueForCause
    ordered     \* support declared the account unpaid or to be purged, and has not
                \* activated it since

accVars == <<users, now, sweep, listed, calls, aFaults, asked, unpaid, ordered>>

Statuses == {"active", "payment_failed", "lapsed_to_free", "prune_warned", "pruning",
             "tombstone", "deleted_tombstone", "pending_payment", "suspended",
             "purge_pending", "deletion_pending"}

\* validAccountStatuses
validAccountStatuses == {"active", "pending_payment", "payment_failed", "suspended",
                         "purge_pending", "deletion_pending"}

Time == 0..MaxNow
TimeOrNull == Time \cup {Null}

\* The columns of a row that the lifecycle reads or writes: payment_failed_at,
\* deletion_requested_at, COALESCE(last_activity_at, created_at), created_at, the
\* presence of key material and of mail, MAX(valid_until) of the credits, a subscription.
Row == [status: Statuses, tier: {"free", "paid"}, failedAt: TimeOrNull, delAt: TimeOrNull,
        lastAt: Time, created: Time, keys: BOOLEAN, data: BOOLEAN,
        credit: 0..(MaxNow + 1) \cup {Null}, sub: BOOLEAN]

AccTypeOK ==
    /\ users \in [Users -> Row \cup {Null, Gone}]
    /\ now \in Time
    /\ sweep \in {"idle", "purge"}
    /\ listed \subseteq [u: Users, status: Statuses]
    /\ calls \in 0..MaxCalls /\ aFaults \in 0..MaxFaults
    /\ asked \in [Users -> TimeOrNull]
    /\ unpaid \in [Users -> TimeOrNull]
    /\ ordered \in [Users -> BOOLEAN]

AccInit ==
    /\ users = [u \in Users |-> Null]
    /\ now = 0
    /\ sweep = "idle"
    /\ listed = {}
    /\ calls = 0 /\ aFaults = 0
    /\ asked = [u \in Users |-> Null]
    /\ unpaid = [u \in Users |-> Null]
    /\ ordered = [u \in Users |-> FALSE]

-----------------------------------------------------------------------------
Exists(u) == users[u] \notin {Null, Gone}
Has(u, S) == Exists(u) /\ users[u].status \in S

\* t < now - n, false for a NULL column
Before(t, n) == t # Null /\ t + n < now

\* A call from outside the cron.
OutsideCall == calls < MaxCalls /\ calls' = calls + 1

SetRow(u, row) == users' = [users EXCEPT ![u] = row]
SetStatus(u, s) == SetRow(u, [users[u] EXCEPT !.status = s])

\* UPDATE users SET account_status = s ... WHERE Cond, over the whole table
Sweep(Cond(_), Upd(_)) ==
    users' = [u \in Users |-> IF Exists(u) /\ Cond(users[u]) THEN Upd(users[u]) ELSE users[u]]

AccGhosts == <<asked, unpaid, ordered>>

-----------------------------------------------------------------------------
(* Registration and payment. *)

RegisterUser(u) ==
    /\ OutsideCall /\ users[u] = Null
    /\ \E s \in {"active", "pending_payment"}, t \in {"free", "paid"} :
         SetRow(u, [status |-> s, tier |-> t, failedAt |-> Null, delAt |-> Null,
                    lastAt |-> now, created |-> now, keys |-> TRUE, data |-> TRUE,
                    credit |-> Null, sub |-> FALSE])
    /\ unpaid' = [unpaid EXCEPT ![u] = IF users'[u].status = "active" THEN Null ELSE now]
    /\ UNCHANGED <<now, sweep, listed, aFaults, asked, ordered>>

\* The payment webhook and support: any of the six statuses, whatever it was before.
UpdateAccountStatus(u) ==
    /\ OutsideCall /\ Exists(u)
    /\ \E s \in validAccountStatuses :
         /\ SetStatus(u, s)
         /\ ordered' = [ordered EXCEPT ![u] = IF s = "active" THEN FALSE
                                               ELSE @ \/ s \in {"pending_payment", "purge_pending"}]
    /\ UNCHANGED <<now, sweep, listed, aFaults, asked, unpaid>>

SetPaymentFailedAt(u) ==
    /\ OutsideCall /\ Has(u, {"active"})
    /\ SetRow(u, [users[u] EXCEPT !.failedAt = now, !.status = "payment_failed"])
    /\ unpaid' = [unpaid EXCEPT ![u] = now]
    /\ UNCHANGED <<now, sweep, listed, aFaults, asked, ordered>>

\* UpdateUserTier, and SetUserStripeSubscriptionID.
UpdateUserTier(u) ==
    /\ OutsideCall /\ Exists(u)
    /\ \/ \E t \in {"free", "paid"} : SetRow(u, [users[u] EXCEPT !.tier = t])
       \/ SetRow(u, [users[u] EXCEPT !.sub = TRUE])
    /\ UNCHANGED <<now, sweep, listed, aFaults, AccGhosts>>

\* A credit of one period and the tier flip, in one transaction.
AddCompCredit(u) ==
    /\ OutsideCall /\ Exists(u)
    /\ SetRow(u, [users[u] EXCEPT !.tier = "paid", !.credit = now + 1])
    /\ UNCHANGED <<now, sweep, listed, aFaults, AccGhosts>>

\* Every credit expired and no recurring subscription.
IsExpiredCreditCandidate(row) ==
    /\ row.tier # "free" /\ row.status = "active"
    /\ ~row.sub
    /\ row.credit # Null /\ row.credit < now

Downgraded(row) == [row EXCEPT !.status = "lapsed_to_free", !.tier = "free"]

\* The refund webhook, whatever the account's state ...
DowngradeToFree(u) ==
    /\ OutsideCall /\ Exists(u)
    /\ SetRow(u, Downgraded(users[u]))
    /\ UNCHANGED <<now, sweep, listed, aFaults, AccGhosts>>

\* ... and the administrator's downgrade, after the check that the account still is a
\* candidate.  Check and update are two calls; what comes between is DowngradeToFree.
DowngradeExpired(u) == Exists(u) /\ IsExpiredCreditCandidate(users[u]) /\ DowngradeToFree(u)

-----------------------------------------------------------------------------
(* The owner and the abuse desk. *)

BumpLastActivity(u) ==
    /\ OutsideCall /\ Exists(u) /\ users[u].lastAt < now
    /\ SetRow(u, [users[u] EXCEPT !.lastAt = now])
    /\ UNCHANGED <<now, sweep, listed, aFaults, AccGhosts>>

FreezeForAbuse(u) ==
    /\ OutsideCall /\ Has(u, {"active"})
    /\ SetStatus(u, "suspended")
    /\ UNCHANGED <<now, sweep, listed, aFaults, AccGhosts>>

RequestDeletion(u) ==
    /\ OutsideCall /\ Exists(u)
    /\ SetRow(u, [users[u] EXCEPT !.status = "deleted_tombstone", !.delAt = now])
    /\ asked' = [asked EXCEPT ![u] = now]
    /\ UNCHANGED <<now, sweep, listed, aFaults, unpaid, ordered>>

CancelDeletion(u) ==
    /\ OutsideCall /\ Has(u, {"deleted_tombstone", "deletion_pending"})
    /\ SetRow(u, [users[u] EXCEPT !.status = "active", !.delAt = Null])
    /\ asked' = [asked EXCEPT ![u] = Null]
    /\ UNCHANGED <<now, sweep, listed, aFaults, unpaid, ordered>>

\* Recovery: new keys are written, then a tombstone comes back to life.
ReactivateIfTombstoned(u) ==
    /\ OutsideCall /\ Exists(u)
    /\ SetRow(u, IF users[u].status \in {"tombstone", "deleted_tombstone"}
                 THEN [users[u] EXCEPT !.keys = TRUE, !.status = "active", !.delAt = Null,
                                       !.lastAt = now]
                 ELSE [users[u] EXCEPT !.keys = TRUE])
    /\ asked' = [asked EXCEPT ![u] = IF users[u].status = "deleted_tombstone" THEN Null ELSE @]
    /\ UNCHANGED <<now, sweep, listed, aFaults, unpaid, ordered>>

-----------------------------------------------------------------------------
(* The sweeps of the cron. *)

NextPeriod ==
    /\ now < MaxNow /\ now' = now + 1
    /\ UNCHANGED <<users, sweep, listed, calls, aFaults, AccGhosts>>

SuspendUnpaid ==
    /\ sweep = "idle" /\ sweep' = "purge"
    /\ Sweep(LAMBDA r : r.status = "payment_failed" /\ Before(r.failedAt, 1),
             LAMBDA r : [r EXCEPT !.status = "suspended"])
    /\ UNCHANGED <<now, listed, calls, aFaults, AccGhosts>>

PurgeUnpaid ==
    /\ sweep = "purge" /\ sweep' = "idle"
    /\ \/ /\ Sweep(LAMBDA r : r.status = "suspended" /\ Before(r.failedAt, 2),
                   LAMBDA r : [r EXCEPT !.status = "purge_pending"])
          /\ UNCHANGED aFaults
       \/ /\ aFaults < MaxFaults /\ aFaults' = aFaults + 1
          /\ UNCHANGED users
    /\ UNCHANGED <<now, listed, calls, AccGhosts>>

\* MarkLapsedToFree, MarkDormantTombstone, MarkLapsedPruneWarned, MarkLapsedPruning
MarkLapsedToFree ==
    Sweep(LAMBDA r : r.status = "payment_failed" /\ Before(r.failedAt, Lapse), Downgraded)
MarkDormantTombstone ==
    Sweep(LAMBDA r : r.status = "active" /\ r.tier = "free" /\ Before(r.lastAt, Dormant),
          LAMBDA r : [r EXCEPT !.status = "tombstone"])
MarkLapsedPruneWarned ==
    Sweep(LAMBDA r : r.status = "lapsed_to_free" /\ Before(r.lastAt, Dormant),
          LAMBDA r : [r EXCEPT !.status = "prune_warned"])
MarkLapsedPruning ==
    Sweep(LAMBDA r : r.status = "prune_warned" /\ Before(r.lastAt, Dormant + 1),
          LAMBDA r : [r EXCEPT !.status = "pruning"])
\* The pruning worker brings an account under the cap.
FinishPruning ==
    \E u \in Users : Has(u, {"pruning"}) /\ SetStatus(u, "active")
MarkStalePendingPayment ==
    Sweep(LAMBDA r : r.status = "pending_payment" /\ Before(r.created, Lapse),
          LAMBDA r : [r EXCEPT !.status = "purge_pending", !.delAt = now])

\* One statement each, in whatever order the cron has them.
Lifecycle ==
    /\ \/ MarkLapsedToFree
       \/ MarkDormantTombstone
       \/ MarkLapsedPruneWarned
       \/ MarkLapsedPruning
       \/ FinishPruning
       \/ MarkStalePendingPayment
    /\ users' # users
    /\ UNCHANGED <<now, sweep, listed, calls, aFaults, AccGhosts>>

-----------------------------------------------------------------------------
(* The wipe. *)

(* mutant: the grace period is not waited for *)
DueAtOnce(row) ==
    \/ row.status = "tombstone"
    \/ row.status \in {"deleted_tombstone", "deletion_pending", "purge_pending"}

Due(row) ==
    \/ row.status = "tombstone"
    \/ /\ row.status \in {"deleted_tombstone", "deletion_pending", "purge_pending"}
       /\ row.delAt = Null \/ Before(row.delAt, Grace)

DueUsers == {u \in Users : Exists(u) /\ Due(users[u])}

\* At most ListLimit rows in no particular order.
GetDeletionPendingUsers ==
    /\ listed = {} /\ DueUsers # {}
    /\ \E S \in SUBSET DueUsers :
         /\ Cardinality(S) = IF Cardinality(DueUsers) > ListLimit
                             THEN ListLimit ELSE Cardinality(DueUsers)
         /\ listed' = {[u |-> u, status |-> users[u].status] : u \in S}
    /\ UNCHANGED <<users, now, sweep, calls, aFaults, AccGhosts>>

(* mutant: the key material goes, the mail stays *)
TombstoneUserKeysOnly(u) ==
    IF Exists(u)
    THEN SetRow(u, [users[u] EXCEPT !.keys = FALSE, !.sub = FALSE, !.failedAt = Null,
                                    !.tier = "free"])
    ELSE UNCHANGED users

\* Keys, mail, identifiers and payment marks go; status and dates stay.
TombstoneUser(u) ==
    IF Exists(u)
    THEN SetRow(u, [users[u] EXCEPT !.keys = FALSE, !.data = FALSE, !.sub = FALSE,
                                    !.failedAt = Null, !.tier = "free"])
    ELSE UNCHANGED users

\* The row itself goes; without a row the transaction fails.
PurgeUser(u) == SetRow(u, Gone)

\* The worker treats a listed account according to the status it was listed with.
Wipe(u) ==
    /\ \E r \in listed :
         /\ r.u = u /\ listed' = listed \ {r}
         /\ \/ /\ IF r.status = "purge_pending" THEN PurgeUser(u) ELSE TombstoneUser(u)
               /\ UNCHANGED aFaults
            \/ /\ aFaults < MaxFaults /\ aFaults' = aFaults + 1
               /\ UNCHANGED users
    /\ UNCHANGED <<now, sweep, calls, AccGhosts>>

\* DeleteUser of the administration.
DeleteUser(u) ==
    /\ OutsideCall /\ Exists(u)
    /\ SetRow(u, Gone)
    /\ UNCHANGED <<now, sweep, listed, aFaults, AccGhosts>>

-----------------------------------------------------------------------------
UserCall(u) ==
    \/ RegisterUser(u) \/ UpdateAccountStatus(u) \/ SetPaymentFailedAt(u)
    \/ UpdateUserTier(u) \/ AddCompCredit(u) \/ DowngradeToFree(u) \/ DowngradeExpired(u)
    \/ BumpLastActivity(u) \/ FreezeForAbuse(u) \/ RequestDeletion(u)
    \/ CancelDeletion(u) \/ ReactivateIfTombstoned(u) \/ DeleteUser(u)

AccNext ==
    \/ \E u \in Users : UserCall(u) \/ Wipe(u)
    \/ NextPeriod \/ SuspendUnpaid \/ PurgeUnpaid \/ Lifecycle \/ GetDeletionPendingUsers

\* The cron keeps listing and handles what it listed.
AccFairness ==
    /\ WF_accVars(GetDeletionPendingUsers)
    /\ \A u \in Users : WF_accVars(Wipe(u))

AccSpec == AccInit /\ [][AccNext]_accVars /\ AccFairness

-----------------------------------------------------------------------------
\* What the listing of GetDeletionPendingUsers hands to the wipe has a cause: the owner
\* asked for the deletion more than the grace period ago and has not taken it back; and
\* an account is purged only when support ordered it, or a failed payment was recorded, or
\* the sign-up was left unpaid, more than two periods ago.  The last failure counts even
\* when it was paid since: payment_failed_at is cleared by the wipe only, so an account
\* that paid and is suspended for abuse later is purged on its old date.
DueForCause ==
    \A u \in DueUsers :
        /\ users[u].status = "deleted_tombstone" => Before(asked[u], Grace)
        /\ users[u].status = "purge_pending" => ordered[u] \/ Before(unpaid[u], 2)

\* A deletion whose grace period is over is carried out, unless the account leaves that
\* state or the request is renewed: GetDeletionPendingUsers keeps finding it and TombstoneUser wipes it.
DeletionsCarriedOut ==
    \A u \in Users :
        (Has(u, {"deleted_tombstone"}) /\ Due(users[u]))
            ~> (~Has(u, {"deleted_tombstone"}) \/ ~Due(users[u]) \/ ~users[u].data)

=============================================================================
