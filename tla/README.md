# A TLA+ development for bmail-enclave

The repository holds the code of five SGX enclaves of a mail service: `gateway`,
`smtp-inbound`, `smtp-outbound`, `payment` and `keystore`, and the libraries they
share. It has no tests. This directory models the parts whose correctness rests on
the order of concurrent steps and on what happens when one of them fails, checks
the models with TLC on small instances, and proves the central invariants for every
instance with TLAPS. `PROJECT.json` maps every definition to the source lines it
models, lists the runs, the mutants that show each property can fail, the findings,
the hazards and the theorems.

## 1. Inventory

How the parts interact:

- Mail from the Internet reaches `smtp-inbound` (a receiver with one goroutine per
  session). For each recipient it resolves aliases and groups in PostgreSQL, runs the
  pipeline and publishes an encrypted copy to JetStream; consumers outside this
  repository file it.
- Mail from users is published to JetStream by services outside this repository and
  consumed by `smtp-outbound`: a callback per message that fetches attachments from
  object storage, signs with DKIM, talks to the recipient's MX hosts, and republishes
  itself with a backoff when delivery fails for now.
- `smtp-outbound` and others fetch long-lived keys from `keystore` over mTLS with
  attestation; an operator with an offline key delegates, revokes and provisions.
- `payment` sells blind signatures and Fake ID credentials over HTTP; tokens and slots
  are rows in PostgreSQL, its keys are sealed files.
- `gateway` terminates TLS and proxies; it keeps only a certificate cache and counters.

| Component | State it keeps | Operations | Hard behaviour | What makes it correct |
|---|---|---|---|---|
| keystore | sealed key files, allowlist, hash-chained log (disk and memory), nonces of the process | delegate, revoke, provision, get, list, snapshots, start and stop | two mutexes, several files per write, any write may fail, crash between two of them, snapshots packed without a lock | a key is written once; authority goes back to the operator; no uncommitted change is visible; the log replays to the state |
| smtp-outbound, sender, queue client | stream and redelivery, timers of pending retries, attachment blobs, bounce counter, account status | the message callback, MX loop, retry, bounce, freeze, drain | at-least-once delivery, lost DATA replies, crash, shutdown order, one blob shared by copies | nothing is given up before it was tried, but for age; bounces are justified, blobs live as long as their retries |
| payment batcher | channel, batch, results | Submit, ticker, drain, Stop | callers that give up, full channel, stop racing a submission | no job dropped, order, every caller returns |
| fake id credentials | tokens, slots, sealed keys, credentials held by clients | mint (two endpoints), verify, redeem, backfill, key loading | two inserts per verification, retries, crash, key that does not unseal | a token counts once, one Fake ID per primary |
| smtp-inbound receiver, pipeline | sessions, aliases, groups and epochs, blocks, rules, auto-reply records, queued copies | RCPT, DATA, per-target steps, group fan-out, answer | one answer for many targets, retries of the sender, changes between RCPT and DATA, crash | accepted mail leaves a copy, no needless duplicate, receipts tell the truth, no pre-join history |
| accounts | users: status, tier, credits, dates, keys, mail data | registration, payments, refunds, freezes, deletion and its cancellation, the sweeps of the cron, wipe | sweeps racing user calls; a listing and the wipes that follow it | nothing is wiped without cause, what is due is wiped |
| sessions | session rows, refresh requests, backup address | login, refresh in two calls, logout, purge, confirmation | refreshes in flight while sessions end | ended sessions stay ended, live ones stay |
| custom domains | tenants, members, roles, aliases, challenges | claim, DKIM provisioning, proof of DNS control, invitation, purge in many statements | a purge racing claims, checks and members | verified by its own proof, nothing outlives it |
| private groups | members, wrapped keys, archive, epoch, pending leader | add, remove, rotate, distribute, clear | several devices of several admins at once | whoever was a member of an active group has a wrap for that epoch |
| key transparency | leaves and signed roots | publish, sign an epoch | a leaf written to an epoch signed in between, or to epoch 1 after a failed query | a signed root is final, users do not vanish |
| drive | folders, files, blobs, trash, shares, epochs and key wraps | upload, trash, reap, share, advance an epoch | stale lists and copies, a reaper, clients that stop half-way | wraps follow members, finished files stay |
| mailbox and contacts | messages, folders, labels, blobs in two accounts; address book | drafts, moves, pruning, backfill, migration; automatic addition, merge | listing and update far apart, transactions of several statements | nothing the user has is lost |
| calendar | rows of one meeting in several calendars | edit, answer, cancel, remind | mails out of order, edits from old copies | copies agree, reminders are sent for the right time |
| payment service | tier keys in sealed files, archives, tokens | start, sign, redeem, snapshot, restore | key loss, partial restore, CRT faults | tokens stay valid, signatures are right |
| rate limiters, gateway | counters in Redis, in memory and in a sketch | allow | outages of Redis, salts and windows that turn over, shared cells | bounds hold |
| watchdog, peer sync, dkim pool | pending pings; certificate, key and TLSA; TXT records and delegations | heartbeat; sync; publish, hand over | late answers, separate requests, restarts, partial failure | a dead broker is noticed; DNS vouches for what is used |
| sender policy | a stack of SPF records and a counter | SPF, DKIM, DMARC | nested records and their shared limit | the verdict on the MAIL FROM domain is the one its records and the signatures mean |
| spam filter, parsing, other cryptography, TEE runtime, configuration | none or opaque | scores, conversions | – | not modelled (section 7) |

The hazards of each, at their lines, are in `PROJECT.json`.

## 2. Plan

Done, in this order: `Keystore` with `KeyCustody`, `Outbound`, `SigningBatcher`,
`FakeIDSlots`, `Inbound`; `Accounts`, `AuthSessions`, `Tenants`; `GroupKeys`, `KTLog`;
`DriveShares`, `DriveFiles`; `RateLimits`, `GatewayLimits`, `Watchdog`; `PaymentTokens`,
`BlindSignatures`; `Mailbox`, `Contacts`, `Calendar`; `PeerCerts`, `DKIMPool`;
`SenderPolicy`; proofs for `Keystore` with the refinement of `KeyCustody`, `FakeIDSlots`,
`KTLog`, `Outbound` and `Inbound`, and for the stores: `AuthSessions`, `Tenants`,
`GroupKeys`, `DriveShares`, `DriveFiles`, `PeerCerts`, `DKIMPool`, `Mailbox`, `Calendar`,
`Contacts`, `RateLimits`, `GatewayLimits`, `PaymentTokens` and, but for the verdicts,
`SenderPolicy`; the workers: `SigningBatcher`, `Accounts` and `Watchdog`.

Next, in this order:

1. The claim of a Fake ID by its primary (`users.fakeid_*`) joined to `FakeIDSlots`.
2. `GroupKeys` as a refinement of the membership part of `Inbound`.
3. The TLS policy of the sender (DANE, MTA-STS and its cache).

## 3. Modules and the code

**Keystore** (`internal/keystore`, `cmd/keystore`). One process per HTTP handler in
flight. `keyDisk`, `allowDisk`, `auditDisk` are the sealed files; `allow`, `entries`,
`seen` the memory of the process; `writeMu`, `allowMu` the mutexes. A handler is a chain of
actions cut wherever another goroutine can run or a write can fail: taking the lock, the
nonce lookup, the signature check that records the nonce, the membership check, the change
in memory, its write and rollback, the key file, the log append, the three files of the
snapshot. `Crash`, `Shutdown` and `Boot` end and start the process; each failing write
is a disjunct of its action. `uses`, `accepted`, `memb`, `ever`, `released` only record
what happened. The peer's measurement, taken from the TLS handshake, is part of the request.
`WriteProofUsedOnce` is about writes: a list request verifies its proof without `writeMu`, so
two of them can both be accepted, although `breakglass.go:17-20` speaks of any second call.

**KeyCustody** is what the keystore promises without handlers, locks, files or crashes;
`CustodySpec` states that the sealed files and the released keys of `Keystore` implement it.

**Outbound** (`cmd/smtp-outbound/main.go`, `internal/smtp/sender.go`, `bounce.go`,
`internal/queue/nats.go`). `queue` is the stream with its copies, `cur` and `pc` the callback
of each worker, `timers` the goroutines that wait for a backoff, `blob` the stored
attachments. The remote server's answers are chosen freely, among them an accepted message
whose reply is lost. A message that outlives its ack wait is redelivered; one older than a
minute is terminated. `lost` records, with the cause, each message the code gives up: not all of
them reach a log. A message that is too old is terminated without a word (`nats.go:342-345` drops
the error of the check), and the timers of a crashed process leave no trace at all.

**SigningBatcher** (`internal/payment/batcher.go`). Each caller chooses among the ready
branches of its `select`; the ticker goroutine drains, signs one job at a time and answers
into a buffered channel; `Stop` closes `done`. It does not wait for the drain, although
`batcher.go:83-84` says so; what callers see is that every `Submit` returns all the same.

**FakeIDSlots** (`cmd/payment/fakeid_slots.go`, `main.go`, `internal/payment/fakeid_tags.go`,
the slot and payment stores). Handlers run statement by statement; a statement may fail
before or after it commits. Keys are generation numbers: a sealed file that does not unseal
gives a new generation (`internal/tee/keys.go`). `creds` and `tags` are what clients hold.
`OneFakeIDPerPrimary` and `CredentialsSurviveRestart` are conditioned on `losses = 0`: a replaced
key really changes every tag and voids every credential. `RaceSpec` is the specification without
the administrator's backfill, so that the run `fakeid_race` shows two requests racing.

**Inbound** (`internal/smtp/receiver.go`, `pipeline.go`, `cmd/smtp-inbound/main.go` and the
stores they read). A session goes from RCPT to DATA and through its targets, each as parse,
block list, rules, auto-reply reservation, reply, receipt and publish; a group as open,
members, fan-out. The recipients a session has yet to ask for are positions in the list of
the message (`ask`). The field `raw` says whether the message buffer of
the DATA command has been cleared. The sending server retries what was not answered 250 or refused and gives up after
`MaxTries`. Users, aliases, groups, blocks and rules change between any two steps. An exact
lookup that fails falls through to the aliases and the catch-all, as `GetUserByAddress` does. A rule
deletes or moves (archive is a move); a move overrides the folder in the queued copy, while the
receipt signs the folder assigned before, so that the receipts are compared with the latter.

**Accounts** (`auth_store.go`, `billing_store.go`). One row per user; each store call is one
statement or transaction and so one action. The cron's sweeps, `GetDeletionPendingUsers` and
`TombstoneUser` are separate steps, and users, webhooks and administrators act in between.
`UpdateAccountStatus` writes any of its six statuses over any other and `DowngradeToFree` has no
guard, as in the code. `unpaid` keeps the date of the last failed payment also when it was paid
since, because `payment_failed_at` is cleared by the wipe only: an account that paid and is
suspended for abuse later can be purged on the old date, and `DueForCause` says no more than that.
Time counts the thirty-day periods of the lifecycle.

**AuthSessions** (`auth_store.go`). A refresh is a lookup by the hash of its token and a later
update by session id; sessions end by logout, recovery, the wipe or the purge.

**Tenants** (`domain_store.go`, `role_store.go`, `auth_store.go`, `internal/domain`). One
domain that is claimed, given DKIM keys, verified, populated and purged; `PurgeTenant` and
`EnsureTenant` run statement by statement, and registering the owner, `UpdateTenantOwner` (which
overwrites whatever owner there is) and the assignment of its role are three steps. Publishing a
key asks for the epoch and then writes the leaf (`pending` in between); neither checks that the
user still exists, so `orphans` records the leaves written after their user was deleted.

**GroupKeys** (`group_store.go`). A wrapped key is the epoch whose key it wraps. Devices of the
admins rotate, add and remove members, change who is an admin and distribute keys one call at a
time. `served` records who was a member of the group while it was active at which epoch. A device
that led an older epoch can overwrite the wrap of the current one: `SetMemberWrappedKey` has no epoch
to compare. `GroupKeysKept` therefore promises a wrap, never of a later epoch, and not the right one.

**KTLog** (`kt_store.go`). A root is the set of leaves it commits to. A publisher asks for the
next epoch, which is 1 whenever the query fails, and writes its leaf later, whatever was signed
meanwhile. `SignedHistory` says what survives that: signed users stay in every later root, and the
leaf of a user in a signed epoch is not altered. Leaves of groups can be, and are left out of it.

**DriveShares**, **DriveFiles** (`drive_store.go`). Clients change the membership of a shared
folder in two or three calls and may stop between them; uploads carry the epoch they read.
Files are created, uploaded, trashed, reaped and shared while rows are written back from
old copies. `BackfillEpochKeysForMember` inserts one row per step. A folder can be moved into its own
subtree: `UpdateFolder` does not look.

**Mailbox** (`mail_store.go`, `folder_store.go`, `label_store.go`, `minio.go`), **Contacts**
(`contacts_store.go`), **Calendar** (`calendar_store.go`, `pipeline_calendar.go`). Backfill,
pruning and the merge of contacts are cut at each statement, its check of the owners apart from
its UPDATE, so that the user can delete the row it merges into in between; the two object-store
accounts of the migration are two maps from messages to contents, one object per message (its key
names no version), and a save uploads first and writes the key of the row later; sending a
reminder and marking its row are two steps; replies and cancellations arrive in any order.

**RateLimits** (`internal/smtp/ratelimit.go`, `conn_ratelimit.go`, `internal/ratelimit/redis.go`),
**GatewayLimits** (`internal/gateway/ratelimit.go`, `cmd/gateway/main.go`). A call to Redis may
time out with or without having counted; the ramp of a new account and its quota are checked
under two separate locks. Connections have windows of their own length (`ConnTicks`), and one whose
address cannot be determined is let in uncounted. Which addresses share a cell of the sketch is
chosen with the salt.

**PaymentTokens** (`cmd/payment/main.go`, `internal/payment`), **BlindSignatures**
(`internal/crypto/blind.go`). A token is the tier and the generation of the key that signed
it; keys are lost, restored in part, and saved, and a failed write may leave a torn file, for
`os.WriteFile` truncates first. The signature is computed by the CRT on a
modulus of 33, for every residue, blind and fault.

**PeerCerts** (`internal/peer`, `internal/tee/tls_ego.go`, `cmd/smtp-inbound/main.go`), **DKIMPool**
(`cmd/smtp-outbound/dkimpool.go`), **Watchdog** (`internal/queue/watchdog.go`),
**SenderPolicy** (`internal/smtp/auth_checks.go`, `pipeline.go`). Each is a machine of the requests,
timers or nested calls the code makes; peers, DNS, keystore and broker are external. A sealed TLS
key that does not unseal is replaced by a fresh one, and a failed write of it is only a warning.
Superseded DKIM records expire after a grace instead of vanishing, and a delegation whose answer is
lost may have taken effect (`asked` against `delegated`). `SenderPolicy` makes the calls of
`runSecurityChecks`: the domain of MAIL FROM is both identities that `CheckDMARC` compares, the From
header is not consulted, and any SPF error is handed on as temperror.

**MCServices** and **MCStores** gather components that share no state into one instance:
a variable `part` names the component a behaviour runs, all others stay as they started, so
the states explored are the sum of the components', not their product. A property of one
component is guarded by its part.

The other `MC*` modules only give constants. `AuditInv`, `SteadyInv` and `InboundInv` join
invariants of one component that a run checks together. Definitions called `mutant` in a comment are plausible
errors used to show that a property can be violated; no specification refers to them.

## 4. Runs

| Run | Instance | Result |
|---|---|---|
| `ks_faults` | 2 handlers, 1 role, 2 builds, 2 keys, 3 requests out of 11, 1 failed write, 2 starts; symmetric handlers | custody rules, nonce use, log, snapshots of handlers; implements `KeyCustody` |
| `ks_live` | 2 requests, 1 failed write, 1 daily snapshot, fair | every request ends; an unlocked snapshot holds every key its log names |
| `ks_unaudited` | 1 failed write | violated: finding 1 |
| `out_steady` | 2 workers, 2 messages, 2 attempts, 2 MX hosts, no failure of the worker, fair | settled once, whole, no blob left, freeze for cause |
| `out_faults` | 2 workers, 1 message, and one each of crash, shutdown, ack timeout, ageing, failed call | a message is under way, settled, or given up for a cause; bounces justified; blobs outlive retries |
| `out_drain` | 1 shutdown | violated: finding 2 |
| `services` | batcher: 3 callers, one without a key for its tier, channel 2, batch 2; accounts: 1 user, 4 periods, 4 calls; watchdog: 2 misses, 4 ping ids; fair | no job dropped, order, every `Submit` returns; accounts due are wiped, and due only for a recorded cause; a dead broker is noticed |
| `stores` | 17 components, two of each kind of id that matters (`i1`, `i2`, interchangeable), see `Stores.cfg` | the properties of `MCStores`, and those of `FakeIDSlots` |
| `drive_backfill` | 1 member, 3 epochs | violated: finding 5 |
| `fakeid_race` | 1 primary, 2 tokens, 2 handlers, no fault, no backfill (`RaceSpec`) | violated: finding 3 |
| `inbound` | 2 sessions, 2 messages (alias of two users and a role address; a group), no catch-all at first, 2 troubles and 2 changes, fair | receipts, traces, replies, duplicates and history as promised; every mail is settled |
| `inbound_lost` | no trouble at all | violated: finding 4 |

Why the bounds suffice: the interference studied is between two actors, so two handlers,
workers or sessions are needed, and three requests let a third act on what two left (a
revocation, then a delegation, then a get). Two attempts reach both the retry and its
exhaustion. A channel and a batch of two with three callers are both exceeded. One fault of
each kind at any step reaches every error path; two troubles in `inbound` allow a failure
and the failure of its recovery. Two tokens for one primary is the smallest race for a slot.
For the stores: two sessions and two refreshes, two tenants in a row for one domain
with its rightful owner and another claimant and three calls that edit it, two devices of one
admin and two rotations, two folders for moves into each other, two clients and two epochs of a share, two messages with one
draft, one outage of Redis, one fault of each transaction. `RateLimits` runs one
process: what a second one adds is a second counter in memory, which `SendQuota` counts by
windows. `SPFLimit` is 3 instead of 10, below what a record of two terms can ask for with the
records of one term it names, circles and MX hosts included; the proof of `LimitHolds` has no bound.
One account and a listing of one row suffice for the accounts, whose rows do not interact.
Deadlock is not checked where the bounded environment simply runs out of requests.

What the properties leave open. Where the code loses or races, a property cannot promise the
contrary; an observation variable then records the exact interleaving, the property exempts what it
names, and the comment of the property, the note of its hazard and this list say so:

- `lost` (Outbound): a message given up, with its cause. `NothingForgotten` asks for a cause that
  happened and, but for age, for a delivery that was tried. It does not say that the sender learns
  of the loss. With redelivery the success of one copy deletes the blob of the other:
  `BlobsOutliveRetries` only asks for one delivery that ended for good.
- `losses` (FakeIDSlots), `forsaken` (PaymentTokens): keys that did not unseal or were torn.
- `unpaid`, `ordered` (Accounts): see section 3; and `DeletionsCarriedOut` is shown while the accounts
  due fit the limit of the listing (`GetDeletionPendingUsers` takes 1000 rows in no order and lists
  wiped rows again, so more than that many could starve one).
- `orphans` (Tenants): leaves written after their user was deleted. No foreign key forbids them
  (`auth_store.go:1961`). `NothingOutlivesTenant` takes one purge at a time besides.
- groups in `KTLog`: a stale publisher overwrites their leaf in a signed epoch.
- `GroupKeysKept`: a wrap may be that of an earlier epoch, where a late leader overwrote it.
- `skewed`, `crossed` (DriveShares): epochs advanced with an outdated list of members or between the
  two calls of another client, and members whom two changes concerned at once. `tooLate`, `reverted`
  (DriveFiles): uploads reaped before their last chunk, against `drive_store.go:1004-1005`, and rows
  that `UpdateFile` put back from an old copy.
- `apart`, `overtaken` (Mailbox): a save that failed between upload and row or overlapped another
  leaves a blob the key of the row does not open; headers saved while a backfill had their row listed
  are overwritten, against `mail_store.go:444-445`.
- `crossing`, `dropped` (Contacts): what was changed on the old row after it was copied, and what the
  merge deletes uncopied: phone, notes, organisation and birthday always, every field when the user
  deletes the other row after the check, against the comment at `contacts_store.go:734`.
- `mixed`, `overrun`, `revived` (Calendar): two replies of one attendee at once, a row rescheduled
  while its reminder is sent, an edit begun before a cancellation and saved after it.
- `solo`, `rivals`, `unpublished`, `unkept` (PeerCerts): keys that came up beside the pool's, failed
  updates of DNS, failed writes of the sealed file.

Findings:

1. The keystore discards the error of the log append, so a mutation can stay in force
   without an entry although the log is described as recording every one.
2. The outbound worker cancels its context before it drains, so messages in flight are
   acknowledged and given up although the drain is documented to let them finish.
3. Two verifications for one primary begin while its slot is free; the loser keeps a spent token
   and no registration, although the comment (`fakeid_slots.go:209-211`) excludes partially applied
   state.
4. The pipeline clears the buffer that all targets of one DATA share, so every target after
   the first fails to parse and the sender is told 250. With the buffer kept the property
   holds on the same instance.
5. `BackfillEpochKeysForMember` stores the first of the wraps it is given for every past
   epoch, although it is said to insert the wraps of the past epochs.

Observations without a run of their own: a catch-all
shadows group addresses; a transient database error at RCPT is answered with a permanent
550; a group delivery in which one member was skipped and every publish failed counts as a
success; status and quota are checked for one target of an alias and not again at DATA; the
inbound process exits when its listener closes, while sessions still drain. In the stores:
`CancelDeletion` of an account that was already wiped leaves an active account without keys;
`purge_pending` follows 60 days after `payment_failed_at` while the comment counts from the
suspension; a tenant whose purge failed half-way has no owner and is not listed again by
`ListStaleUnverifiedTenants`, although the comment expects a re-run; the merge of contacts
drops phone, notes, organisation and birthday although its comment says all metadata is
kept; a rescheduled event loses its reminder when `MarkReminderSent` comes late; two limits
of one sender apply when Redis comes and goes; a sealed key that does not unseal is
overwritten; `CheckDKIM` returns the first valid signature only, so an aligned one after it
does not count for DMARC; a temporary DNS error inside an include is ignored; `CheckDMARC` is asked
about the domain of MAIL FROM and never about the From header; an SPF permerror becomes a
temperror; a rule of the recipient can move a message that DMARC rejects to the inbox, although
`pipeline.go:342-343` files it as junk; `NextEpoch` answers 1 when its query fails; a folder can be
moved below itself; an account that paid can be purged on the date of its old failure.

## 5. Fairness

- `Keystore`: weak fairness of each handler's next step, strong fairness of taking `writeMu`.
  Handlers are goroutines that wait only for the two mutexes and the disk; a Go mutex hands
  itself to a waiter that has waited for a millisecond, so none starves.
- `Outbound`: weak fairness of every worker step, of delivery by the server and of timers.
  Network calls have deadlines, so each step ends, with success or failure.
- `SigningBatcher`: weak fairness of each caller and of the ticker goroutine. A caller's
  context need not ever expire.
- `Accounts`: weak fairness of the cron's listing and of handling each listed user; it is a
  periodic job. Users, webhooks and other sweeps owe nothing.
- `Watchdog`: weak fairness of the loop, which only waits for a ticker and a timer. The broker
  owes nothing. In `MCServices` each of these conditions is restricted to the behaviours that
  run the component.
- `Inbound`: weak fairness of session steps (bounded by the timeouts of the SMTP server and
  of the 30 s processing context) and of the sending server's retry or giving up, which is
  external. Environment changes, faults and crashes are never assumed to happen.

## 6. Proofs

`KeystoreProofs` proves for any set of handlers, roles, keys, measurements and proofs:

- `TypeCorrect`. `TypeOK` alone is not inductive, since handlers use fields of their
  request; `HandlerInv` adds which operations can be at which control point.
- `CoreInvariant`: `MutexInv` (a handler inside the write section holds `writeMu`), `KeyInv`
  (the role is still free when its key is written) and `AllowInv` (`allowMu` is held exactly
  while a change in memory awaits its write, undoing the change gives what is on disk, and
  otherwise memory and disk agree). It is the strengthening everything else rests on: the
  properties speak of handlers that have left the check behind, and only the mutexes keep
  the checked fact true.
- `KeysAreWriteOnce` (`WriteOnceKey`), `DelegationsAreVouched` (`DelegatorStillMember`) and
  `AckedWritesAreInForce` (`AckedWriteInForce`) follow from it.

`KeystoreCustodyProofs` goes on from there to what concerns more than one file:

- `StateIsRootedInOperator` (`RootedInOperator`) needs `AuthInv`: a handler past its signature
  or membership check has an accepted proof, or is a delegation that needs none.
- `WriteProofsAreUsedOnce` (`WriteProofUsedOnce`) needs `NonceInv`: a nonce that is not in `seen`
  was never used, and a write at its signature check still finds its nonce unseen.
- `KeystoreImplementsCustody` (`CustodySpec`) needs `GetInv`: whoever is on the sealed allowlist
  has been admitted, a get that found its caller on the list found an admitted caller, and the
  key it is about to answer with is the stored one. Writing a key file is the abstract store,
  writing the allowlist the abstract change, answering a get the abstract release; every other
  step stutters.
- `SnapshotsHoldAuditedKeys` (`SnapshotHoldsAuditedKeys`) needs `AuditedInv`: every key that the
  log, or what a packer has read of it, names is stored.
- `AuditLogIsFaithful` (`AuditInv`) needs `ReplayInv` and `PackInv`. The log lags behind the files
  between a write and its append, so `ReplayInv` compares the files with the replay of the log
  plus the entry that some handler is about to append (`Due`).

`FakeIDSlotsProofs` proves for any primaries, tokens, handlers and bounds: `TypeCorrect`,
`TokensAreUsedOnce`, `PrimariesGetOneFakeID`, `RegistrationsAreRecorded`, `SlotsAdmitOnce`,
`CredentialsOutliveRestarts` and `SlotsArePaidFor` (`SlotsCostTokens`, a part of `TokensHold`). The invariant `IInv` adds to the types that a handler between
its two inserts owns its token (`Owned`), that registrations point to spent tokens and taken
rows (`RegInv`), that while no key was lost everything clients hold was made under the keys
in the sealed files (`KeyInv`), and that hence each registered or backfilled primary has its
row under the one current tag (`SlotInv`). `SlotsCostTokens` compares two sizes, and a spent
token may pay for a slot only later or never; `PaidInv` therefore says that some set of spent
tokens, none of which a handler still brings to its second insert, is at least as large as the
set of slots taken.

`OutboundProofs` proves for any workers, messages, attempts, MX hosts and faults:

- `TypeCorrect`; `OutcomeInvariant` adds `CallbackInv` (the message in hand is the first one
  pulled, its result was observed, a bounce is under way only after a refusal or the last
  attempt) and `AttemptInv` (the n-th attempt comes after n failures). `BouncesAreJustified`
  (`BounceJustified`) and `BlobsOutliveTheirRetries` (`BlobsOutliveRetries`: a blob goes only when a
  delivery was accepted, refused for good or failed for the last time) are parts of it.
- `NothingIsForgotten` (`NothingForgotten`) needs `CarriedInv`: an acknowledged message, and one
  about to be, has a later attempt in the stream or in a timer, or an outcome, or is in `lost`; and
  `CausedInv`: the cause of everything in `lost` happened and, but for age, a delivery was tried.
- `SteadyInvariant`, and from it `DeliveredOnceAndWhole` (`DeliveredOnceWhole`) and
  `SuspendedAndReclaimedForCause` (`SteadyInv`). They are stated for `Steady`, the case in which
  the five bounds on crashes, shutdowns, ack timeouts, ageing and failed calls are zero:
  at-least-once delivery makes them false otherwise, and the run `out_steady` checks the same
  case. The invariant says that every pulled message is in one place (`OwnInv`), that a job has
  at most one live message or timer (`OneInv`), that nothing happens to a job before its first
  attempt (`FreshInv`), that what is live is undelivered and has its blob (`LiveInv`), that
  the blob goes with the last attempt (`ReclaimInv`) and that the bounce counter counts
  different jobs (`CountInv`).

`InboundProofs` proves for any mailboxes, aliases, groups, messages, sessions and bounds:

- `ReceiptsAreTruthful` (`InboundInv`). The types hold together with `SessionInv`: what a
  session works on exists, the buffer is whole until the first delivery returns, what DMARC
  rejects is assigned to junk; and with `MovedInv`: only a rule that moves gives a copy another
  folder. The steps of session.Data past RCPT are then summarised
  once (`Advanced`), and so are the changes of settings (`SystemStep`); the later proofs use these
  summaries instead of the actions.
- `AcceptedMailLeavesATrace` (`AcceptedLeavesTrace`) from `TraceInv`: what a session counts as
  delivered to a mailbox or role left a copy, a role message or a rule's deletion behind.
- `OneReplyPerCorrespondent` (`OneReplyPerDay`) from `ReplyInv`: a session about to reply holds
  the dedup row of its correspondent, nobody else does, and no reply went out under it.
- `NobodyReadsBeforeJoining` (`NoPreJoinHistory`) from `EpochInv`: a member is entitled to every
  epoch since it joined, a session reads an epoch that is not newer than the group's, and the
  members it fans out to are entitled to it.
- `DuplicatesArePaidFor` (`NoNeedlessDuplicate`) from `AttemptInv` (one attempt per message that
  is not cut off, asking for all that is still owed) and `CopyInv`: the copies in a mailbox,
  together with the cut-off attempts that may still add one (`Loose`), are at most the
  mishaps, plus one when no further attempt can add a copy without one (`Closed`). Counting
  the cut-off attempts before they deliver is what makes it inductive.

`StoresProofs` proves properties of `MCStores`. A step of one component leaves the others
alone (the lemmas called `...Part`), so the invariant of a component is shown for its own
steps only; each holds for any sets of ids and any bounds:

- `SessionsEndForCause` (`SessionsHold`) from `SesInv`: a row of the table belongs to a session
  that was created and not ended, and the token of the settings row was mailed to the address
  beside it.
- `TenantsLeaveNothing` (`TenantsHold`), for one purge at a time (`OnePurge`: two purges of one
  tenant make it false; the run has one purger too). `ProofInv`: a challenge that can still be
  met, and the one under verification, was published by the owner of the DNS while it owned
  the tenant. `PurgeInv`: leaves that a purge about to delete the row has not deleted belong
  to users who still refer to the row, so that deletion fails, or were written when their user
  was gone (`orphans`).
- `GroupsStayReadable` (`GroupKeysHold`) from `GroupInv`: no device is ahead of the group, a
  leader of the current epoch has wrapped the key for all members but those still on its list
  (`LeadersServe`), whoever was served has the live wrap of the current epoch or an archived one
  (`ServedStay`), and no wrap is ahead of its epoch (`WrapsBehind`).
- `DriveKeepsItsPromises` (`DriveHolds`) from `SharesInv` (one change at a time concerns a
  user that is not recorded as crossed; between the two calls of an addition the user has the
  key of the epoch it will have joined in, and later epochs count as skewed) and `FilesInv` (a
  row is in a folder that exists, complete rows have their blob, acknowledged uploads are
  complete, and the trash says what the user did last unless an old copy was written back). What
  is skewed, crossed, too late or reverted (section 4) is exempt in the theorem as in the run.
- `PoolsAgree` (`PoolsHold`) from `PeerInv` (a running member serves the key of its certificate,
  keeps it sealed unless a write failed, and of two keys that members serve or take over one came
  up on its own beside the other) and `DkimInv` (a certified selector has the right record and only
  expiring ones beside it; the builds a role allows are the first one and those it was asked to
  add; what was reported as delegated is allowed). The first formulation of `PoolAgrees`, which TLC
  had passed for two members, is false for three: a member that came up on its own hands its key to
  a newcomer, who publishes it. The property now exempts keys (`rivals`) instead of members.
- `MailStaysReadable` (`MailboxHolds`) from `MailInv`: a read finds the content uploaded last, in
  whichever account it is; while no save failed or overlapped another, the one in flight is the
  newest, and without one the row has its key; and a row in the list of the backfill has no saved
  headers unless it is recorded as overtaken.
- `RecordsTellTheTruth` (`RecordsHold`) from `CalInv` (an attendee that is not mixed has one mail
  under way, what is yet to be broadcast is what the organizer's row shows, and a reminder that is
  yet to be marked was sent) and `BookInv` (what the open merge has copied is what the old row still
  tells, short of later changes, and the row it merges into is held once its UPDATE has found it;
  when the UPDATE found none, what the old row tells is dropped and recorded as such).

`EdgeProofs` proves properties of the other components of `MCStores`, in the same way:

- `LogInvariant` and from it `HistoryIsSigned` (`SignedHistory`), for any users, hashes, publishers
  and number of epochs, whatever epoch a publisher was told. `SignedHistory` is not inductive: that a
  signed user is in the next root needs the user's leaf to be there when the next root is computed
  (`LeavesStay`).
- `LimitsRespected` (`LimitsHold`). For the mail limits (`RateInv`) every message let through draws a
  ticket, a pair of a window and a count from 1 to the limit; the counters of a window only
  advance, so no ticket is drawn twice and `today`, the number of tickets, is at most the limit
  times the number of windows (`Drawn`). That a shared key has two windows a day needs
  `TwoWindows`: all but the current window let nothing through today, unless the current one
  began today, and then it outlasts the day. For the gateway (`GwInv`) each row of the sketch
  counts at least what its limiter let through, or what it let through since the salt was
  replaced, which happens once in a window at most and never in a window of the daily cap.
- `TokensStayGood` (`TokensHonoured`, a part of `TokensHold`) from `TokInv`: while the service runs, the
  key in memory is the one in the sealed file, or both are recorded as taken by a mishap
  (`KeyKept`); a token that was handed out belongs to the sealed key or is recorded; and the
  sealed keys are in an archive unless a snapshot is due.
- `PolicyBounded` (`LimitHolds`, a part of `PolicyHolds`), for any number of domains and of terms in
  a record. A nested call of checkSPFWithCounter is paid for by a lookup, and a redirect replaces its
  caller, so circles of records cannot make the stack grow past the limit (`StackPaid`); and once the
  limit is passed, in whatever depth, every caller hands the error on.

`ServicesProofs` proves for any callers, users, pings, sizes and periods:

- `WorkersInvariant`, and from it `ServicesCorrect` (`ServicesInv`). For the batcher: the jobs in the
  order they were queued are those that left the batch, then the batch, then the channel
  (`JobsInOrder`), a job is queued once (`QueuedOnce`), and the result channel of one that is not
  answered is empty (`ChannelFree`). For the accounts `CauseOf` says why a row has its status: an
  account that is to be purged was declared so by support, or its last recorded failure (or its
  unpaid sign-up) is two periods old, or it was given up a lapse after that; `payment_failed_at` is
  the last failure recorded, paid since or not; and a deletion carries the date of its request. For the watchdog, its
  count of misses is that of the pings that did not come back, and is below the limit while the
  loop runs.
- `AnswersNeverBlock` (processBatch finds the result channel of the next job empty, whoever gave up)
  and `NoJobSignedTwice`, which no run states, and `WatchdogNoFalseAlarm`, the safety half of
  `DeadBrokerNoticed`.

The assumptions on constants are named in the modules that declare them (they ask for the
distinguished values to be distinct from ordinary ones and from rows, for bounds to be
numbers, for the
mailboxes of `Inbound` to be finitely many, its first catch-all to be one of the possible ones
(`CatchAllAssumption`), and for `Outbound` to have some job) and are evaluated by the runs.

Three say more. `Grace + Lapse > 0` (`Accounts`): both periods are 30 days in `auth_store.go`
and its callers' comments; were both zero, an account could be due in the instant its payment failed.
`SketchRows # {}` and `RateLimit > 0` (`GatewayLimits`): the sketch has four rows, and the first
request of a bucket passes whatever its limit. `RampLimit <= SendLimit` (`RateLimits`): the ramp
for new accounts is 5 a day, the smallest limit of a tier 15.

Only model-checked: all liveness, among it the other half of `DeadBrokerNoticed`; the part of
`TokensHold` that says a blind signature unblinds to a valid one (`BlindTokenValid`, arithmetic
modulo a product); and the parts of `PolicyHolds` that compare the SPF and DMARC results with the
verdict of the records and signatures, where the reference is recursive and the proof would be an induction over records.
Liveness under fairness, `ENABLED` and results of recursive definitions over all inputs (they need
induction over data) are beyond this prover and stay with TLC.

## 7. Not modelled

Contents (MIME, headers, calendar text, DKIM signatures, encryption), spam scores and the
DANE and MTA-STS policies enter the models as freely chosen outcomes. `internal/crypto` but
for blind signatures computes on bytes without state. Sealing, quotes and the TLS handshake
belong to the hardware and the TLS library. Admin reports, event logs, searches and counters
that are single SQL statements have no order of steps to check; the proxying part of the
gateway keeps no state. HTTP handlers that call the stores are outside the repository; they
are modelled as callers that may call in any order the comments allow. Not yet modelled:
OPAQUE, TOTP and passkey records, the claim of a Fake ID in the users table, share links.
In `Inbound` the contact book and
the copy for the Sent folder are left out: they are best-effort writes nothing in the
component reads. So are address syntax, size limits and the connection limiter. The stale
consumer repair in `Subscribe` and the queue's message envelope are left out of `Outbound`.
`AddMember` gets its epoch from callers outside the repository; the model assumes it current.
