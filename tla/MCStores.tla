------------------------------ MODULE MCStores ------------------------------
(***************************************************************************)
(* The stores and helpers of the services in one instance for TLC.  They   *)
(* share no state, so a behaviour runs one of them, chosen at the start;   *)
(* the others stay in one of their initial states.                         *)
(***************************************************************************)
EXTENDS FakeIDSlots, AuthSessions, Tenants, GroupKeys, KTLog, DriveShares, DriveFiles,
        RateLimits, GatewayLimits, PaymentTokens, BlindSignatures, Mailbox, PeerCerts,
        DKIMPool, Calendar, Contacts, SenderPolicy, TLC

\* The ids that stand for sessions, devices, messages, requests and the like, two of each kind:
\* no component tells one from the other.
CONSTANTS i1, i2
Symmetry == Permutations({i1, i2})

\* Both devices of the group's administration belong to one admin.
MCAdminOf == [d \in Devices |-> CHOOSE a \in Admins : TRUE]

\* Two addresses that share a cell of one row, or the cells of both rows.
MCHashChoices ==
    {[r \in SketchRows |-> [x \in Addresses |->
        IF r \in k /\ x # CHOOSE y \in Addresses : TRUE THEN 2 ELSE 1]] : k \in {{1}, {1, 2}}}

VARIABLE part   \* the component this behaviour runs

Parts == {"fakeid", "sessions", "tenants", "groups", "log", "shares", "files", "rates",
          "gateway", "tokens", "blind", "mailbox", "certs", "pool", "calendar", "contacts",
          "policy"}

storesVars == <<part, vars, sesVars, tenVars, groupVars, logVars, shareVars, driveVars, rateVars,
                gwVars, tokVars, blindVars, mailVars, peerVars, poolVars, calVars, bookVars,
                policyVars>>

\* One initial state is enough for a component that does not run.
StoresInit ==
    /\ part \in Parts
    /\ Init /\ SesInit /\ TenInit /\ SharesInit /\ TokInit /\ PeerInit /\ BookInit
    /\ GroupInit /\ (part = "groups" \/ NotMember \notin {roster[u] : u \in GroupUsers})
    /\ LogInit
    /\ part = "log" \/ \A p \in Publishers : /\ pub[p].user = (CHOOSE u \in LogUsers : TRUE)
                                             /\ pub[p].hash = (CHOOSE h \in LogHashes : TRUE)
    /\ FilesInit /\ (part = "files" \/ folders = [f \in DriveFolders |-> Null])
    /\ RateInit /\ (part = "rates" \/ (limiter = "send" /\ useRedis))
    /\ GwInit
    /\ part = "gateway" \/ (watched = "bucket" /\ sketch["rate"].hash = CHOOSE h \in HashChoices : TRUE)
    /\ BlindInit /\ (part = "blind" \/ hash = 0)
    /\ MailboxInit /\ (part = "mailbox" \/ mailFolders = DefaultFolders)
    /\ PoolInit /\ (part = "pool" \/ txt = [s \in Selectors |-> {}])
    /\ CalInit
    /\ part = "calendar" \/ \A m \in ReplyMails : replies[m].status = "accepted"
    /\ PolicyInit /\ (part = "policy" \/ \A d \in SPFDomains : zone[d].txt = "none")

\* Everything but component p stays.
Only(p) ==
    /\ UNCHANGED part
    /\ IF p = "fakeid" THEN TRUE ELSE UNCHANGED vars
    /\ IF p = "sessions" THEN TRUE ELSE UNCHANGED sesVars
    /\ IF p = "tenants" THEN TRUE ELSE UNCHANGED tenVars
    /\ IF p = "groups" THEN TRUE ELSE UNCHANGED groupVars
    /\ IF p = "log" THEN TRUE ELSE UNCHANGED logVars
    /\ IF p = "shares" THEN TRUE ELSE UNCHANGED shareVars
    /\ IF p = "files" THEN TRUE ELSE UNCHANGED driveVars
    /\ IF p = "rates" THEN TRUE ELSE UNCHANGED rateVars
    /\ IF p = "gateway" THEN TRUE ELSE UNCHANGED gwVars
    /\ IF p = "tokens" THEN TRUE ELSE UNCHANGED tokVars
    /\ IF p = "blind" THEN TRUE ELSE UNCHANGED blindVars
    /\ IF p = "mailbox" THEN TRUE ELSE UNCHANGED mailVars
    /\ IF p = "certs" THEN TRUE ELSE UNCHANGED peerVars
    /\ IF p = "pool" THEN TRUE ELSE UNCHANGED poolVars
    /\ IF p = "calendar" THEN TRUE ELSE UNCHANGED calVars
    /\ IF p = "contacts" THEN TRUE ELSE UNCHANGED bookVars
    /\ IF p = "policy" THEN TRUE ELSE UNCHANGED policyVars

StoresNext ==
    \/ part = "fakeid" /\ Next /\ Only("fakeid")
    \/ part = "sessions" /\ SesNext /\ Only("sessions")
    \/ part = "tenants" /\ TenNext /\ Only("tenants")
    \/ part = "groups" /\ GroupNext /\ Only("groups")
    \/ part = "log" /\ LogNext /\ Only("log")
    \/ part = "shares" /\ SharesNext /\ Only("shares")
    \/ part = "files" /\ FilesNext /\ Only("files")
    \/ part = "rates" /\ RateNext /\ Only("rates")
    \/ part = "gateway" /\ GwNext /\ Only("gateway")
    \/ part = "tokens" /\ TokNext /\ Only("tokens")
    \/ part = "blind" /\ BlindNext /\ Only("blind")
    \/ part = "mailbox" /\ MailboxNext /\ Only("mailbox")
    \/ part = "certs" /\ PeerNext /\ Only("certs")
    \/ part = "pool" /\ PoolNext /\ Only("pool")
    \/ part = "calendar" /\ CalNext /\ Only("calendar")
    \/ part = "contacts" /\ BookNext /\ Only("contacts")
    \/ part = "policy" /\ PolicyNext /\ Only("policy")

StoresSpec == StoresInit /\ [][StoresNext]_storesVars

-----------------------------------------------------------------------------
\* Sessions and backup addresses (auth_store.go): refreshes in flight revive no ended session,
\* the purge ends none early, and only a confirmed backup address counts as verified.
SessionsHold == part = "sessions" => SesTypeOK /\ EndedSessionsOnly /\ BackupEmailProven

\* Custom domains (domain_store.go, PurgeTenant): only a tenant's own DNS proof verifies it, and
\* nothing outlives a purged tenant but leaves of users deleted before the leaf was written.
TenantsHold == part = "tenants" => TenTypeOK /\ VerifiedByOwnProof /\ NothingOutlivesTenant

\* Group keys (group_store.go): whatever joins, leaves and rotations of several devices
\* interleave, a member of an active group keeps a wrap for that epoch, live or archived, never
\* one of a later epoch (it may be of an earlier one, from a late client).
GroupKeysHold == part = "groups" => GroupTypeOK /\ GroupKeysKept

\* The drive (drive_store.go): wraps of folder keys follow the membership of a share that one
\* client at a time changes, and a file finished in time stays until its owner discards it.
DriveHolds ==
    /\ part = "shares" => SharesTypeOK /\ WrapsFollowMembers
    /\ part = "files" => FilesTypeOK /\ FinishedFilesKept

\* Limits (ratelimit.go of internal/smtp, internal/gateway, redis.go): nobody sends or
\* asks more in a window than the limit, times what outages, processes and salts may add.
LimitsHold ==
    /\ part = "rates" => RateTypeOK /\ SendQuota
    /\ part = "gateway" => GwTypeOK /\ RequestQuota

\* Payment tokens (cmd/payment, internal/payment): tokens stay valid across restarts and
\* restores, a blind signature unblinds to a valid one, and a slot costs a token.
TokensHold ==
    /\ part = "tokens" => TokTypeOK /\ TokensHonoured
    /\ part = "blind" => BlindTypeOK /\ BlindTokenValid
    /\ part = "fakeid" => TypeOK /\ SlotsCostTokens

\* Mailboxes (mail_store.go, object stores): until it is erased or pruned a stored message stays
\* listed and a read finds its newest content, whatever moves, drafts, backfill and pruning
\* interleave; its key opens that content but for saves that overlap or fail half way.
MailboxHolds == part = "mailbox" => MailTypeOK /\ MailKept

\* Pools of enclaves (internal/peer, DKIM pool of the outbound worker): members serve the key of
\* their certificate, which DNS names but for failed updates and keys that came up beside the
\* pool's; a published selector has no wrong record that is not expiring, and a deployment hands
\* over the keys it reports.
PoolsHold ==
    /\ part = "certs" => PeerTypeOK /\ PoolAgrees
    /\ part = "pool" => PoolTypeOK /\ PoolVerifiable

\* Calendar and contacts (calendar_store.go, contacts_store.go): copies of a meeting tell what
\* happened to it, and merging duplicates keeps what the user entered, but for the races and the
\* fields the two properties name.
RecordsHold ==
    /\ part = "calendar" => CalTypeOK /\ CalendarTruthful
    /\ part = "contacts" => BookTypeOK /\ ContactsKept

\* SPF and DMARC (auth_checks.go, pipeline.go:218-245): the verdict on the domain of MAIL FROM
\* is the one its records and the signatures mean, or an error past the limit of lookups.
PolicyHolds == part = "policy" => PolicyTypeOK /\ VerdictsSound
=============================================================================
