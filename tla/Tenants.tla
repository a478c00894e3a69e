------------------------------- MODULE Tenants -------------------------------
(***************************************************************************)
(* One custom domain: its tenant row, the proof that a claimant controls   *)
(* its DNS, its members, and the purge of squatted tenants.                *)
(* internal/storage/domain_store.go, role_store.go, the tenant functions   *)
(* of auth_store.go, internal/domain/provisioner.go and verify.go.         *)
(* A store call is one statement or one transaction; what a caller does    *)
(* with several calls interleaves.  The HTTP handlers that string the      *)
(* calls together are outside the repository and modelled from the         *)
(* comments of the functions they call.                                    *)
(***************************************************************************)
EXTENDS Naturals, FiniteSets, Tables

CONSTANTS
    TenantIDs,    \* ids the uuid generator can return; each is used once
    Claimants,    \* users who claim the domain
    Rightful,     \* the claimant who controls the domain's DNS
    Invitees,     \* further users who join by invitation
    Purgers,      \* purges that may run at a time
    MaxPurgeFaults, \* bound: statements of a purge that fail
    MaxDKIM,      \* bound: DKIM keys generated
    MaxEdits      \* bound: calls that open an operation

Members == Claimants \cup Invitees
TenRow == [owner: Members \cup {Null}, verified: BOOLEAN, dkim: 0..MaxDKIM]
MemberRec == [tenant: TenantIDs, role: {"none", "member", "admin", "owner"}]

ASSUME TenantsAssumption ==
    /\ Rightful \in Claimants /\ Claimants \cap Invitees = {}
    /\ Null \notin TenantIDs \cup Claimants \cup Invitees
    /\ Null \notin TenRow \cup MemberRec /\ Gone \notin TenRow
    /\ {MaxPurgeFaults, MaxDKIM, MaxEdits} \subseteq Nat

VARIABLES
    tenants,   \* tenant id -> row, Null or Gone
    members,   \* user -> [tenant, role] of its users row, or Null
    leaves,    \* kt_leaves: <<tenant, user>>
    aliases,   \* aliases and catch-all: <<tenant, target user>>
    checks,    \* domain_verifications: [tenant, by, status]; the token names the row
    dns,       \* the TXT record at _bmail-verify: the challenges published there
    ensure,    \* claimant -> where its EnsureTenant call stands
    verify,    \* the ownership check under way: a row of checks, or Null
    purge,     \* purger -> [pc, tenant, todo]
    pending,   \* publications of keys under way: <<tenant, user>>
    dkimKeys, purgeFaults, edits,
    published, \* observation: tenants whose owner published their challenge in the DNS
    orphans    \* observation: leaves written when their user had been deleted

leafVars == <<leaves, pending, orphans>>
tenVars == <<tenants, members, leafVars, aliases, checks, dns, ensure, verify, purge,
             dkimKeys, purgeFaults, edits, published>>

Challenge == [tenant: TenantIDs, by: Claimants, status: {"pending", "reclaim", "verified"}]

TenTypeOK ==
    /\ tenants \in [TenantIDs -> TenRow \cup {Null, Gone}]
    /\ members \in [Members -> MemberRec \cup {Null}]
    /\ leaves \cup pending \cup orphans \subseteq TenantIDs \X Members
    /\ aliases \subseteq TenantIDs \X Members
    /\ checks \subseteq Challenge
    /\ dns \subseteq [tenant: TenantIDs, by: Claimants]
    /\ ensure \in [Claimants -> [pc: {"idle", "lookup", "create", "refetch", "provision", "done",
                                      "own", "role"},
                                 tenant: TenantIDs \cup {Null}]]
    /\ verify \in Challenge \cup {Null}
    /\ purge \in [Purgers -> [pc: {"idle", "clear", "list", "users", "leaves", "row"},
                              tenant: TenantIDs \cup {Null}, todo: SUBSET Members]]
    /\ dkimKeys \in 0..MaxDKIM /\ purgeFaults \in 0..MaxPurgeFaults
    /\ edits \in 0..MaxEdits
    /\ published \subseteq TenantIDs

TenInit ==
    /\ tenants = [t \in TenantIDs |-> Null]
    /\ members = [u \in Members |-> Null]
    /\ leaves = {} /\ pending = {} /\ orphans = {}
    /\ aliases = {} /\ checks = {} /\ dns = {}
    /\ ensure = [c \in Claimants |-> [pc |-> "idle", tenant |-> Null]]
    /\ verify = Null
    /\ purge = [p \in Purgers |-> [pc |-> "idle", tenant |-> Null, todo |-> {}]]
    /\ dkimKeys = 0 /\ purgeFaults = 0 /\ edits = 0 /\ published = {}

-----------------------------------------------------------------------------
Stands(t) == t \in TenantIDs /\ tenants[t] \notin {Null, Gone}

\* GetTenantByDomain: the row that holds the domain; domain is unique.
Holder == IF \E t \in TenantIDs : Stands(t) THEN CHOOSE t \in TenantIDs : Stands(t) ELSE Null

\* DomainTaken
DomainTaken == Holder # Null

MembersOf(t) == {u \in Members : members[u] # Null /\ members[u].tenant = t}

roleLevel == [r \in {"none", "member", "admin", "owner"} |->
                CASE r = "owner" -> 2 [] r = "admin" -> 1 [] OTHER -> 0]

HasRole(u, t, minRole) ==
    u \in MembersOf(t) /\ members[u].role # "none" /\ roleLevel[members[u].role] >= roleLevel[minRole]

\* A new call, of a claimant, an administrator or a client.
Edit == edits < MaxEdits /\ edits' = edits + 1

-----------------------------------------------------------------------------
(* EnsureTenant and EnsureTenantWithDKIM. *)

\* A fresh key pair; 0 stands for an empty dkim_public_key.
generateDKIM == dkimKeys < MaxDKIM /\ dkimKeys' = dkimKeys + 1

\* A claim starts where the domain is free; another claim may come in between.
ClaimDomain(c) ==
    /\ Edit /\ ensure[c].pc = "idle" /\ ~DomainTaken
    /\ ensure' = [ensure EXCEPT ![c] = [pc |-> "lookup", tenant |-> Null]]
    /\ UNCHANGED <<tenants, members, leafVars, aliases, checks, dns, verify, purge, dkimKeys,
                   purgeFaults, published>>

EnsureLookup(c) ==
    /\ ensure[c].pc = "lookup"
    /\ ensure' = [ensure EXCEPT ![c] =
         IF DomainTaken
         THEN [pc |-> IF tenants[Holder].dkim = 0 THEN "provision" ELSE "done", tenant |-> Holder]
         ELSE [pc |-> "create", tenant |-> Null]]
    /\ UNCHANGED <<tenants, members, leafVars, aliases, checks, dns, verify, purge, dkimKeys,
                   purgeFaults, edits, published>>

\* provisionDKIM by tenant id; a failure to generate or to store is ignored, and the bare
\* EnsureTenant has no such step.
provisionDKIM(c) ==
    /\ ensure[c].pc = "provision"
    /\ ensure' = [ensure EXCEPT ![c].pc = "done"]
    /\ \/ /\ generateDKIM
          /\ tenants' = IF Stands(ensure[c].tenant)
                        THEN [tenants EXCEPT ![ensure[c].tenant].dkim = dkimKeys']
                        ELSE tenants
       \/ UNCHANGED <<tenants, dkimKeys>>
    /\ UNCHANGED <<members, leafVars, aliases, checks, dns, verify, purge, purgeFaults, edits, published>>

\* The insert, with a key (EnsureTenantWithDKIM) or without (EnsureTenant); a conflict on
\* the domain leaves the table alone.  EnsureTenantWithDKIM returns its own id when the
\* insert went through, EnsureTenant always reads the domain again.
EnsureCreate(c) ==
    /\ ensure[c].pc = "create"
    /\ \E t \in TenantIDs :
         /\ tenants[t] = Null
         /\ \/ dkimKeys' = dkimKeys
            \/ generateDKIM
         /\ IF DomainTaken
            THEN /\ UNCHANGED tenants
                 /\ ensure' = [ensure EXCEPT ![c].pc = "refetch"]
            ELSE /\ tenants' = [tenants EXCEPT ![t] =
                      [owner |-> Null, verified |-> FALSE,
                       dkim |-> IF dkimKeys' = dkimKeys THEN 0 ELSE dkimKeys']]
                 /\ ensure' = [ensure EXCEPT ![c] =
                      IF dkimKeys' = dkimKeys THEN [pc |-> "refetch", tenant |-> Null]
                                              ELSE [pc |-> "done", tenant |-> t]]
    /\ UNCHANGED <<members, leafVars, aliases, checks, dns, verify, purge, purgeFaults, edits, published>>

\* The domain may have been purged since; then the call fails.
EnsureRefetch(c) ==
    /\ ensure[c].pc = "refetch"
    /\ ensure' = [ensure EXCEPT ![c] =
         IF DomainTaken THEN [pc |-> "done", tenant |-> Holder]
                        ELSE [pc |-> "idle", tenant |-> Null]]
    /\ UNCHANGED <<tenants, members, leafVars, aliases, checks, dns, verify, purge, dkimKeys,
                   purgeFaults, edits, published>>

\* The claim goes on to pc, or ends.
Continue(c, ok, pc) ==
    ensure' = [ensure EXCEPT ![c] = IF ok THEN [pc |-> pc, tenant |-> ensure[c].tenant]
                                          ELSE [pc |-> "idle", tenant |-> Null]]

\* RegisterUser of the claimant in the tenant its call returned; the row needs a tenant that
\* is still there.
RegisterUser(c) ==
    /\ ensure[c].pc = "done"
    /\ LET t == ensure[c].tenant
           ok == Stands(t) /\ members[c] = Null
       IN /\ members' = IF ok THEN [members EXCEPT ![c] = [tenant |-> t, role |-> "none"]] ELSE members
          /\ Continue(c, ok, "own")
    /\ UNCHANGED <<tenants, leafVars, aliases, checks, dns, verify, purge, dkimKeys, purgeFaults, edits,
                   published>>

\* Whoever owned the tenant before: of two claims the later one wins.  It fails without the row
\* of the tenant or of the user it refers to.
UpdateTenantOwner(c) ==
    /\ ensure[c].pc = "own"
    /\ LET t == ensure[c].tenant
           ok == Stands(t) /\ members[c] # Null
       IN /\ tenants' = IF ok THEN [tenants EXCEPT ![t].owner = c] ELSE tenants
          /\ Continue(c, ok, "role")
    /\ UNCHANGED <<members, leafVars, aliases, checks, dns, verify, purge, dkimKeys, purgeFaults, edits,
                   published>>

\* AssignRole of the owner's role.
AssignOwner(c) ==
    /\ ensure[c].pc = "role"
    /\ members' = IF c \in MembersOf(ensure[c].tenant) THEN [members EXCEPT ![c].role = "owner"]
                                                      ELSE members
    /\ Continue(c, FALSE, "idle")
    /\ UNCHANGED <<tenants, leafVars, aliases, checks, dns, verify, purge, dkimKeys, purgeFaults, edits,
                   published>>

-----------------------------------------------------------------------------
(* Members. *)

\* The invitation belongs to the tenant and goes with it; an admin issued it.
RegisterInvitedUser(u, t) ==
    /\ Edit /\ u \in Invitees /\ members[u] = Null /\ Stands(t)
    /\ \E a \in Members : HasRole(a, t, "admin")
    /\ members' = [members EXCEPT ![u] = [tenant |-> t, role |-> "member"]]
    /\ UNCHANGED <<tenants, leafVars, aliases, checks, dns, ensure, verify, purge, dkimKeys,
                   purgeFaults, published>>

AssignRole(u, r) ==
    /\ Edit /\ members[u] # Null /\ members[u].role # "owner" /\ members[u].role # r
    /\ \E a \in Members : HasRole(a, members[u].tenant, "owner")
    /\ members' = [members EXCEPT ![u].role = r]
    /\ UNCHANGED <<tenants, leafVars, aliases, checks, dns, ensure, verify, purge, dkimKeys,
                   purgeFaults, published>>

\* A new key of the user: the caller asks for the epoch and writes the leaf in a later call.
AskEpoch(u) ==
    /\ Edit /\ members[u] # Null
    /\ LET l == <<members[u].tenant, u>> IN l \notin pending /\ pending' = pending \cup {l}
    /\ UNCHANGED <<tenants, members, leaves, orphans, aliases, checks, dns, ensure, verify, purge,
                   dkimKeys, purgeFaults, published>>

\* AddLeaf or AddOrUpdateLeaf: kt_leaves refers to no other table, so nothing is checked.
PublishLeaf(l) ==
    /\ l \in pending
    /\ pending' = pending \ {l} /\ leaves' = leaves \cup {l}
    /\ orphans' = IF l[2] \in MembersOf(l[1]) THEN orphans ELSE orphans \cup {l}
    /\ UNCHANGED <<tenants, members, aliases, checks, dns, ensure, verify, purge, dkimKeys,
                   purgeFaults, edits, published>>

\* CreateAlias or SetCatchAll, and DeleteAlias.
ChangeAliases(u) ==
    /\ Edit /\ members[u] # Null
    /\ \E a \in Members : HasRole(a, members[u].tenant, "admin")
    /\ LET al == <<members[u].tenant, u>>
       IN aliases' = IF al \in aliases THEN aliases \ {al} ELSE aliases \cup {al}
    /\ UNCHANGED <<tenants, members, leafVars, checks, dns, ensure, verify, purge, dkimKeys,
                   purgeFaults, published>>

-----------------------------------------------------------------------------
(* Proof of DNS control. *)

\* A challenge for the owner, or a reclaim challenge for somebody else's unverified tenant.
CreateVerification(c, t) ==
    /\ Edit /\ Stands(t) /\ ~tenants[t].verified
    /\ LET v == [tenant |-> t, by |-> c,
                 status |-> IF tenants[t].owner = c THEN "pending" ELSE "reclaim"]
       IN /\ tenants[t].owner # Null /\ v \notin checks
          /\ checks' = checks \cup {v}
          /\ dns' = IF c = Rightful THEN {[tenant |-> t, by |-> c]} ELSE dns
          /\ published' = IF c = Rightful /\ v.status = "pending"
                          THEN published \cup {t} ELSE published
    /\ UNCHANGED <<tenants, members, leafVars, aliases, ensure, verify, purge, dkimKeys,
                   purgeFaults>>

(* mutant: a token of the domain is there, not necessarily this row's *)
VerifyOwnershipTXTAny(v) == \E d \in dns : d.tenant = v.tenant

\* The row's token is in the TXT record.
VerifyOwnershipTXT(v) == [tenant |-> v.tenant, by |-> v.by] \in dns

\* GetPendingVerification and the DNS lookup; challenges expire, so any may be skipped.
CheckOwnership ==
    /\ verify = Null
    /\ \E v \in checks : v.status = "pending" /\ VerifyOwnershipTXT(v) /\ verify' = v
    /\ UNCHANGED <<tenants, members, leafVars, aliases, checks, dns, ensure, purge, dkimKeys,
                   purgeFaults, edits, published>>

\* UpdateTenantVerified by the tenant id of the challenge.
UpdateTenantVerified(v) ==
    tenants' = IF Stands(v.tenant) THEN [tenants EXCEPT ![v.tenant].verified = TRUE] ELSE tenants

\* MarkVerified and UpdateTenantVerified; the challenge may have gone with its tenant.
MarkVerified ==
    /\ verify # Null
    /\ checks' = IF verify \in checks
                 THEN (checks \ {verify}) \cup {[verify EXCEPT !.status = "verified"]} ELSE checks
    /\ UpdateTenantVerified(verify)
    /\ verify' = Null
    /\ UNCHANGED <<members, leafVars, aliases, dns, ensure, purge, dkimKeys, purgeFaults, edits, published>>

-----------------------------------------------------------------------------
(* PurgeTenant, statement by statement. *)

SetPurge(p, pc, t, todo) == purge' = [purge EXCEPT ![p] = [pc |-> pc, tenant |-> t, todo |-> todo]]

\* For the collector a row of ListStaleUnverifiedTenants, for the rightful owner a proved
\* reclaim challenge; both gate on a tenant that is not verified.
ListStaleUnverifiedTenants == {t \in TenantIDs : Stands(t) /\ ~tenants[t].verified
                                                 /\ tenants[t].owner # Null}

PurgeTenant(p, t) ==
    /\ purge[p].pc = "idle" /\ Stands(t) /\ ~tenants[t].verified
    /\ \/ t \in ListStaleUnverifiedTenants
       \/ \E v \in checks : v.tenant = t /\ v.status = "reclaim" /\ VerifyOwnershipTXT(v)
    /\ SetPurge(p, "clear", t, {})
    /\ UNCHANGED <<tenants, members, leafVars, aliases, checks, dns, ensure, verify, dkimKeys,
                   purgeFaults, edits, published>>

\* owner_user_id and catch_all_user_id become NULL.
PurgeClear(p) ==
    /\ purge[p].pc = "clear"
    /\ tenants' = IF Stands(purge[p].tenant) THEN [tenants EXCEPT ![purge[p].tenant].owner = Null]
                                           ELSE tenants
    /\ SetPurge(p, "list", purge[p].tenant, {})
    /\ UNCHANGED <<members, leafVars, aliases, checks, dns, ensure, verify, dkimKeys, purgeFaults, edits, published>>

ListUsersByTenant(p) ==
    /\ purge[p].pc = "list"
    /\ SetPurge(p, "users", purge[p].tenant, MembersOf(purge[p].tenant))
    /\ UNCHANGED <<tenants, members, leafVars, aliases, checks, dns, ensure, verify, dkimKeys,
                   purgeFaults, edits, published>>

\* A tenant's owner_user_id has no ON DELETE rule.
Owns(u) == \E t \in TenantIDs : Stands(t) /\ tenants[t].owner = u

\* PurgeUser deletes the row, the roles and the aliases of one listed user.  It fails, and with
\* it PurgeTenant, when another purge was faster, when the user was made owner since the owner
\* was cleared, and may fail for a user with aliases, one of which may be a new catch-all.
PurgeMember(p) ==
    /\ purge[p].pc = "users"
    /\ LET t == purge[p].tenant
       IN \/ /\ purge[p].todo = {}
             /\ SetPurge(p, "leaves", t, {})
             /\ UNCHANGED <<members, aliases>>
          \/ \E u \in purge[p].todo :
               /\ u \in MembersOf(t) /\ ~Owns(u)
               /\ SetPurge(p, "users", t, purge[p].todo \ {u})
               /\ members' = [members EXCEPT ![u] = Null]
               /\ aliases' = aliases \ {<<t, u>>}
          \/ \E u \in purge[p].todo :
               /\ u \notin MembersOf(t) \/ Owns(u) \/ <<t, u>> \in aliases
               /\ SetPurge(p, "idle", Null, {})
               /\ UNCHANGED <<members, aliases>>
    /\ UNCHANGED <<tenants, leafVars, checks, dns, ensure, verify, dkimKeys, purgeFaults, edits, published>>

PurgeLeaves(p) ==
    /\ purge[p].pc = "leaves"
    /\ leaves' = {l \in leaves : l[1] # purge[p].tenant}
    /\ SetPurge(p, "row", purge[p].tenant, {})
    /\ UNCHANGED <<pending, orphans, tenants, members, aliases, checks, dns, ensure, verify, dkimKeys, purgeFaults, edits, published>>

\* The row goes and its challenges and aliases with it, unless users still refer to it.
PurgeRow(p) ==
    /\ purge[p].pc = "row"
    /\ LET t == purge[p].tenant
           ok == Stands(t) /\ MembersOf(t) = {}
       IN /\ tenants' = IF ok THEN [tenants EXCEPT ![t] = Gone] ELSE tenants
          /\ checks' = IF ok THEN {v \in checks : v.tenant # t} ELSE checks
          /\ aliases' = IF ok THEN {a \in aliases : a[1] # t} ELSE aliases
    /\ SetPurge(p, "idle", Null, {})
    /\ UNCHANGED <<members, leafVars, dns, ensure, verify, dkimKeys, purgeFaults, edits, published>>

\* Any statement may fail; nothing is undone.
PurgeFails(p) ==
    /\ purge[p].pc # "idle" /\ purgeFaults < MaxPurgeFaults
    /\ purgeFaults' = purgeFaults + 1
    /\ SetPurge(p, "idle", Null, {})
    /\ UNCHANGED <<tenants, members, leafVars, aliases, checks, dns, ensure, verify, dkimKeys, edits, published>>

-----------------------------------------------------------------------------
TenNext ==
    \/ \E c \in Claimants : \/ ClaimDomain(c) \/ EnsureLookup(c) \/ provisionDKIM(c)
                            \/ EnsureCreate(c) \/ EnsureRefetch(c)
                            \/ RegisterUser(c) \/ UpdateTenantOwner(c) \/ AssignOwner(c)
                            \/ \E t \in TenantIDs : CreateVerification(c, t)
    \/ \E u \in Members : \/ \E t \in TenantIDs : RegisterInvitedUser(u, t)
                          \/ \E r \in {"none", "member", "admin"} : AssignRole(u, r)
                          \/ AskEpoch(u) \/ ChangeAliases(u)
    \/ \E l \in pending : PublishLeaf(l)
    \/ CheckOwnership \/ MarkVerified
    \/ \E p \in Purgers : \/ \E t \in TenantIDs : PurgeTenant(p, t)
                          \/ PurgeClear(p) \/ ListUsersByTenant(p) \/ PurgeMember(p)
                          \/ PurgeLeaves(p) \/ PurgeRow(p) \/ PurgeFails(p)

TenSpec == TenInit /\ [][TenNext]_tenVars

-----------------------------------------------------------------------------
\* A tenant is verified by its own challenge: the owner of the domain's DNS published the
\* token of this very tenant while owning it.  A check made before the tenant was purged and
\* the domain claimed anew never verifies the next tenant (UpdateTenantVerified).
VerifiedByOwnProof ==
    \A t \in TenantIDs : Stands(t) /\ tenants[t].verified => t \in published

\* However a purge, registrations, rival claims and key changes interleave, no user, alias or
\* challenge refers to a tenant that PurgeTenant removed; no leaf of the transparency log does
\* that was written while its user existed, though kt_leaves has no foreign key (a leaf written
\* after its user was deleted may stay: nothing in the code prevents that); and EnsureTenant
\* never hands out an id that no row ever had.  (It takes one purge at a time: of two purges of
\* one tenant the slower may remove the row between the other's statements.)
NothingOutlivesTenant ==
    /\ \A u \in Members : members[u] # Null => Stands(members[u].tenant)
    /\ \A l \in leaves : Stands(l[1]) \/ l \in orphans
    /\ \A a \in aliases : Stands(a[1])
    /\ \A v \in checks : Stands(v.tenant)
    /\ \A c \in Claimants : ensure[c].tenant # Null => tenants[ensure[c].tenant] # Null

=============================================================================
