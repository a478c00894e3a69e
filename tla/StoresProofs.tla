---------------------------- MODULE StoresProofs ----------------------------
(***************************************************************************)
(* Proofs about the stores gathered in MCStores.  A component's invariant  *)
(* is kept by its own steps; the steps of the others leave its state       *)
(* alone, so it holds whatever component a behaviour runs.                 *)
(***************************************************************************)
EXTENDS MCStores, FiniteSetTheorems, TLAPS

-----------------------------------------------------------------------------
(* Sessions and backup addresses.                                          *)

(* A row in the table belongs to a session that was created and has not    *)
(* ended, and says how long its refresh token lives; the token of the      *)
(* settings row was mailed to the address next to it.                      *)
SesInv ==
    /\ SesTypeOK /\ EndedSessionsOnly /\ BackupEmailProven
    /\ \A s \in LiveSessions : s \in created /\ until[s] = table[s].refreshExpires
    /\ backup.token # 0 => mailed[backup.token] = backup.email

LEMMA SessionsPart ==
    ASSUME [StoresNext]_storesVars
    PROVE  [SesNext]_sesVars
  BY DEF StoresNext, Only, storesVars

LEMMA SessionsStart == SesInit => SesInv
  BY SessionsAssumption
  DEF SesInit, SesInv, SesTypeOK, EndedSessionsOnly, BackupEmailProven, LiveSessions

(* What giving session s a fresh row does.                                 *)
LEMMA FreshRow ==
    ASSUME SesInv, NEW s \in SessionIDs, Issue, SetFresh(s), s \in created' \ ended', ended' = ended,
           created \subseteq created', created' \subseteq created \union {s},
           UNCHANGED <<day, backupVars>>, reqs' \in [Requests -> SessionIDs \cup {NoSession}]
    PROVE  SesInv'
  <1> USE SessionsAssumption
  <1>1. Fresh \in SessionRow /\ Fresh # NoSession /\ Fresh.refreshExpires = day + Refresh /\ day + Refresh \in Nat
    BY DEF Fresh, Issue, SesInv, SesTypeOK, SessionRow
  <1>2. /\ table'[s] = Fresh /\ until'[s] = day + Refresh
        /\ \A r \in SessionIDs : r # s => table'[r] = table[r] /\ until'[r] = until[r]
    BY DEF SetFresh, SesInv, SesTypeOK
  <1>3. SesTypeOK'
    BY <1>1, SMTT(30) DEF SesInv, SesTypeOK, SetFresh, Issue, backupVars
  <1>4. EndedSessionsOnly'
    BY <1>1, <1>2, <1>3 DEF SesInv, SesTypeOK, EndedSessionsOnly
  <1>5. \A r \in LiveSessions' : r \in created' /\ until'[r] = table'[r].refreshExpires
    BY <1>1, <1>2 DEF SesInv, LiveSessions
  <1> QED
    BY <1>3, <1>4, <1>5 DEF SesInv, BackupEmailProven, backupVars

(* Dropping sessions that ended, or whose refresh token expired.           *)
LEMMA RowsDropped ==
    ASSUME SesInv, NEW S \in SUBSET LiveSessions, Drop(S),
           ended' \in {ended, ended \union S}, \A s \in S : s \in ended' \/ until[s] < day,
           UNCHANGED <<day, created, until, issued, reqs, backupVars>>
    PROVE  SesInv'
  <1>1. \A s \in SessionIDs : table'[s] = IF s \in S THEN NoSession ELSE table[s]
    BY DEF Drop
  <1>2. SesTypeOK'
    BY <1>1 DEF SesInv, SesTypeOK, Drop, LiveSessions, backupVars
  <1>3. EndedSessionsOnly'
    BY <1>1 DEF SesInv, SesTypeOK, EndedSessionsOnly, LiveSessions
  <1>4. \A s \in LiveSessions' : s \in created' /\ until'[s] = table'[s].refreshExpires
    BY <1>1 DEF SesInv, LiveSessions
  <1> QED
    BY <1>2, <1>3, <1>4 DEF SesInv, BackupEmailProven, backupVars

LEMMA SessionsStep ==
    ASSUME SesInv, [SesNext]_sesVars
    PROVE  SesInv'
  <1> USE SessionsAssumption
  <1>1. CASE UNCHANGED sesVars
    BY <1>1 DEF SesInv, sesVars, SesTypeOK, EndedSessionsOnly, BackupEmailProven, LiveSessions
  <1>2. ASSUME NEW s \in SessionIDs, CreateSession(s)
        PROVE  SesInv'
    BY <1>2, FreshRow DEF CreateSession, SesInv, SesTypeOK, backupVars
  <1>3. ASSUME NEW S \in SUBSET LiveSessions, EndSessions(S)
        PROVE  SesInv'
    BY <1>3, RowsDropped DEF EndSessions
  <1>4. ASSUME NEW r \in Requests, LookupRefresh(r)
        PROVE  SesInv'
    BY <1>4 DEF LookupRefresh, SesInv, SesTypeOK, EndedSessionsOnly, BackupEmailProven, LiveSessions, backupVars
  <1>5. ASSUME NEW r \in Requests, UpdateSessionRefreshAndToken(r)
        PROVE  SesInv'
    <2>1. CASE reqs[r] \in LiveSessions
      <3>1. reqs[r] \in SessionIDs /\ reqs[r] \in created \ ended
        BY <2>1 DEF LiveSessions, SesInv, EndedSessionsOnly
      <3>2. reqs' \in [Requests -> SessionIDs \cup {NoSession}]
        BY <1>5 DEF UpdateSessionRefreshAndToken, SesInv, SesTypeOK
      <3> QED
        BY <1>5, <2>1, <3>1, <3>2, FreshRow DEF UpdateSessionRefreshAndToken
    <2>2. CASE reqs[r] \notin LiveSessions
      BY <1>5, <2>2 DEF UpdateSessionRefreshAndToken, SesInv, SesTypeOK, EndedSessionsOnly,
         BackupEmailProven, LiveSessions, backupVars
    <2> QED
      BY <2>1, <2>2
  <1>6. ASSUME NEW e \in Emails, SetBackupEmail(e)
        PROVE  SesInv'
    BY <1>6 DEF SetBackupEmail, Issue, SesInv, SesTypeOK, EndedSessionsOnly, BackupEmailProven, LiveSessions
  <1>7. ASSUME NEW t \in 1..MaxTokens, VerifyBackupEmail(t)
        PROVE  SesInv'
    <2>1. backup' = [backup EXCEPT !.verified = TRUE, !.token = 0, !.expires = 0]
      BY <1>7 DEF VerifyBackupEmail
    <2>2. /\ backup' \in [email: Emails \cup {NoEmail}, verified: BOOLEAN, token: 0..MaxTokens, expires: Nat]
          /\ backup'.email = backup.email /\ backup'.token = 0
      <3>1. backup \in [email: Emails \cup {NoEmail}, verified: BOOLEAN, token: 0..MaxTokens, expires: Nat]
        BY DEF SesInv, SesTypeOK
      <3>2. 0 \in 0..MaxTokens
        OBVIOUS
      <3> QED
        BY <2>1, <3>1, <3>2
    <2>3. mailed[t] \in Emails /\ mailed[t] = backup.email
      BY <1>7 DEF VerifyBackupEmail, SesInv, SesTypeOK
    <2>4. SesTypeOK' /\ BackupEmailProven'
      BY <1>7, <2>2, <2>3 DEF VerifyBackupEmail, SesInv, SesTypeOK, BackupEmailProven
    <2> QED
      BY <1>7, <2>2, <2>4 DEF VerifyBackupEmail, SesInv, EndedSessionsOnly, LiveSessions
  <1>8. CASE NextDay
    BY <1>8 DEF NextDay, SesInv, SesTypeOK, EndedSessionsOnly, BackupEmailProven, LiveSessions, backupVars
  <1>9. CASE PurgeExpiredSessions
    <2>1. \A s \in ExpiredSessions : until[s] < day
      BY DEF ExpiredSessions, SesInv
    <2> QED
      BY <1>9, <2>1, RowsDropped DEF PurgeExpiredSessions, ExpiredSessions
  <1>10. ASSUME NEW s \in SessionIDs, DeleteSession(s) \/ DeleteSessionsExcept(s)
         PROVE  SesInv'
    BY <1>3, <1>10 DEF DeleteSession, DeleteSessionsExcept
  <1>11. CASE DeleteAllSessions
    BY <1>3, <1>11 DEF DeleteAllSessions
  <1> QED
    BY <1>1, <1>2, <1>4, <1>5, <1>6, <1>7, <1>8, <1>9, <1>10, <1>11 DEF SesNext

(* SessionsHold.  Whatever refreshes are in flight, a session that its     *)
(* owner, recovery or the wipe has ended is not revived by                 *)
(* UpdateSessionRefreshAndToken, PurgeExpiredSessions ends none whose      *)
(* refresh token is valid, and only a confirmed backup address counts.     *)
THEOREM SessionsEndForCause == StoresSpec => []SessionsHold
  <1>1. StoresInit => SesInv
    BY SessionsStart DEF StoresInit
  <1>2. SesInv /\ [StoresNext]_storesVars => SesInv'
    BY SessionsPart, SessionsStep
  <1>3. SesInv => SessionsHold
    BY DEF SesInv, SessionsHold
  <1> QED
    BY <1>1, <1>2, <1>3, PTL DEF StoresSpec

-----------------------------------------------------------------------------
(* Custom domains.                                                         *)

(* One purge at a time, as the collector and the reclaim run it.           *)
OnePurge == \A p, q \in Purgers : p = q

(* A challenge of the owner of the DNS was published while it owned the    *)
(* tenant, and so was the one under verification; only that owner writes   *)
(* to the DNS.                                                             *)
ProofInv ==
    /\ \A v \in checks : v.status = "pending" /\ v.by = Rightful => v.tenant \in published
    /\ \A d \in dns : d.by = Rightful
    /\ verify # Null => verify.tenant \in published
    /\ VerifiedByOwnProof

(* What a purge that is about to delete the row has not deleted belongs to *)
(* a user who still refers to the row, or was written without its user.    *)
PurgeInv ==
    /\ \A p \in Purgers : purge[p].pc = "row" =>
         \A l \in leaves : l[1] = purge[p].tenant => l[2] \in MembersOf(purge[p].tenant) \/ l \in orphans
    /\ NothingOutlivesTenant

LEMMA TenantsPart ==
    ASSUME [StoresNext]_storesVars
    PROVE  [TenNext]_tenVars
  BY DEF StoresNext, Only, storesVars

(* Where a claimant's call and a purge stand.                              *)
EnsureRec == [pc: {"idle", "lookup", "create", "refetch", "provision", "done", "own", "role"},
              tenant: TenantIDs \cup {Null}]
PurgeRec == [pc: {"idle", "clear", "list", "users", "leaves", "row"},
             tenant: TenantIDs \cup {Null}, todo: SUBSET Members]

LEMMA TenantBounds == MaxPurgeFaults \in Nat /\ MaxDKIM \in Nat /\ MaxEdits \in Nat
  BY TenantsAssumption

(* The operations of the tenants keep their counters within the bounds.    *)
LEMMA EditCounts ==
    ASSUME TenTypeOK
    PROVE  /\ Edit => edits' \in 0..MaxEdits
           /\ generateDKIM => dkimKeys' \in 0..MaxDKIM /\ dkimKeys' # dkimKeys
  <1>1. edits \in 0..MaxEdits /\ dkimKeys \in 0..MaxDKIM
    BY DEF TenTypeOK
  <1> QED
    BY <1>1, TenantBounds DEF Edit, generateDKIM

LEMMA StandingRow ==
    ASSUME TenTypeOK, NEW t, Stands(t)
    PROVE  t \in TenantIDs /\ tenants[t] \in TenRow
  BY DEF Stands, TenTypeOK

LEMMA HolderStands ==
    ASSUME DomainTaken
    PROVE  Stands(Holder) /\ Holder \in TenantIDs
  BY DEF DomainTaken, Holder, Stands

(* A claim that continues or ends.                                         *)
LEMMA ClaimContinues ==
    ASSUME TenTypeOK, NEW c \in Claimants, NEW ok \in BOOLEAN, NEW k \in {"own", "role", "idle"},
           Continue(c, ok, k)
    PROVE  /\ ensure' \in [Claimants -> EnsureRec]
           /\ \A d \in Claimants : ensure'[d].tenant # Null => ensure'[d].tenant = ensure[d].tenant
  <1>1. ensure \in [Claimants -> EnsureRec]
    BY DEF TenTypeOK, EnsureRec
  <1>2. PICK t \in TenantIDs \cup {Null} : t = ensure[c].tenant
    BY <1>1 DEF EnsureRec
  <1>3. [pc |-> k, tenant |-> t] \in EnsureRec /\ [pc |-> "idle", tenant |-> Null] \in EnsureRec
    BY DEF EnsureRec
  <1>4. PICK x \in EnsureRec : ensure' = [ensure EXCEPT ![c] = x] /\ (x.tenant = t \/ x.tenant = Null)
    BY <1>2, <1>3 DEF Continue
  <1> QED
    BY <1>1, <1>2, <1>4

LEMMA TenantsType ==
    ASSUME TenTypeOK, [TenNext]_tenVars
    PROVE  TenTypeOK'
  <1> USE TenantsAssumption, TablesAssumption DEF leafVars
  <1>1. CASE UNCHANGED tenVars
    BY <1>1 DEF TenTypeOK, tenVars
  <1>2. ASSUME NEW c \in Claimants, EnsureLookup(c)
        PROVE  TenTypeOK'
    BY <1>2, HolderStands DEF EnsureLookup, TenTypeOK
  <1>3. ASSUME NEW c \in Claimants, provisionDKIM(c)
        PROVE  TenTypeOK'
    <2>1. ensure' \in [Claimants -> EnsureRec]
      BY <1>3 DEF provisionDKIM, TenTypeOK, EnsureRec
    <2>2. dkimKeys' \in 0..MaxDKIM
      BY <1>3, EditCounts DEF provisionDKIM, TenTypeOK
    <2>3. tenants' \in [TenantIDs -> TenRow \cup {Null, Gone}]
      <3>1. CASE Stands(ensure[c].tenant) /\ tenants' = [tenants EXCEPT ![ensure[c].tenant].dkim = dkimKeys']
        <4>1. tenants[ensure[c].tenant] \in TenRow /\ ensure[c].tenant \in TenantIDs
          BY <3>1, StandingRow
        <4>2. [tenants[ensure[c].tenant] EXCEPT !.dkim = dkimKeys'] \in TenRow
          BY <2>2, <4>1 DEF TenRow
        <4> QED
          BY <3>1, <4>1, <4>2 DEF TenTypeOK
      <3> QED
        BY <1>3, <3>1 DEF provisionDKIM, TenTypeOK
    <2> QED
      BY <1>3, <2>1, <2>2, <2>3 DEF provisionDKIM, TenTypeOK, EnsureRec
  <1>4. ASSUME NEW c \in Claimants, EnsureCreate(c)
        PROVE  TenTypeOK'
    <2>1. dkimKeys' \in 0..MaxDKIM
      BY <1>4, EditCounts DEF EnsureCreate, TenTypeOK
    <2>2. PICK t \in TenantIDs, k \in 0..MaxDKIM :
            \/ UNCHANGED tenants
            \/ tenants' = [tenants EXCEPT ![t] = [owner |-> Null, verified |-> FALSE, dkim |-> k]]
      BY <1>4, <2>1, TenantBounds DEF EnsureCreate
    <2>3. [owner |-> Null, verified |-> FALSE, dkim |-> k] \in TenRow
      BY DEF TenRow
    <2>4. tenants' \in [TenantIDs -> TenRow \cup {Null, Gone}]
      BY <2>2, <2>3 DEF TenTypeOK
    <2>5. ensure' \in [Claimants -> EnsureRec]
      <3>1. ensure \in [Claimants -> EnsureRec]
        BY DEF TenTypeOK, EnsureRec
      <3>2. PICK x \in EnsureRec : ensure' = [ensure EXCEPT ![c] = x]
        <4>1. [ensure[c] EXCEPT !.pc = "refetch"] \in EnsureRec /\ [pc |-> "refetch", tenant |-> Null] \in EnsureRec
          BY <3>1 DEF EnsureRec
        <4>2. \A t1 \in TenantIDs : [pc |-> "done", tenant |-> t1] \in EnsureRec
          BY DEF EnsureRec
        <4> QED
          BY <1>4, <3>1, <4>1, <4>2 DEF EnsureCreate
      <3> QED
        BY <3>1, <3>2
    <2> QED
      BY <1>4, <2>1, <2>4, <2>5 DEF EnsureCreate, TenTypeOK, EnsureRec
  <1>5. ASSUME NEW c \in Claimants, EnsureRefetch(c)
        PROVE  TenTypeOK'
    BY <1>5, HolderStands DEF EnsureRefetch, TenTypeOK
  <1>6. ASSUME NEW c \in Claimants, UpdateTenantOwner(c)
        PROVE  TenTypeOK'
    <2>1. PICK ok \in BOOLEAN : Continue(c, ok, "role")
      BY <1>6 DEF UpdateTenantOwner
    <2>2. ensure' \in [Claimants -> EnsureRec]
      BY <2>1, ClaimContinues
    <2>3. tenants' \in [TenantIDs -> TenRow \cup {Null, Gone}]
      BY <1>6, StandingRow, ZenonT(60) DEF UpdateTenantOwner, TenTypeOK, TenRow, Members
    <2> QED
      BY <1>6, <2>2, <2>3 DEF UpdateTenantOwner, TenTypeOK, EnsureRec
  <1>7. ASSUME NEW c \in Claimants, NEW t \in TenantIDs, CreateVerification(c, t)
        PROVE  TenTypeOK'
    <2>1. PICK k \in {"pending", "reclaim"} : checks' = checks \cup {[tenant |-> t, by |-> c, status |-> k]}
      BY <1>7 DEF CreateVerification
    <2>2. [tenant |-> t, by |-> c, status |-> k] \in Challenge
      BY DEF Challenge
    <2>3. checks' \subseteq Challenge
      BY <2>1, <2>2 DEF TenTypeOK
    <2>4. dns' \subseteq [tenant: TenantIDs, by: Claimants]
      <3>1. dns \subseteq [tenant: TenantIDs, by: Claimants]
        BY DEF TenTypeOK
      <3>2. dns' = dns \/ dns' = {[tenant |-> t, by |-> c]}
        BY <1>7 DEF CreateVerification
      <3> QED
        BY <3>1, <3>2
    <2>5. published' \subseteq TenantIDs /\ edits' \in 0..MaxEdits
      BY <1>7, EditCounts DEF CreateVerification, TenTypeOK
    <2> QED
      BY <1>7, <2>3, <2>4, <2>5 DEF CreateVerification, TenTypeOK
  <1>8. ASSUME NEW u \in Members, NEW t \in TenantIDs, RegisterInvitedUser(u, t)
        PROVE  TenTypeOK'
    BY <1>8, EditCounts, ZenonT(40) DEF RegisterInvitedUser, TenTypeOK, MemberRec
  <1>9. ASSUME NEW u \in Members, NEW r \in {"none", "member", "admin"}, AssignRole(u, r)
        PROVE  TenTypeOK'
    BY <1>9, EditCounts, ZenonT(60) DEF AssignRole, TenTypeOK, MemberRec
  <1>10. ASSUME NEW u \in Members, AskEpoch(u) \/ ChangeAliases(u)
         PROVE  TenTypeOK'
    <2>1. members[u] # Null /\ <<members[u].tenant, u>> \in TenantIDs \X Members
      BY <1>10, ZenonT(40) DEF AskEpoch, ChangeAliases, TenTypeOK, MemberRec
    <2> QED
      BY <1>10, <2>1, EditCounts DEF AskEpoch, ChangeAliases, TenTypeOK
  <1>11. CASE CheckOwnership
    BY <1>11 DEF CheckOwnership, TenTypeOK
  <1>12. CASE MarkVerified
    <2>1. verify \in Challenge /\ [verify EXCEPT !.status = "verified"] \in Challenge
      BY <1>12 DEF MarkVerified, TenTypeOK, Challenge
    <2>2. tenants' \in [TenantIDs -> TenRow \cup {Null, Gone}]
      BY <1>12, StandingRow, ZenonT(60) DEF MarkVerified, UpdateTenantVerified, TenTypeOK, TenRow
    <2> QED
      BY <1>12, <2>1, <2>2 DEF MarkVerified, TenTypeOK
  <1>13. ASSUME NEW p \in Purgers, NEW t \in TenantIDs, PurgeTenant(p, t)
         PROVE  TenTypeOK'
    BY <1>13 DEF PurgeTenant, SetPurge, TenTypeOK
  <1>14. ASSUME NEW p \in Purgers, PurgeClear(p)
         PROVE  TenTypeOK'
    BY <1>14, StandingRow DEF PurgeClear, SetPurge, TenTypeOK, TenRow
  <1>15. ASSUME NEW p \in Purgers, ListUsersByTenant(p)
         PROVE  TenTypeOK'
    BY <1>15 DEF ListUsersByTenant, SetPurge, TenTypeOK, MembersOf
  <1>16. ASSUME NEW p \in Purgers, PurgeMember(p)
         PROVE  TenTypeOK'
    <2>1. members' \in [Members -> MemberRec \cup {Null}]
      BY <1>16 DEF PurgeMember, TenTypeOK
    <2>2. purge' \in [Purgers -> PurgeRec]
      <3>1. purge \in [Purgers -> PurgeRec]
        BY DEF TenTypeOK, PurgeRec
      <3>2. PICK x : x = purge[p] /\ x \in PurgeRec /\ x.tenant \in TenantIDs \cup {Null} /\ x.todo \subseteq Members
        BY <3>1 DEF PurgeRec
      <3>3. /\ [pc |-> "leaves", tenant |-> x.tenant, todo |-> {}] \in PurgeRec
            /\ [pc |-> "idle", tenant |-> Null, todo |-> {}] \in PurgeRec
            /\ \A u : [pc |-> "users", tenant |-> x.tenant, todo |-> x.todo \ {u}] \in PurgeRec
        BY <3>2 DEF PurgeRec
      <3>4. PICK y \in PurgeRec : purge' = [purge EXCEPT ![p] = y]
        BY <1>16, <3>2, <3>3 DEF PurgeMember, SetPurge
      <3> QED
        BY <3>1, <3>4
    <2> QED
      BY <1>16, <2>1, <2>2 DEF PurgeMember, TenTypeOK, PurgeRec
  <1>17. ASSUME NEW p \in Purgers, PurgeLeaves(p) \/ PurgeFails(p)
         PROVE  TenTypeOK'
    <2>1. purge' \in [Purgers -> PurgeRec]
      <3>1. purge \in [Purgers -> PurgeRec]
        BY DEF TenTypeOK, PurgeRec
      <3>2. PICK x : x = purge[p].tenant /\ x \in TenantIDs \cup {Null}
        BY <3>1 DEF PurgeRec
      <3>3. [pc |-> "row", tenant |-> x, todo |-> {}] \in PurgeRec /\ [pc |-> "idle", tenant |-> Null, todo |-> {}] \in PurgeRec
        BY <3>2 DEF PurgeRec
      <3> QED
        BY <1>17, <3>1, <3>2, <3>3 DEF PurgeLeaves, PurgeFails, SetPurge
    <2>2. purgeFaults' \in 0..MaxPurgeFaults
      <3>1. purgeFaults \in 0..MaxPurgeFaults
        BY DEF TenTypeOK
      <3> QED
        BY <1>17, <3>1, TenantBounds DEF PurgeLeaves, PurgeFails
    <2> QED
      BY <1>17, <2>1, <2>2 DEF PurgeLeaves, PurgeFails, TenTypeOK, PurgeRec
  <1>18. ASSUME NEW p \in Purgers, PurgeRow(p)
         PROVE  TenTypeOK'
    BY <1>18 DEF PurgeRow, SetPurge, TenTypeOK
  <1>19. ASSUME NEW c \in Claimants, ClaimDomain(c)
         PROVE  TenTypeOK'
    BY <1>19, EditCounts DEF ClaimDomain, TenTypeOK
  <1>20. ASSUME NEW c \in Claimants, RegisterUser(c)
         PROVE  TenTypeOK'
    <2>1. PICK ok \in BOOLEAN : Continue(c, ok, "own")
      BY <1>20 DEF RegisterUser
    <2>2. ensure' \in [Claimants -> EnsureRec]
      BY <2>1, ClaimContinues
    <2>3. members' \in [Members -> MemberRec \cup {Null}]
      <3>1. Stands(ensure[c].tenant) => [tenant |-> ensure[c].tenant, role |-> "none"] \in MemberRec
        BY StandingRow, ZenonT(40) DEF MemberRec
      <3> QED
        BY <1>20, <3>1, ZenonT(40) DEF RegisterUser, TenTypeOK, Members
    <2> QED
      BY <1>20, <2>2, <2>3 DEF RegisterUser, TenTypeOK, EnsureRec
  <1>21. ASSUME NEW c \in Claimants, AssignOwner(c)
         PROVE  TenTypeOK'
    <2>1. ensure' \in [Claimants -> EnsureRec]
      BY <1>21, ClaimContinues DEF AssignOwner
    <2>2. members' \in [Members -> MemberRec \cup {Null}]
      <3>1. CASE UNCHANGED members
        BY <3>1 DEF TenTypeOK
      <3>2. CASE c \in MembersOf(ensure[c].tenant) /\ members' = [members EXCEPT ![c].role = "owner"]
        <4>1. c \in Members /\ members[c] \in MemberRec
          BY <3>2 DEF MembersOf, TenTypeOK
        <4>2. [members[c] EXCEPT !.role = "owner"] \in MemberRec
          BY <4>1 DEF MemberRec
        <4> QED
          BY <3>2, <4>1, <4>2 DEF TenTypeOK
      <3> QED
        BY <1>21, <3>1, <3>2 DEF AssignOwner
    <2> QED
      BY <1>21, <2>1, <2>2 DEF AssignOwner, TenTypeOK, EnsureRec
  <1>22. ASSUME NEW l \in pending, PublishLeaf(l)
         PROVE  TenTypeOK'
    BY <1>22 DEF PublishLeaf, TenTypeOK
  <1> QED
    BY ZenonT(40), <1>1, <1>2, <1>3, <1>4, <1>5, <1>6, <1>7, <1>8, <1>9, <1>10, <1>11, <1>12, <1>13, <1>14,
       <1>15, <1>16, <1>17, <1>18, <1>19, <1>20, <1>21, <1>22 DEF TenNext

(* A row that has been there is never forgotten, goes only with PurgeRow,  *)
(* and becomes verified only by MarkVerified.                              *)
RowKept(t) ==
    /\ tenants[t] # Null => tenants'[t] # Null
    /\ Stands(t) => Stands(t)' \/ \E p \in Purgers : PurgeRow(p) /\ purge[p].tenant = t /\ MembersOf(t) = {}
    /\ Stands(t)' /\ tenants'[t].verified =>
         (Stands(t) /\ tenants[t].verified) \/ (MarkVerified /\ t = verify.tenant)

LEMMA RowsKept ==
    ASSUME TenTypeOK, TenTypeOK', [TenNext]_tenVars, NEW t \in TenantIDs
    PROVE  RowKept(t)
  <1> USE TenantsAssumption, TablesAssumption DEF RowKept, leafVars
  <1>1. CASE UNCHANGED tenants
    BY <1>1 DEF Stands
  <1>2. ASSUME NEW c \in Claimants, provisionDKIM(c)
        PROVE  RowKept(t)
    <2>1. CASE Stands(ensure[c].tenant) /\ tenants' = [tenants EXCEPT ![ensure[c].tenant].dkim = dkimKeys']
      <3>1. tenants[ensure[c].tenant] \in TenRow /\ ensure[c].tenant \in TenantIDs
        BY <2>1, StandingRow
      <3>2. tenants'[ensure[c].tenant] = [tenants[ensure[c].tenant] EXCEPT !.dkim = dkimKeys']
        BY <2>1, <3>1 DEF TenTypeOK
      <3>3. tenants'[ensure[c].tenant] \in TenRow /\ tenants'[ensure[c].tenant].verified = tenants[ensure[c].tenant].verified
        BY <1>2, <3>1, <3>2 DEF TenRow, provisionDKIM, generateDKIM, TenTypeOK
      <3> QED
        BY <2>1, <3>1, <3>3, ZenonT(60) DEF Stands, TenTypeOK
    <2> QED
      BY <1>1, <1>2, <2>1 DEF provisionDKIM
  <1>3. ASSUME NEW c \in Claimants, EnsureCreate(c)
        PROVE  RowKept(t)
    <2>1. PICK x \in TenantIDs, k \in 0..MaxDKIM :
            tenants[x] = Null /\ (UNCHANGED tenants \/ tenants' = [tenants EXCEPT ![x] = [owner |-> Null, verified |-> FALSE, dkim |-> k]])
      <3>1. dkimKeys' \in 0..MaxDKIM
        BY DEF TenTypeOK
      <3>2. 0 \in 0..MaxDKIM
        BY TenantBounds
      <3> QED
        BY <1>3, <3>1, <3>2 DEF EnsureCreate
    <2>2. [owner |-> Null, verified |-> FALSE, dkim |-> k] \in TenRow
      BY DEF TenRow
    <2>3. CASE tenants' = [tenants EXCEPT ![x] = [owner |-> Null, verified |-> FALSE, dkim |-> k]]
      <3>1. /\ tenants'[x] \in TenRow /\ ~tenants'[x].verified
            /\ \A y \in TenantIDs : y # x => tenants'[y] = tenants[y]
        BY <2>2, <2>3 DEF TenTypeOK
      <3> QED
        BY <2>1, <3>1 DEF Stands
    <2> QED
      BY <1>1, <2>1, <2>3
  <1>4. ASSUME NEW x, Stands(x), NEW o \in Members \union {Null}, tenants' = [tenants EXCEPT ![x].owner = o]
        PROVE  RowKept(t)
    <2>1. tenants[x] \in TenRow /\ x \in TenantIDs
      BY <1>4, StandingRow
    <2>2. tenants'[x] \in TenRow /\ tenants'[x].verified = tenants[x].verified
      BY <1>4, <2>1 DEF TenRow, TenTypeOK
    <2> QED
      BY <1>4, <2>1, <2>2, ZenonT(60) DEF Stands, TenTypeOK
  <1>5. ASSUME NEW c \in Claimants, UpdateTenantOwner(c)
        PROVE  RowKept(t)
    BY <1>1, <1>4, <1>5 DEF UpdateTenantOwner, Members
  <1>6. ASSUME NEW p \in Purgers, PurgeClear(p)
        PROVE  RowKept(t)
    BY <1>1, <1>4, <1>6 DEF PurgeClear
  <1>7. CASE MarkVerified
    <2>1. CASE Stands(verify.tenant) /\ tenants' = [tenants EXCEPT ![verify.tenant].verified = TRUE]
      <3>1. tenants[verify.tenant] \in TenRow /\ verify.tenant \in TenantIDs
        BY <2>1, StandingRow
      <3>2. tenants'[verify.tenant] \in TenRow
        BY <2>1, <3>1 DEF TenRow, TenTypeOK
      <3> QED
        BY <1>7, <2>1, <3>1, <3>2 DEF Stands, TenTypeOK
    <2> QED
      BY <1>1, <1>7, <2>1 DEF MarkVerified, UpdateTenantVerified
  <1>8. ASSUME NEW p \in Purgers, PurgeRow(p)
        PROVE  RowKept(t)
    <2>1. CASE purge[p].tenant = t /\ Stands(t) /\ MembersOf(t) = {} /\ tenants' = [tenants EXCEPT ![t] = Gone]
      BY <1>8, <2>1 DEF Stands, TenTypeOK
    <2>2. CASE purge[p].tenant # t \/ UNCHANGED tenants
      BY <1>1, <1>8, <2>2 DEF PurgeRow, Stands, TenTypeOK
    <2> QED
      BY <1>8, <2>1, <2>2 DEF PurgeRow
  <1>9. CASE \E c \in Claimants : \/ ClaimDomain(c) \/ EnsureLookup(c) \/ EnsureRefetch(c) \/ RegisterUser(c)
                                  \/ AssignOwner(c) \/ \E x \in TenantIDs : CreateVerification(c, x)
    BY <1>1, <1>9 DEF ClaimDomain, EnsureLookup, EnsureRefetch, RegisterUser, AssignOwner, CreateVerification
  <1>10. CASE \E u \in Members : \/ \E x \in TenantIDs : RegisterInvitedUser(u, x)
                                 \/ \E r \in {"none", "member", "admin"} : AssignRole(u, r)
                                 \/ AskEpoch(u) \/ ChangeAliases(u)
    BY <1>1, <1>10, ZenonT(40) DEF RegisterInvitedUser, AssignRole, AskEpoch, ChangeAliases
  <1>11. CASE CheckOwnership \/ \E l \in pending : PublishLeaf(l)
    BY <1>1, <1>11 DEF CheckOwnership, PublishLeaf
  <1>12. CASE \E p \in Purgers : \/ \E x \in TenantIDs : PurgeTenant(p, x)
                                 \/ ListUsersByTenant(p) \/ PurgeMember(p) \/ PurgeLeaves(p) \/ PurgeFails(p)
    BY <1>1, <1>12 DEF PurgeTenant, ListUsersByTenant, PurgeMember, PurgeLeaves, PurgeFails
  <1> QED
    BY <1>1, <1>2, <1>3, <1>5, <1>6, <1>7, <1>8, <1>9, <1>10, <1>11, <1>12, ZenonT(40) DEF TenNext, tenVars

LEMMA ProofStep ==
    ASSUME TenTypeOK, TenTypeOK', ProofInv, [TenNext]_tenVars
    PROVE  ProofInv'
  <1> USE TenantsAssumption, TablesAssumption DEF leafVars
  <1>1. ASSUME UNCHANGED <<checks, dns, verify, published>>, ~MarkVerified
        PROVE  ProofInv'
    BY <1>1, RowsKept DEF ProofInv, VerifiedByOwnProof, RowKept
  <1>2. ASSUME NEW c \in Claimants, NEW t \in TenantIDs, CreateVerification(c, t)
        PROVE  ProofInv'
    <2>1. VerifiedByOwnProof'
      BY <1>2 DEF ProofInv, VerifiedByOwnProof, CreateVerification, Stands
    <2>2. \A v \in checks' : v.status = "pending" /\ v.by = Rightful => v.tenant \in published'
      BY <1>2 DEF ProofInv, CreateVerification
    <2>3. \A d \in dns' : d.by = Rightful
      BY <1>2 DEF ProofInv, CreateVerification
    <2>4. verify' # Null => verify'.tenant \in published'
      BY <1>2 DEF ProofInv, CreateVerification
    <2> QED
      BY <2>1, <2>2, <2>3, <2>4 DEF ProofInv
  <1>3. CASE CheckOwnership
    <2>1. PICK v \in checks : v.status = "pending" /\ VerifyOwnershipTXT(v) /\ verify' = v
      BY <1>3 DEF CheckOwnership
    <2>2. v.tenant \in published
      BY <2>1 DEF VerifyOwnershipTXT, ProofInv
    <2> QED
      BY <1>3, <2>1, <2>2 DEF CheckOwnership, ProofInv, VerifiedByOwnProof, Stands
  <1>4. CASE MarkVerified
    <2>1. verify # Null /\ verify.tenant \in published /\ published' = published /\ dns' = dns /\ verify' = Null
      BY <1>4 DEF MarkVerified, ProofInv
    <2>2. VerifiedByOwnProof'
      BY <2>1, RowsKept DEF ProofInv, VerifiedByOwnProof, RowKept
    <2>3. [verify EXCEPT !.status = "verified"].status = "verified"
      BY <2>1 DEF TenTypeOK, Challenge
    <2>4. \A v \in checks' : v \in checks \/ v.status = "verified"
      BY <1>4, <2>3 DEF MarkVerified
    <2> QED
      BY <2>1, <2>2, <2>4 DEF ProofInv
  <1>5. ASSUME NEW p \in Purgers, PurgeRow(p)
        PROVE  ProofInv'
    <2>1. \A t \in TenantIDs : Stands(t)' => Stands(t) /\ tenants'[t] = tenants[t]
      BY <1>5 DEF PurgeRow, Stands, TenTypeOK
    <2> QED
      BY <1>5, <2>1 DEF PurgeRow, ProofInv, VerifiedByOwnProof
  <1>6. CASE \E c \in Claimants : \/ ClaimDomain(c) \/ EnsureLookup(c) \/ provisionDKIM(c) \/ EnsureCreate(c)
                                  \/ EnsureRefetch(c) \/ RegisterUser(c) \/ UpdateTenantOwner(c) \/ AssignOwner(c)
    BY <1>1, <1>4, <1>6 DEF ClaimDomain, EnsureLookup, provisionDKIM, EnsureCreate, EnsureRefetch, RegisterUser,
                            UpdateTenantOwner, AssignOwner
  <1>7. CASE \/ \E u \in Members : \/ \E t \in TenantIDs : RegisterInvitedUser(u, t)
                                   \/ \E r \in {"none", "member", "admin"} : AssignRole(u, r)
                                   \/ AskEpoch(u) \/ ChangeAliases(u)
             \/ \E l \in pending : PublishLeaf(l)
    BY <1>1, <1>4, <1>7, ZenonT(40) DEF RegisterInvitedUser, AssignRole, AskEpoch, PublishLeaf, ChangeAliases
  <1>8. CASE \E p \in Purgers : \/ \E t \in TenantIDs : PurgeTenant(p, t)
                                \/ PurgeClear(p) \/ ListUsersByTenant(p) \/ PurgeMember(p)
                                \/ PurgeLeaves(p) \/ PurgeFails(p)
    BY <1>1, <1>4, <1>8 DEF PurgeTenant, PurgeClear, ListUsersByTenant, PurgeMember, PurgeLeaves, PurgeFails
  <1>9. CASE UNCHANGED tenVars
    BY <1>1, <1>4, <1>9 DEF tenVars
  <1> QED
    BY <1>2, <1>3, <1>4, <1>5, <1>6, <1>7, <1>8, <1>9, ZenonT(40) DEF TenNext

(* References that lead from standing rows to standing rows.               *)
LEMMA Referring ==
    ASSUME TenTypeOK, TenTypeOK', PurgeInv, [TenNext]_tenVars, \A p \in Purgers : ~PurgeRow(p),
           \A u \in Members : members'[u] # Null =>
             Stands(members'[u].tenant) \/ (members[u] # Null /\ members'[u].tenant = members[u].tenant),
           \A l \in leaves' : l \in leaves \/ Stands(l[1]) \/ l \in orphans', orphans \subseteq orphans',
           \A a \in aliases' : a \in aliases \/ Stands(a[1]),
           \A v \in checks' : Stands(v.tenant) \/ \E w \in checks : w.tenant = v.tenant,
           \A c \in Claimants : ensure'[c].tenant # Null =>
             tenants'[ensure'[c].tenant] # Null \/ ensure'[c].tenant = ensure[c].tenant
    PROVE  NothingOutlivesTenant'
  <1> DEFINE StandsNext(t) == t \in TenantIDs /\ tenants'[t] \notin {Null, Gone}
  <1>1. \A t : Stands(t) => StandsNext(t)
    BY RowsKept DEF RowKept, Stands
  <1> HIDE DEF StandsNext
  <1>2. \A u \in Members : members'[u] # Null => StandsNext(members'[u].tenant)
    BY <1>1 DEF PurgeInv, NothingOutlivesTenant
  <1>3. /\ \A l \in leaves' : StandsNext(l[1]) \/ l \in orphans'
        /\ \A a \in aliases' : StandsNext(a[1])
    BY <1>1 DEF PurgeInv, NothingOutlivesTenant
  <1>4. \A v \in checks' : StandsNext(v.tenant)
    BY <1>1 DEF PurgeInv, NothingOutlivesTenant
  <1>5. \A c \in Claimants : ensure'[c].tenant # Null => tenants'[ensure'[c].tenant] # Null
    <2> SUFFICES ASSUME NEW c \in Claimants, ensure'[c].tenant # Null, ensure'[c].tenant = ensure[c].tenant
                 PROVE  tenants'[ensure'[c].tenant] # Null
      OBVIOUS
    <2>1. ensure'[c].tenant \in TenantIDs /\ tenants[ensure'[c].tenant] # Null
      BY DEF PurgeInv, NothingOutlivesTenant, TenTypeOK
    <2> QED
      BY <2>1, RowsKept DEF RowKept
  <1> QED
    BY <1>2, <1>3, <1>4, <1>5 DEF NothingOutlivesTenant, StandsNext, Stands

LEMMA PurgeStep ==
    ASSUME OnePurge, TenTypeOK, TenTypeOK', PurgeInv, [TenNext]_tenVars
    PROVE  PurgeInv'
  <1> USE TenantsAssumption, TablesAssumption DEF leafVars
  <1>1. CASE \E p \in Purgers : PurgeRow(p)
    <2>1. PICK p \in Purgers : PurgeRow(p)
      BY <1>1
    <2>2. \A q \in Purgers : purge'[q].pc # "row"
      BY <2>1 DEF PurgeRow, SetPurge, OnePurge, TenTypeOK
    <2>3. PICK t : t = purge[p].tenant
      OBVIOUS
    <2>4. CASE ~(Stands(t) /\ MembersOf(t) = {})
      BY <2>1, <2>2, <2>3, <2>4 DEF PurgeRow, PurgeInv, NothingOutlivesTenant, Stands
    <2>5. CASE Stands(t) /\ MembersOf(t) = {}
      <3>1. /\ tenants' = [tenants EXCEPT ![t] = Gone] /\ t \in TenantIDs
            /\ checks' = {v \in checks : v.tenant # t} /\ aliases' = {a \in aliases : a[1] # t}
            /\ members' = members /\ leaves' = leaves /\ orphans' = orphans /\ ensure' = ensure /\ purge[p].pc = "row"
        BY <2>1, <2>3, <2>5 DEF PurgeRow, Stands
      <3>2. \A x : x # t /\ Stands(x) => Stands(x)'
        BY <3>1 DEF Stands, TenTypeOK
      <3>3. \A l \in leaves : l[1] # t \/ l \in orphans
        BY <2>3, <2>5, <3>1 DEF PurgeInv
      <3>4. \A u \in Members : members[u] # Null => members[u].tenant # t
        BY <2>5 DEF MembersOf
      <3>5. \A c \in Claimants : ensure[c].tenant # Null => tenants'[ensure[c].tenant] # Null
        BY <3>1 DEF PurgeInv, NothingOutlivesTenant, TenTypeOK
      <3> QED
        BY <2>2, <3>1, <3>2, <3>3, <3>4, <3>5 DEF PurgeInv, NothingOutlivesTenant
    <2> QED
      BY <2>4, <2>5
  <1> SUFFICES ASSUME \A p \in Purgers : ~PurgeRow(p)
               PROVE  PurgeInv'
    BY <1>1
  <1>2. CASE UNCHANGED tenVars
    BY <1>2 DEF tenVars, PurgeInv, NothingOutlivesTenant, MembersOf, Stands
  <1>3. ASSUME NEW c \in Claimants, EnsureLookup(c) \/ EnsureRefetch(c)
        PROVE  PurgeInv'
    <2>1. \A d \in Claimants : ensure'[d].tenant # Null => tenants'[ensure'[d].tenant] # Null \/ ensure'[d].tenant = ensure[d].tenant
      <3>1. ensure \in [Claimants -> EnsureRec] /\ tenants' = tenants
        BY <1>3 DEF EnsureLookup, EnsureRefetch, TenTypeOK, EnsureRec
      <3>2. \A d \in Claimants : d # c => ensure'[d] = ensure[d]
        BY <1>3, <3>1 DEF EnsureLookup, EnsureRefetch
      <3>3. ~DomainTaken => ensure'[c].tenant = Null
        BY <1>3, <3>1 DEF EnsureLookup, EnsureRefetch
      <3>4. DomainTaken => ensure'[c].tenant = Holder
        <4>1. CASE EnsureLookup(c)
          BY <3>1, <4>1 DEF EnsureLookup
        <4>2. CASE EnsureRefetch(c)
          BY <3>1, <4>2 DEF EnsureRefetch
        <4> QED
          BY <1>3, <4>1, <4>2
      <3>5. DomainTaken => tenants[Holder] # Null
        BY HolderStands DEF Stands
      <3> QED
        BY <3>1, <3>2, <3>3, <3>4, <3>5
    <2>2. NothingOutlivesTenant'
      BY <1>3, <2>1, Referring DEF EnsureLookup, EnsureRefetch
    <2> QED
      BY <1>3, <2>2 DEF EnsureLookup, EnsureRefetch, PurgeInv, MembersOf
  <1>4. ASSUME NEW c \in Claimants, provisionDKIM(c)
        PROVE  PurgeInv'
    <2>1. \A d \in Claimants : ensure'[d].tenant = ensure[d].tenant
      <3>1. ensure \in [Claimants -> EnsureRec]
        BY DEF TenTypeOK, EnsureRec
      <3>2. [ensure[c] EXCEPT !.pc = "done"].tenant = ensure[c].tenant
        BY <3>1 DEF EnsureRec
      <3> QED
        BY <1>4, <3>1, <3>2 DEF provisionDKIM
    <2>2. NothingOutlivesTenant'
      BY <1>4, <2>1, Referring DEF provisionDKIM
    <2> QED
      BY <1>4, <2>2 DEF provisionDKIM, PurgeInv, MembersOf
  <1>5. ASSUME NEW c \in Claimants, EnsureCreate(c)
        PROVE  PurgeInv'
    <2>1. \A d \in Claimants : ensure'[d].tenant # Null => tenants'[ensure'[d].tenant] # Null \/ ensure'[d].tenant = ensure[d].tenant
      <3>1. ensure \in [Claimants -> EnsureRec] /\ tenants \in [TenantIDs -> TenRow \cup {Null, Gone}]
        BY DEF TenTypeOK, EnsureRec
      <3>2. [ensure[c] EXCEPT !.pc = "refetch"].tenant = ensure[c].tenant
        BY <3>1 DEF EnsureRec
      <3>3. PICK t \in TenantIDs :
              \/ ensure' = [ensure EXCEPT ![c].pc = "refetch"]
              \/ ensure' = [ensure EXCEPT ![c] = [pc |-> "refetch", tenant |-> Null]]
              \/ /\ ensure' = [ensure EXCEPT ![c] = [pc |-> "done", tenant |-> t]]
                 /\ \E k \in 0..MaxDKIM : tenants' = [tenants EXCEPT ![t] = [owner |-> Null, verified |-> FALSE, dkim |-> k]]
        <4>1. dkimKeys' \in 0..MaxDKIM
          BY DEF TenTypeOK
        <4> QED
          BY <1>5, <4>1 DEF EnsureCreate
      <3>4. ASSUME NEW k \in 0..MaxDKIM, tenants' = [tenants EXCEPT ![t] = [owner |-> Null, verified |-> FALSE, dkim |-> k]]
            PROVE  tenants'[t] # Null
        <4>1. [owner |-> Null, verified |-> FALSE, dkim |-> k] \in TenRow
          BY DEF TenRow
        <4> QED
          BY <3>1, <3>4, <4>1
      <3>5. CASE ensure' = [ensure EXCEPT ![c].pc = "refetch"]
        BY <3>1, <3>2, <3>5
      <3>6. CASE ensure' = [ensure EXCEPT ![c] = [pc |-> "refetch", tenant |-> Null]]
        BY <3>1, <3>6
      <3>7. CASE ensure' = [ensure EXCEPT ![c] = [pc |-> "done", tenant |-> t]] /\ tenants'[t] # Null
        BY <3>1, <3>7
      <3> QED
        BY <3>3, <3>4, <3>5, <3>6, <3>7
    <2>2. NothingOutlivesTenant'
      BY <1>5, <2>1, Referring DEF EnsureCreate
    <2> QED
      BY <1>5, <2>2 DEF EnsureCreate, PurgeInv, MembersOf
  <1>6. ASSUME NEW u \in Members, NEW t, Stands(t), NEW r, members' = [members EXCEPT ![u] = [tenant |-> t, role |-> r]],
               members[u] = Null, UNCHANGED <<leaves, orphans, aliases, checks, purge>>,
               \A c \in Claimants : ensure'[c].tenant # Null => ensure'[c].tenant = ensure[c].tenant
        PROVE  PurgeInv'
    <2>1. /\ members'[u].tenant = t
          /\ \A w \in Members : w # u => members'[w] = members[w]
      BY <1>6 DEF TenTypeOK
    <2>2. NothingOutlivesTenant'
      BY <1>6, <2>1, Referring
    <2>3. \A x : MembersOf(x) \subseteq MembersOf(x)'
      BY <1>6, <2>1 DEF MembersOf
    <2> QED
      BY <1>6, <2>2, <2>3 DEF PurgeInv
  <1>7. ASSUME NEW c \in Claimants, UpdateTenantOwner(c)
        PROVE  PurgeInv'
    <2>1. PICK ok \in BOOLEAN : Continue(c, ok, "role")
      BY <1>7 DEF UpdateTenantOwner
    <2>2. \A d \in Claimants : ensure'[d].tenant # Null => ensure'[d].tenant = ensure[d].tenant
      BY <2>1, ClaimContinues
    <2>3. NothingOutlivesTenant'
      BY <1>7, <2>2, Referring DEF UpdateTenantOwner
    <2> QED
      BY <1>7, <2>3 DEF UpdateTenantOwner, PurgeInv, MembersOf
  <1>8. ASSUME NEW u \in Members, NEW t \in TenantIDs, RegisterInvitedUser(u, t)
        PROVE  PurgeInv'
    BY <1>6, <1>8 DEF RegisterInvitedUser
  <1>n. ASSUME NEW u \in Members, members[u] # Null, NEW r \in {"none", "member", "admin", "owner"},
               members' = [members EXCEPT ![u].role = r], UNCHANGED <<leaves, orphans, aliases, checks, purge>>,
               \A c \in Claimants : ensure'[c].tenant # Null => ensure'[c].tenant = ensure[c].tenant
        PROVE  PurgeInv'
    <2>0. members[u] # Null /\ members' = [members EXCEPT ![u].role = r]
      BY <1>n
    <2>a. members[u] \in MemberRec
      BY <2>0, ZenonT(40) DEF TenTypeOK
    <2>b. [members[u] EXCEPT !.role = r].tenant = members[u].tenant /\ [members[u] EXCEPT !.role = r] \in MemberRec
      BY <2>a, ZenonT(40) DEF MemberRec
    <2>c. members'[u] # Null /\ members'[u].tenant = members[u].tenant /\ \A w \in Members : w # u => members'[w] = members[w]
      BY <2>0, <2>b, ZenonT(40) DEF TenTypeOK
    <2>1. \A w \in Members : members'[w] # Null => members[w] # Null /\ members'[w].tenant = members[w].tenant
      BY <2>0, <2>c, ZenonT(40)
    <2>2. \A w \in Members : members[w] # Null => members'[w] # Null /\ members'[w].tenant = members[w].tenant
      BY <2>0, <2>c, ZenonT(40)
    <2>3. NothingOutlivesTenant'
      BY <1>n, <2>1, Referring, ZenonT(40)
    <2>4. \A x : MembersOf(x) \subseteq MembersOf(x)'
      BY <2>2, ZenonT(40) DEF MembersOf
    <2> QED
      BY <1>n, <2>3, <2>4, ZenonT(40) DEF PurgeInv
  <1>9. ASSUME NEW u \in Members, NEW r \in {"none", "member", "admin"}, AssignRole(u, r)
        PROVE  PurgeInv'
    <2>1. /\ members[u] # Null /\ members' = [members EXCEPT ![u].role = r] /\ ensure' = ensure
          /\ UNCHANGED <<leaves, orphans, aliases, checks, purge>>
      BY <1>9, ZenonT(40) DEF AssignRole
    <2> QED
      BY <1>n, <2>1, ZenonT(40)
  <1>20. ASSUME NEW c \in Claimants, ClaimDomain(c)
         PROVE  PurgeInv'
    <2>1. \A d \in Claimants : ensure'[d].tenant # Null => ensure'[d].tenant = ensure[d].tenant
      BY <1>20 DEF ClaimDomain, TenTypeOK
    <2>2. NothingOutlivesTenant'
      BY <1>20, <2>1, Referring DEF ClaimDomain
    <2> QED
      BY <1>20, <2>2 DEF ClaimDomain, PurgeInv, MembersOf
  <1>21. ASSUME NEW c \in Claimants, RegisterUser(c)
         PROVE  PurgeInv'
    <2>1. PICK ok \in BOOLEAN : Continue(c, ok, "own")
      BY <1>21 DEF RegisterUser
    <2>2. \A d \in Claimants : ensure'[d].tenant # Null => ensure'[d].tenant = ensure[d].tenant
      BY <2>1, ClaimContinues
    <2>3. CASE UNCHANGED members
      <3>1. NothingOutlivesTenant'
        BY <1>21, <2>2, <2>3, Referring DEF RegisterUser
      <3> QED
        BY <1>21, <2>3, <3>1 DEF RegisterUser, PurgeInv, MembersOf
    <2>4. CASE /\ Stands(ensure[c].tenant) /\ members[c] = Null
               /\ members' = [members EXCEPT ![c] = [tenant |-> ensure[c].tenant, role |-> "none"]]
      BY <1>6, <1>21, <2>2, <2>4, ZenonT(60) DEF RegisterUser, Members
    <2> QED
      BY <1>21, <2>3, <2>4, ZenonT(40) DEF RegisterUser
  <1>22. ASSUME NEW c \in Claimants, AssignOwner(c)
         PROVE  PurgeInv'
    <2>1. \A d \in Claimants : ensure'[d].tenant # Null => ensure'[d].tenant = ensure[d].tenant
      BY <1>22, ClaimContinues DEF AssignOwner
    <2>2. CASE UNCHANGED members
      <3>1. NothingOutlivesTenant'
        BY <1>22, <2>1, <2>2, Referring DEF AssignOwner
      <3> QED
        BY <1>22, <2>2, <3>1 DEF AssignOwner, PurgeInv, MembersOf
    <2>3. CASE c \in MembersOf(ensure[c].tenant) /\ members' = [members EXCEPT ![c].role = "owner"]
      <3>1. c \in Members /\ members[c] # Null
        BY <2>3 DEF MembersOf
      <3> QED
        BY <1>n, <1>22, <2>1, <2>3, <3>1, ZenonT(40) DEF AssignOwner
    <2> QED
      BY <1>22, <2>2, <2>3 DEF AssignOwner
  <1>10. ASSUME NEW u \in Members, AskEpoch(u)
         PROVE  PurgeInv'
    <2>1. NothingOutlivesTenant'
      BY <1>10, Referring DEF AskEpoch
    <2> QED
      BY <1>10, <2>1 DEF AskEpoch, PurgeInv, MembersOf
  <1>23. ASSUME NEW l \in pending, PublishLeaf(l)
         PROVE  PurgeInv'
    <2>1. leaves' = leaves \cup {l} /\ orphans \subseteq orphans' /\ (l[2] \in MembersOf(l[1]) \/ l \in orphans')
      BY <1>23 DEF PublishLeaf
    <2>2. Stands(l[1]) \/ l \in orphans'
      BY <2>1 DEF MembersOf, PurgeInv, NothingOutlivesTenant
    <2>3. NothingOutlivesTenant'
      BY <1>23, <2>1, <2>2, Referring DEF PublishLeaf
    <2> QED
      BY <1>23, <2>1, <2>3 DEF PublishLeaf, PurgeInv, MembersOf
  <1>11. ASSUME NEW u \in Members, ChangeAliases(u)
         PROVE  PurgeInv'
    <2>1. Stands(members[u].tenant)
      BY <1>11 DEF ChangeAliases, PurgeInv, NothingOutlivesTenant
    <2>2. \A l \in aliases' : l \in aliases \/ l = <<members[u].tenant, u>>
      BY <1>11 DEF ChangeAliases
    <2>3. NothingOutlivesTenant'
      BY <1>11, <2>1, <2>2, Referring DEF ChangeAliases
    <2> QED
      BY <1>11, <2>3 DEF ChangeAliases, PurgeInv, MembersOf
  <1>12. ASSUME NEW c \in Claimants, NEW t \in TenantIDs, CreateVerification(c, t)
         PROVE  PurgeInv'
    <2>1. Stands(t) /\ \A v \in checks' : v \in checks \/ v.tenant = t
      BY <1>12 DEF CreateVerification
    <2>2. NothingOutlivesTenant'
      BY <1>12, <2>1, Referring DEF CreateVerification
    <2> QED
      BY <1>12, <2>2 DEF CreateVerification, PurgeInv, MembersOf
  <1>13. CASE CheckOwnership
    <2>1. NothingOutlivesTenant'
      BY <1>13, Referring DEF CheckOwnership
    <2> QED
      BY <1>13, <2>1 DEF CheckOwnership, PurgeInv, MembersOf
  <1>14. CASE MarkVerified
    <2>1. \A v \in checks' : v \in checks \/ (verify \in checks /\ v.tenant = verify.tenant)
      BY <1>14 DEF MarkVerified, TenTypeOK, Challenge
    <2>2. NothingOutlivesTenant'
      BY <1>14, <2>1, Referring DEF MarkVerified
    <2> QED
      BY <1>14, <2>2 DEF MarkVerified, PurgeInv, MembersOf
  <1>15. ASSUME NEW p \in Purgers, NEW k, k # "row", NEW x, NEW T, SetPurge(p, k, x, T), ensure' = ensure, checks' = checks,
                leaves' = leaves, orphans' = orphans, aliases' \subseteq aliases,
                \A u \in Members : members'[u] # Null => members'[u] = members[u]
         PROVE  PurgeInv'
    <2>1. NothingOutlivesTenant'
      BY <1>15, Referring
    <2>2. \A q \in Purgers : purge'[q].pc # "row"
      BY <1>15 DEF SetPurge, TenTypeOK, OnePurge
    <2> QED
      BY <2>1, <2>2 DEF PurgeInv
  <1>16. ASSUME NEW p \in Purgers, NEW t \in TenantIDs, PurgeTenant(p, t)
         PROVE  PurgeInv'
    BY <1>15, <1>16 DEF PurgeTenant
  <1>17. ASSUME NEW p \in Purgers, PurgeClear(p) \/ ListUsersByTenant(p) \/ PurgeFails(p)
         PROVE  PurgeInv'
    BY <1>15, <1>17 DEF PurgeClear, ListUsersByTenant, PurgeFails
  <1>18. ASSUME NEW p \in Purgers, PurgeMember(p)
         PROVE  PurgeInv'
    <2>1. \A u \in Members : members'[u] # Null => members'[u] = members[u]
      BY <1>18, ZenonT(60) DEF PurgeMember, TenTypeOK
    <2> QED
      BY <1>15, <1>18, <2>1 DEF PurgeMember
  <1>19. ASSUME NEW p \in Purgers, PurgeLeaves(p)
         PROVE  PurgeInv'
    <2>1. NothingOutlivesTenant'
      BY <1>19, Referring DEF PurgeLeaves
    <2>2. \A q \in Purgers : purge'[q].tenant = purge[p].tenant
      BY <1>19 DEF PurgeLeaves, SetPurge, TenTypeOK, OnePurge
    <2> QED
      BY <1>19, <2>1, <2>2 DEF PurgeLeaves, PurgeInv
  <1> QED
    BY <1>2, <1>3, <1>4, <1>5, <1>7, <1>8, <1>9, <1>10, <1>11, <1>12, <1>13, <1>14, <1>16, <1>17, <1>18, <1>19,
       <1>20, <1>21, <1>22, <1>23, ZenonT(40) DEF TenNext

(* TenantsHold.  While one purge runs at a time, only a challenge that the *)
(* owner of the DNS published for this very tenant verifies it, and no     *)
(* user, alias or challenge is left of a tenant PurgeTenant removed, nor a *)
(* leaf but of a user who had been deleted when it was written, whatever   *)
(* claims, registrations and key changes come between its statements and   *)
(* wherever it fails.                                                      *)
THEOREM TenantsLeaveNothing == OnePurge => (StoresSpec => []TenantsHold)
  <1> SUFFICES ASSUME OnePurge
               PROVE  StoresSpec => []TenantsHold
    OBVIOUS
  <1> DEFINE Inv == TenTypeOK /\ ProofInv /\ PurgeInv
  <1>1. StoresInit => Inv
    <2> SUFFICES ASSUME TenInit
                 PROVE  Inv
      BY DEF StoresInit
    <2> USE TenantsAssumption, TablesAssumption
    <2>1. TenTypeOK
      BY DEF TenInit, TenTypeOK
    <2>2. ProofInv
      BY DEF TenInit, ProofInv, VerifiedByOwnProof, Stands
    <2>3. PurgeInv
      BY DEF TenInit, PurgeInv, NothingOutlivesTenant, Stands
    <2> QED
      BY <2>1, <2>2, <2>3
  <1>2. Inv /\ [StoresNext]_storesVars => Inv'
    BY TenantsPart, TenantsType, ProofStep, PurgeStep
  <1>3. Inv => TenantsHold
    BY DEF TenantsHold, ProofInv, PurgeInv
  <1> QED
    BY <1>1, <1>2, <1>3, PTL DEF StoresSpec

-----------------------------------------------------------------------------
(* Group keys.                                                             *)

(* A leader of the current epoch has wrapped the key for all members but   *)
(* those still on its list; no device is ahead of the group; a member once *)
(* served has its live wrap for the current epoch, or an archived row.     *)
LeadersServe ==
    /\ \A d \in Devices : dev[d].epoch <= group.epoch
    /\ \A d \in Devices : dev[d].pc = "serving" /\ dev[d].epoch = group.epoch =>
         \A u \in ListMembers : u \in dev[d].todo \/ roster[u].wrap # NoWrap

ServedStay ==
    /\ group.status = "active" => \A u \in ListMembers : <<u, group.epoch>> \in served
    /\ \A u \in GroupUsers, e \in KeyEpochs : <<u, e>> \in served =>
         /\ e <= group.epoch
         /\ e = group.epoch => u \in ListMembers /\ roster[u].wrap # NoWrap
         /\ e # group.epoch => \E a \in archive : a.user = u /\ a.epoch = e

WrapsBehind ==
    /\ \A u \in ListMembers : roster[u].wrap # NoWrap => roster[u].wrap <= group.epoch
    /\ \A a \in archive : a.wrap <= a.epoch

GroupInv == GroupTypeOK /\ LeadersServe /\ ServedStay /\ WrapsBehind

LEMMA GroupsPart ==
    ASSUME [StoresNext]_storesVars
    PROVE  [GroupNext]_groupVars
  BY DEF StoresNext, Only, storesVars

LEMMA EpochFacts ==
    /\ KeyEpochs \subseteq Nat /\ 0 \in KeyEpochs /\ NoWrap \notin KeyEpochs
    /\ \A e \in KeyEpochs : e < MaxRotations => e + 1 \in KeyEpochs
  BY GroupAssumption DEF KeyEpochs, NoWrap

LEMMA ReadableGroup == GroupInv => GroupTypeOK /\ GroupKeysKept
  <1> SUFFICES ASSUME GroupInv
               PROVE  GroupKeysKept
    BY DEF GroupInv
  <1>0. GroupTypeOK /\ ServedStay /\ WrapsBehind
    BY DEF GroupInv
  <1>1. \A u \in ListMembers : KeysFor(u, group.epoch) = {roster[u].wrap} \ {NoWrap}
    BY DEF KeysFor
  <1>2. group.status = "active" => ListMembers \X {group.epoch} \subseteq served
    BY <1>0 DEF ServedStay
  <1>3. ASSUME NEW s \in served
        PROVE  KeysFor(s[1], s[2]) # {}
    <2>1. s[1] \in GroupUsers /\ s[2] \in KeyEpochs /\ <<s[1], s[2]>> \in served
      BY <1>0 DEF GroupTypeOK
    <2>2. CASE s[2] = group.epoch
      BY <1>0, <1>1, <2>1, <2>2 DEF ServedStay
    <2>3. CASE s[2] # group.epoch
      <3>1. PICK a \in archive : a.user = s[1] /\ a.epoch = s[2]
        BY <1>0, <2>1, <2>3 DEF ServedStay
      <3>2. a.wrap \in KeysFor(s[1], s[2])
        BY <2>3, <3>1 DEF KeysFor
      <3> QED
        BY <3>2
    <2> QED
      BY <2>2, <2>3
  <1>4. ASSUME NEW u \in GroupUsers, NEW e \in KeyEpochs, NEW k \in KeysFor(u, e)
        PROVE  k <= e
    BY <1>0 DEF KeysFor, WrapsBehind
  <1> QED
    BY <1>2, <1>3, <1>4 DEF GroupKeysKept

(* One row of the roster gets the wrap of an epoch, or goes; nothing else  *)
(* moves but devices that do less than before.                             *)
LEMMA RowWritten ==
    ASSUME GroupInv, GroupTypeOK', NEW u \in GroupUsers, UNCHANGED <<group, archive>>,
           \A v \in GroupUsers \ {u} : roster'[v] = roster[v],
           roster'[u] # NotMember => roster'[u].wrap # NoWrap /\ roster'[u].wrap <= group.epoch,
           \A v \in GroupUsers, e \in KeyEpochs :
             <<v, e>> # <<u, group.epoch>> => (<<v, e>> \in served' <=> <<v, e>> \in served),
           <<u, group.epoch>> \in served' => roster'[u] # NotMember,
           group.status = "active" /\ roster'[u] # NotMember => <<u, group.epoch>> \in served',
           \A d \in Devices : /\ dev'[d].epoch <= group.epoch
                              /\ dev'[d].pc = "serving" =>
                                   /\ dev[d].pc = "serving" /\ dev'[d].epoch = dev[d].epoch
                                   /\ dev[d].todo \subseteq dev'[d].todo \union {u}
    PROVE  GroupInv'
  <1>0. GroupTypeOK /\ LeadersServe /\ ServedStay /\ WrapsBehind /\ group.epoch \in KeyEpochs
    BY DEF GroupInv, GroupTypeOK, GroupRow
  <1>1. \A v \in ListMembers' : (v # u /\ v \in ListMembers /\ roster'[v] = roster[v]) \/
                                (v = u /\ roster'[u] # NotMember)
    BY DEF ListMembers
  <1>2. LeadersServe'
    <2>1. \A d \in Devices : dev'[d].pc = "serving" /\ dev'[d].epoch = group'.epoch =>
            \A v \in ListMembers' : v \in dev'[d].todo \/ roster'[v].wrap # NoWrap
      BY <1>0, <1>1 DEF LeadersServe
    <2> QED
      BY <2>1 DEF LeadersServe, NoWrap
  <1>3. ServedStay'
    <2>1. group'.status = "active" => \A v \in ListMembers' : <<v, group'.epoch>> \in served'
      <3> SUFFICES ASSUME group.status = "active", NEW v \in ListMembers'
                   PROVE  <<v, group.epoch>> \in served'
        OBVIOUS
      <3>1. CASE v = u
        BY <1>1, <3>1
      <3>2. CASE v # u
        <4>1. v \in ListMembers /\ v \in GroupUsers /\ <<v, group.epoch>> \in served
          BY <1>0, <1>1, <3>2 DEF ServedStay, ListMembers
        <4>2. <<v, group.epoch>> # <<u, group.epoch>>
          BY <3>2
        <4> QED
          BY <1>0, <4>1, <4>2
      <3> QED
        BY <3>1, <3>2
    <2>2. ASSUME NEW v \in GroupUsers, NEW e \in KeyEpochs, <<v, e>> \in served'
          PROVE  /\ e <= group.epoch
                 /\ e = group.epoch => v \in ListMembers' /\ roster'[v].wrap # NoWrap
                 /\ e # group.epoch => \E a \in archive : a.user = v /\ a.epoch = e
      <3>1. CASE v = u /\ e = group.epoch
        <4>1. u \in ListMembers' /\ roster'[u].wrap # NoWrap
          BY <2>2, <3>1 DEF ListMembers
        <4>2. group.epoch <= group.epoch
          <5>1. group.epoch \in Nat
            BY <1>0, EpochFacts
          <5> QED
            BY <5>1
        <4> QED
          BY <3>1, <4>1, <4>2
      <3>2. CASE ~(v = u /\ e = group.epoch)
        <4>1. <<v, e>> # <<u, group.epoch>>
          BY <3>2
        <4>2. <<v, e>> \in served
          BY <2>2, <4>1
        <4>3. e = group.epoch => v # u
          BY <3>2
        <4> QED
          BY <1>0, <4>2, <4>3 DEF ServedStay, ListMembers
      <3> QED
        BY <3>1, <3>2
    <2> QED
      BY <2>1, <2>2 DEF ServedStay, NoWrap, KeyEpochs
  <1>4. WrapsBehind'
    BY <1>0, <1>1 DEF WrapsBehind, NoWrap
  <1> QED
    BY <1>2, <1>3, <1>4 DEF GroupInv

LEMMA GroupsType ==
    ASSUME GroupInv, [GroupNext]_groupVars
    PROVE  GroupTypeOK'
  <1> USE GroupAssumption, EpochFacts
  <1>0. GroupTypeOK
    BY DEF GroupInv
  <1>1. CASE UNCHANGED groupVars
    BY <1>0, <1>1 DEF GroupTypeOK, groupVars
  <1>2. ASSUME NEW d \in Devices, StartAdd(d)
        PROVE  GroupTypeOK'
    BY <1>0, <1>2 DEF GroupTypeOK, StartAdd, GroupRow
  <1>3. ASSUME NEW d \in Devices, RotateGroupKey(d)
        PROVE  GroupTypeOK'
    <2>1. group'.epoch \in KeyEpochs /\ group' \in GroupRow /\ group.epoch \in KeyEpochs
      BY <1>0, <1>3 DEF GroupTypeOK, RotateGroupKey, GroupRow
    <2>2. roster' \in [GroupUsers -> MemberRow \cup {NotMember}]
      BY <1>0, <1>3 DEF GroupTypeOK, RotateGroupKey, Cleared, MemberRow
    <2>3. \A v \in ListMembers : roster[v].wrap # NoWrap => roster[v].wrap \in KeyEpochs
      BY <1>0 DEF GroupTypeOK, MemberRow, ListMembers
    <2>4. archive' \subseteq [user: GroupUsers, epoch: KeyEpochs, wrap: KeyEpochs]
      BY <1>0, <1>3, <2>1, <2>3 DEF GroupTypeOK, RotateGroupKey, Archived, ListMembers
    <2>5. dev' \in [Devices -> [pc: {"idle", "adding", "listing", "serving"}, epoch: KeyEpochs, todo: SUBSET GroupUsers]]
      BY <1>0, <1>3, <2>1 DEF GroupTypeOK, RotateGroupKey
    <2> QED
      BY <1>0, <1>3, <2>1, <2>2, <2>4, <2>5 DEF GroupTypeOK, RotateGroupKey
  <1>4. ASSUME NEW d \in Devices, StartServing(d)
        PROVE  GroupTypeOK'
    BY <1>0, <1>4, ZenonT(60) DEF GroupTypeOK, StartServing, ListMembers
  <1>5. ASSUME NEW d \in Devices, ClearPendingKeygen(d) \/ Abandon(d)
        PROVE  GroupTypeOK'
    <2>1. dev' \in [Devices -> [pc: {"idle", "adding", "listing", "serving"}, epoch: KeyEpochs, todo: SUBSET GroupUsers]]
      BY <1>0, <1>5 DEF GroupTypeOK, ClearPendingKeygen, Abandon, IdleDevice
    <2>2. group' \in GroupRow
      BY <1>0, <1>5 DEF GroupTypeOK, ClearPendingKeygen, Abandon, GroupRow
    <2> QED
      <3>1. ListMembers \X {group.epoch} \subseteq GroupUsers \X KeyEpochs
        BY <1>0 DEF GroupTypeOK, GroupRow, ListMembers
      <3>2. served' \subseteq GroupUsers \X KeyEpochs
        BY <1>0, <1>5, <3>1 DEF GroupTypeOK, ClearPendingKeygen, Abandon
      <3> QED
        BY <1>0, <1>5, <2>1, <2>2, <3>2 DEF GroupTypeOK, ClearPendingKeygen, Abandon
  <1>6. ASSUME NEW d \in Devices, NEW u \in GroupUsers, NEW b \in BOOLEAN, AddMember(d, u, b)
        PROVE  GroupTypeOK'
    <2>1. [wrap |-> dev[d].epoch, admin |-> b, joined |-> dev[d].epoch] \in MemberRow
      BY <1>0 DEF GroupTypeOK, MemberRow
    <2>2. roster' \in [GroupUsers -> MemberRow \cup {NotMember}] /\ served' \subseteq GroupUsers \X KeyEpochs
      BY <1>0, <1>6, <2>1 DEF GroupTypeOK, AddMember, GroupRow
    <2> QED
      BY <1>0, <1>6, <2>2 DEF GroupTypeOK, AddMember, IdleDevice
  <1>7. ASSUME NEW d \in Devices, NEW u \in GroupUsers, SetMemberWrappedKey(d, u)
        PROVE  GroupTypeOK'
    <2>1. dev' \in [Devices -> [pc: {"idle", "adding", "listing", "serving"}, epoch: KeyEpochs, todo: SUBSET GroupUsers]]
      BY <1>0, <1>7 DEF GroupTypeOK, SetMemberWrappedKey
    <2>2. roster' \in [GroupUsers -> MemberRow \cup {NotMember}]
      BY <1>0, <1>7 DEF GroupTypeOK, SetMemberWrappedKey, MemberRow, ListMembers
    <2> QED
      BY <1>0, <1>7, <2>1, <2>2 DEF GroupTypeOK, SetMemberWrappedKey
  <1>8. CASE (\E u \in GroupUsers : RemoveMember(u)) \/ DeleteGroup
    BY <1>0, <1>8 DEF GroupTypeOK, RemoveMember, DeleteGroup, GroupRow
  <1>9. ASSUME NEW u \in GroupUsers, NEW b \in BOOLEAN, SetMemberAdmin(u, b)
        PROVE  GroupTypeOK'
    <2>1. roster[u] \in MemberRow /\ roster' = [roster EXCEPT ![u] = [roster[u] EXCEPT !.admin = b]]
      BY <1>0, <1>9 DEF GroupTypeOK, SetMemberAdmin, ListMembers
    <2>2. [roster[u] EXCEPT !.admin = b] \in MemberRow
      BY <2>1 DEF MemberRow
    <2> QED
      BY <1>0, <1>9, <2>1, <2>2 DEF GroupTypeOK, SetMemberAdmin
  <1> QED
    BY <1>1, <1>2, <1>3, <1>4, <1>5, <1>6, <1>7, <1>8, <1>9 DEF GroupNext

LEMMA GroupsStep ==
    ASSUME GroupInv, [GroupNext]_groupVars
    PROVE  GroupInv'
  <1> USE GroupAssumption, EpochFacts
  <1>0. GroupTypeOK /\ GroupTypeOK' /\ LeadersServe /\ ServedStay /\ WrapsBehind
    BY GroupsType DEF GroupInv
  <1>e. /\ group.epoch \in Nat /\ group.epoch \in KeyEpochs
        /\ \A d \in Devices : dev[d].epoch \in Nat /\ dev[d].epoch \in KeyEpochs /\ dev[d].epoch <= group.epoch
    BY <1>0 DEF LeadersServe, GroupTypeOK, GroupRow
  <1>1. CASE UNCHANGED groupVars
    BY <1>0, <1>1 DEF GroupInv, LeadersServe, ServedStay, WrapsBehind, groupVars, ListMembers, NoWrap
  <1>2. ASSUME NEW d \in Devices, UNCHANGED <<group, roster, archive, served>>,
               dev'[d].epoch <= group.epoch, dev'[d].pc = "serving" => dev'[d].todo = ListMembers,
               \A c \in Devices \ {d} : dev'[c] = dev[c]
        PROVE  GroupInv'
    <2>1. LeadersServe'
      BY <1>0, <1>2 DEF LeadersServe, ListMembers, NoWrap
    <2>2. ServedStay' /\ WrapsBehind'
      BY <1>0, <1>2 DEF ServedStay, WrapsBehind, ListMembers, NoWrap
    <2> QED
      BY <1>0, <2>1, <2>2 DEF GroupInv
  <1>3. ASSUME NEW d \in Devices, RotateGroupKey(d)
        PROVE  GroupInv'
    <2>1. group'.epoch = group.epoch + 1 /\ group'.status = "rotation_pending" /\ served' = served
      BY <1>3 DEF RotateGroupKey
    <2>2. \A c \in Devices : /\ dev'[c].epoch <= group'.epoch
                             /\ dev'[c].pc = "serving" => dev'[c].epoch # group'.epoch
      BY <1>0, <1>3, <1>e, <2>1 DEF RotateGroupKey, GroupTypeOK
    <2>3. \A u \in ListMembers' : roster'[u].wrap = NoWrap
      BY <1>0, <1>3 DEF RotateGroupKey, Cleared, ListMembers, GroupTypeOK, MemberRow
    <2>4. archive \subseteq archive' /\ archive' = Archived
      BY <1>3 DEF RotateGroupKey, Archived
    <2>5. \A a \in archive' : a.wrap <= a.epoch
      <3> SUFFICES ASSUME NEW a \in archive', a \notin archive
                   PROVE  a.wrap <= a.epoch
        BY <1>0 DEF WrapsBehind
      <3>1. PICK u \in ListMembers : roster[u].wrap # NoWrap /\ a = [user |-> u, epoch |-> group.epoch, wrap |-> roster[u].wrap]
        BY <2>4 DEF Archived
      <3> QED
        BY <1>0, <3>1 DEF WrapsBehind
    <2>6. ASSUME NEW u \in GroupUsers, NEW e \in KeyEpochs, <<u, e>> \in served
          PROVE  e < group'.epoch /\ \E a \in archive' : a.user = u /\ a.epoch = e
      <3>1. e <= group.epoch
        BY <1>0, <2>6 DEF ServedStay
      <3>2. CASE e # group.epoch
        BY <1>0, <1>e, <2>1, <2>4, <2>6, <3>1, <3>2 DEF ServedStay
      <3>3. CASE e = group.epoch
        <4>1. u \in ListMembers /\ roster[u].wrap # NoWrap
          BY <1>0, <2>6, <3>3 DEF ServedStay
        <4>2. CASE \E a \in archive : a.user = u /\ a.epoch = group.epoch
          BY <1>e, <2>1, <2>4, <3>3, <4>2
        <4>3. CASE ~\E a \in archive : a.user = u /\ a.epoch = group.epoch
          <5>1. [user |-> u, epoch |-> group.epoch, wrap |-> roster[u].wrap] \in archive'
            BY <2>4, <4>1, <4>3 DEF Archived
          <5> QED
            BY <1>e, <2>1, <3>3, <5>1
        <4> QED
          BY <4>2, <4>3
      <3> QED
        BY <3>2, <3>3
    <2>7. ServedStay'
      <3>1. \A u \in GroupUsers, e \in KeyEpochs : <<u, e>> \in served' =>
              /\ e <= group'.epoch /\ e # group'.epoch
              /\ \E a \in archive' : a.user = u /\ a.epoch = e
        BY <1>e, <2>1, <2>6
      <3> QED
        BY <2>1, <3>1 DEF ServedStay, KeyEpochs
    <2>8. LeadersServe'
      BY <2>2 DEF LeadersServe
    <2>9. WrapsBehind'
      BY <2>3, <2>5 DEF WrapsBehind, NoWrap
    <2> QED
      BY <1>0, <2>7, <2>8, <2>9 DEF GroupInv
  <1>4. ASSUME NEW d \in Devices, StartAdd(d) \/ StartServing(d) \/ Abandon(d)
        PROVE  GroupInv'
    <2>1. /\ UNCHANGED <<group, roster, archive, served>> /\ dev'[d].epoch \in {group.epoch, dev[d].epoch, 0}
          /\ dev'[d].pc = "serving" => dev'[d].todo = ListMembers
          /\ \A c \in Devices \ {d} : dev'[c] = dev[c]
      BY <1>0, <1>4 DEF StartAdd, StartServing, Abandon, IdleDevice, GroupTypeOK
    <2>2. dev'[d].epoch <= group.epoch
      BY <1>e, <2>1
    <2> QED
      BY <1>2, <2>1, <2>2
  <1>5. ASSUME NEW d \in Devices, ClearPendingKeygen(d)
        PROVE  GroupInv'
    <2>1. /\ dev'[d].pc = "idle" /\ dev'[d].epoch = 0 /\ \A c \in Devices \ {d} : dev'[c] = dev[c]
          /\ group'.epoch = group.epoch /\ UNCHANGED <<roster, archive>>
      BY <1>0, <1>5 DEF ClearPendingKeygen, IdleDevice, GroupTypeOK, GroupRow
    <2>2. ListMembers' = ListMembers
      BY <2>1 DEF ListMembers
    <2>3. LeadersServe' /\ WrapsBehind'
      BY <1>0, <1>e, <2>1, <2>2 DEF LeadersServe, WrapsBehind, NoWrap
    <2>4. CASE ~Clears(d)
      <3>1. UNCHANGED <<group, served>>
        BY <1>5, <2>4 DEF ClearPendingKeygen
      <3>2. ServedStay'
        BY <1>0, <2>1, <2>2, <3>1 DEF ServedStay, NoWrap
      <3> QED
        BY <1>0, <2>3, <3>2 DEF GroupInv
    <2>5. CASE Clears(d)
      <3>1. served' = served \cup (ListMembers \X {group.epoch})
        BY <1>5, <2>5 DEF ClearPendingKeygen
      <3>2. \A u \in ListMembers : roster[u].wrap # NoWrap
        BY <1>0, <1>5, <2>5 DEF ClearPendingKeygen, Clears, LeadersServe
      <3>3. \A u \in ListMembers' : <<u, group'.epoch>> \in served'
        BY <2>1, <2>2, <3>1
      <3>4. ASSUME NEW u \in GroupUsers, NEW e \in KeyEpochs, <<u, e>> \in served'
            PROVE  /\ e <= group.epoch
                   /\ e = group.epoch => u \in ListMembers /\ roster[u].wrap # NoWrap
                   /\ e # group.epoch => \E a \in archive : a.user = u /\ a.epoch = e
        <4>1. CASE <<u, e>> \in served
          BY <1>0, <4>1 DEF ServedStay
        <4>2. CASE <<u, e>> \in ListMembers \X {group.epoch}
          BY <1>e, <3>2, <4>2
        <4> QED
          BY <3>1, <3>4, <4>1, <4>2
      <3>5. ServedStay'
        BY <2>1, <2>2, <3>3, <3>4 DEF ServedStay, NoWrap, KeyEpochs
      <3> QED
        BY <1>0, <2>3, <3>5 DEF GroupInv
    <2> QED
      BY <2>4, <2>5
  <1>6. ASSUME NEW u \in GroupUsers, NEW b \in BOOLEAN, SetMemberAdmin(u, b)
        PROVE  GroupInv'
    <2>1. roster[u] \in MemberRow /\ roster' = [roster EXCEPT ![u] = [roster[u] EXCEPT !.admin = b]]
      BY <1>0, <1>6 DEF GroupTypeOK, SetMemberAdmin, ListMembers
    <2>2. [roster[u] EXCEPT !.admin = b].wrap = roster[u].wrap /\ [roster[u] EXCEPT !.admin = b] \in MemberRow
      BY <2>1 DEF MemberRow
    <2>3. NotMember \notin MemberRow
      BY GroupRowAssumption
    <2>4. ListMembers' = ListMembers /\ \A v \in ListMembers : roster'[v].wrap = roster[v].wrap
      BY <1>0, <2>1, <2>2, <2>3 DEF GroupTypeOK, ListMembers
    <2>5. UNCHANGED <<group, archive, dev, served>>
      BY <1>6 DEF SetMemberAdmin
    <2>6. LeadersServe' /\ ServedStay' /\ WrapsBehind'
      BY <1>0, <2>4, <2>5 DEF LeadersServe, ServedStay, WrapsBehind, NoWrap
    <2> QED
      BY <1>0, <2>6 DEF GroupInv
  <1>7. ASSUME NEW d \in Devices, NEW u \in GroupUsers, NEW b \in BOOLEAN, AddMember(d, u, b)
        PROVE  GroupInv'
    <2>1. /\ dev'[d].pc = "idle" /\ dev'[d].epoch = 0 /\ \A c \in Devices \ {d} : dev'[c] = dev[c]
          /\ roster'[u].wrap = dev[d].epoch /\ \A v \in GroupUsers \ {u} : roster'[v] = roster[v]
          /\ roster'[u] = [wrap |-> dev[d].epoch, admin |-> b, joined |-> dev[d].epoch]
          /\ served' = IF group.status = "active" THEN served \cup {<<u, group.epoch>>} ELSE served
          /\ UNCHANGED <<group, archive>> /\ u \notin ListMembers
      BY <1>0, <1>7 DEF AddMember, IdleDevice, GroupTypeOK
    <2>2. roster'[u].wrap # NoWrap /\ roster'[u].wrap <= group.epoch
      BY <1>e, <2>1
    <2>3. \A c \in Devices : /\ dev'[c].epoch <= group.epoch
                             /\ dev'[c].pc = "serving" => c # d
      BY <1>e, <2>1
    <2>4. roster'[u] # NotMember
      BY <1>e, <2>1, GroupRowAssumption DEF MemberRow
    <2>5. \A v \in GroupUsers, e \in KeyEpochs :
            <<v, e>> # <<u, group.epoch>> => (<<v, e>> \in served' <=> <<v, e>> \in served)
      BY <2>1
    <2>6. group.status = "active" => <<u, group.epoch>> \in served'
      BY <2>1
    <2> QED
      BY <1>0, <2>1, <2>2, <2>3, <2>4, <2>5, <2>6, RowWritten
  <1>8. ASSUME NEW u \in GroupUsers, RemoveMember(u)
        PROVE  GroupInv'
    <2>1. /\ roster'[u] = NotMember /\ \A v \in GroupUsers \ {u} : roster'[v] = roster[v]
          /\ served' = served \ {<<u, group.epoch>>} /\ UNCHANGED <<group, archive, dev>>
      BY <1>0, <1>8 DEF RemoveMember, GroupTypeOK
    <2>2. \A v \in GroupUsers, e \in KeyEpochs :
            <<v, e>> # <<u, group.epoch>> => (<<v, e>> \in served' <=> <<v, e>> \in served)
      BY <2>1
    <2>3. <<u, group.epoch>> \notin served'
      BY <2>1
    <2> QED
      BY <1>0, <1>e, <2>1, <2>2, <2>3, RowWritten
  <1>9. ASSUME NEW d \in Devices, NEW u \in GroupUsers, SetMemberWrappedKey(d, u)
        PROVE  GroupInv'
    <2>1. /\ dev'[d].pc = dev[d].pc /\ dev'[d].epoch = dev[d].epoch /\ dev'[d].todo = dev[d].todo \ {u}
          /\ \A c \in Devices \ {d} : dev'[c] = dev[c]
          /\ UNCHANGED <<group, archive, served>>
      BY <1>0, <1>9 DEF SetMemberWrappedKey, GroupTypeOK
    <2>2. /\ <<u, group.epoch>> \in served => u \in ListMembers
          /\ group.status = "active" /\ u \in ListMembers => <<u, group.epoch>> \in served
      BY <1>0, <1>e DEF ServedStay
    <2>3. CASE u \in ListMembers
      <3>1. roster[u] \in MemberRow
        BY <1>0, <2>3 DEF GroupTypeOK, ListMembers
      <3>2. /\ roster'[u].wrap = dev[d].epoch /\ \A v \in GroupUsers \ {u} : roster'[v] = roster[v]
            /\ roster'[u] \in MemberRow
        BY <1>0, <1>9, <1>e, <2>3, <3>1 DEF SetMemberWrappedKey, GroupTypeOK, MemberRow
      <3>3. roster'[u] # NotMember /\ roster'[u].wrap # NoWrap /\ roster'[u].wrap <= group.epoch
        BY <1>e, <3>2, GroupRowAssumption
      <3> QED
        BY <1>0, <1>e, <2>1, <2>2, <2>3, <3>2, <3>3, RowWritten
    <2>4. CASE u \notin ListMembers
      <3>1. UNCHANGED roster /\ roster'[u] = NotMember
        BY <1>9, <2>4 DEF SetMemberWrappedKey, ListMembers
      <3> QED
        BY <1>0, <1>e, <2>1, <2>2, <2>4, <3>1, RowWritten
    <2> QED
      BY <2>3, <2>4
  <1>10. CASE DeleteGroup
    <2>1. ListMembers' = {} /\ served' = {} /\ archive' = {}
      BY <1>10 DEF DeleteGroup, ListMembers
    <2>2. group'.epoch = group.epoch /\ dev' = dev
      BY <1>0, <1>10 DEF DeleteGroup, GroupTypeOK, GroupRow
    <2>3. LeadersServe' /\ ServedStay' /\ WrapsBehind'
      BY <1>0, <2>1, <2>2 DEF LeadersServe, ServedStay, WrapsBehind
    <2> QED
      BY <1>0, <2>3 DEF GroupInv
  <1> QED
    BY <1>1, <1>3, <1>4, <1>5, <1>6, <1>7, <1>8, <1>9, <1>10 DEF GroupNext

(* GroupKeysHold.  For any members, admins and devices: a member of an     *)
(* active group keeps a wrap for its epoch whichever leader finished first *)
(* and whoever rotated since, because ClearPendingKeygen lets only the     *)
(* leader of the current epoch, whose list is done, activate the group and *)
(* RotateGroupKey archives what it clears; no wrap is newer than its row.  *)
THEOREM GroupsStayReadable == StoresSpec => []GroupKeysHold
  <1>1. StoresInit => GroupInv
    <2> SUFFICES ASSUME GroupInit
                 PROVE  GroupInv
      BY DEF StoresInit
    <2> USE GroupAssumption, EpochFacts
    <2>1. PICK M \in SUBSET GroupUsers :
            /\ roster = [u \in GroupUsers |->
                 IF u \in M THEN [wrap |-> 0, admin |-> u \in Admins, joined |-> 0] ELSE NotMember]
            /\ served = M \X {0}
      BY DEF GroupInit
    <2>r. \A u \in GroupUsers : [wrap |-> 0, admin |-> u \in Admins, joined |-> 0] \in MemberRow
      BY DEF MemberRow
    <2>2. GroupTypeOK
      <3>1. roster \in [GroupUsers -> MemberRow \cup {NotMember}]
        BY <2>1, <2>r
      <3>2. served \subseteq GroupUsers \X KeyEpochs
        BY <2>1
      <3> QED
        BY <3>1, <3>2 DEF GroupInit, GroupTypeOK, IdleDevice, GroupRow
    <2>3. ListMembers = M /\ \A u \in M : roster[u].wrap = 0
      BY <2>1, <2>r, GroupRowAssumption DEF ListMembers
    <2>4. group.epoch = 0 /\ archive = {} /\ \A d \in Devices : dev[d].epoch = 0 /\ dev[d].pc = "idle"
      BY DEF GroupInit, IdleDevice
    <2>5. LeadersServe /\ WrapsBehind
      BY <2>3, <2>4 DEF LeadersServe, WrapsBehind
    <2>6. ServedStay
      BY <2>1, <2>3, <2>4 DEF ServedStay
    <2> QED
      BY <2>2, <2>5, <2>6 DEF GroupInv
  <1>2. GroupInv /\ [StoresNext]_storesVars => GroupInv'
    BY GroupsPart, GroupsStep
  <1>3. GroupInv => GroupKeysHold
    BY ReadableGroup DEF GroupKeysHold
  <1> QED
    BY <1>1, <1>2, <1>3, PTL DEF StoresSpec

-----------------------------------------------------------------------------
(* Shared folders of the drive.                                            *)

ClientRec == [pc: {"idle", "advance", "record", "backfill"}, op: {"add", "remove"},
              who: Parties, past: BOOLEAN, list: SUBSET Parties,
              files: SUBSET DriveDocs, epoch: 0..MaxAdvances, filled: 0..MaxAdvances]
ShareRec == [joined: FolderEpochs, past: BOOLEAN, expired: BOOLEAN]

Busy(c, u) == client[c].pc # "idle" /\ client[c].who = u
Recording(u) == \E c \in Clients : client[c].pc = "record" /\ client[c].who = u

(* What a client knows when it gets to its next call, as long as no other  *)
(* change concerned the same user: between the two calls of an addition    *)
(* the user has the key of the epoch it will have joined in, and the       *)
(* epochs of other clients since then count as skewed.                     *)
ClientInv(c) ==
    client[c].pc # "idle" =>
      /\ client[c].who \in Friends
      /\ client[c].pc = "advance" => Owner \in client[c].list
      /\ client[c].pc = "advance" /\ client[c].op = "add" => client[c].who \in client[c].list
      /\ client[c].pc \in {"record", "backfill"} => client[c].epoch \in 1..fEpoch
      /\ client[c].who \notin crossed =>
           /\ client[c].pc = "record" /\ client[c].op = "add" =>
                /\ fck[client[c].who][client[c].epoch] # 0
                /\ \A e \in FolderEpochs : client[c].epoch < e /\ e <= fEpoch => e \in skewed
           /\ client[c].pc = "backfill" => shares[client[c].who] # NoShare

(* The wraps of a user that no client is between its two calls for.        *)
HasKeysSince(u) ==
    \A e \in FolderEpochs : shares[u].joined <= e /\ e <= fEpoch => fck[u][e] # 0 \/ e \in skewed
HasNoKeys(u) == \A e \in FolderEpochs : fck[u][e] # 0 => e \in skewed
WrapInv(u) ==
    u \notin crossed /\ ~Recording(u) =>
      /\ u \in ListFolderShareMembers => HasKeysSince(u)
      /\ shares[u] = NoShare => HasNoKeys(u)

(* One change at a time concerns a user that is not crossed.               *)
AloneInv == \A u \in Friends \ crossed : \A c, d \in Clients : Busy(c, u) /\ Busy(d, u) => c = d

(* The owner has every key, and files have epochs that were advanced to.   *)
OwnerInv == \A e \in 1..fEpoch : fck[Owner][e] # 0
DocsInv == \A x \in DriveDocs : docs[x].epoch <= fEpoch /\ (upload[x] # NoUpload => upload[x] <= fEpoch)

SharesInv ==
    /\ SharesTypeOK /\ AloneInv /\ OwnerInv /\ DocsInv
    /\ \A c \in Clients : ClientInv(c)
    /\ \A u \in Friends : WrapInv(u)

LEMMA SharesPart ==
    ASSUME [StoresNext]_storesVars
    PROVE  [SharesNext]_shareVars
  BY DEF StoresNext, Only, storesVars

LEMMA SharesBounds ==
    /\ MaxAdvances \in Nat /\ Owner \notin Friends /\ NoShare \notin ShareRec
  BY SharesAssumption DEF ShareRec, FolderEpochs

LEMMA ClientFacts ==
    ASSUME SharesTypeOK, NEW c \in Clients
    PROVE  /\ client[c] \in ClientRec
           /\ client[c].who \in Parties /\ client[c].epoch \in 0..MaxAdvances
           /\ client[c].filled \in 0..MaxAdvances
           /\ client[c].list \subseteq Parties /\ client[c].files \subseteq DriveDocs
           /\ client[c].op \in {"add", "remove"} /\ client[c].past \in BOOLEAN
           /\ client[c].pc \in {"idle", "advance", "record", "backfill"}
  <1>1. client[c] \in ClientRec
    BY DEF SharesTypeOK, ClientRec
  <1> QED
    BY <1>1 DEF ClientRec

LEMMA ShareFacts ==
    ASSUME SharesTypeOK
    PROVE  /\ fEpoch \in 0..MaxAdvances /\ fEpoch \in Nat
           /\ \A u \in Friends : shares[u] # NoShare => shares[u] \in ShareRec /\ shares[u].joined \in FolderEpochs
           /\ \A u \in Parties : fck[u] \in [FolderEpochs -> 0..MaxAdvances]
           /\ client \in [Clients -> ClientRec]
           /\ Friends \subseteq Parties /\ Owner \in Parties
  <1>1. shares \in [Friends -> ShareRec \cup {NoShare}]
    BY DEF SharesTypeOK, ShareRec
  <1>2. \A u \in Friends : shares[u] # NoShare => shares[u] \in ShareRec
    BY <1>1
  <1>3. fEpoch \in 0..MaxAdvances /\ fck \in [Parties -> [FolderEpochs -> 0..MaxAdvances]] /\ client \in [Clients -> ClientRec]
    BY DEF SharesTypeOK, ClientRec
  <1> QED
    BY <1>2, <1>3, SharesBounds DEF ShareRec, Parties

LEMMA IdleTyped == IdleClient \in ClientRec /\ IdleClient.pc = "idle"
  BY SharesBounds DEF IdleClient, ClientRec, Parties

LEMMA ClientSet ==
    ASSUME SharesTypeOK, NEW c \in Clients, NEW r \in ClientRec, SetClient(c, r)
    PROVE  /\ client' \in [Clients -> ClientRec]
           /\ client'[c] = r /\ \A d \in Clients : d # c => client'[d] = client[d]
  <1>1. client \in [Clients -> ClientRec] /\ client' = [client EXCEPT ![c] = r]
    BY ShareFacts DEF SetClient
  <1> QED
    BY <1>1

(* The type of the state in the named sets, before and after a step.       *)
SharesNamedType ==
    /\ fEpoch \in 0..MaxAdvances
    /\ shares \in [Friends -> ShareRec \cup {NoShare}]
    /\ fck \in [Parties -> [FolderEpochs -> 0..MaxAdvances]]
    /\ names \subseteq FolderEpochs
    /\ docs \in [DriveDocs -> [state: {"none", "stored"}, epoch: 0..MaxAdvances]]
    /\ client \in [Clients -> ClientRec]
    /\ upload \in [DriveDocs -> 0..(MaxAdvances + 1)]
    /\ skewed \subseteq FolderEpochs /\ crossed \subseteq Friends

LEMMA SharesTyped == SharesTypeOK <=> SharesNamedType
  BY Zenon DEF SharesTypeOK, SharesNamedType, ClientRec, ShareRec

LEMMA SharesTypedNext == SharesTypeOK' <=> SharesNamedType'
  BY Zenon DEF SharesTypeOK, SharesNamedType, ClientRec, ShareRec

(* A client that a step does not move.                                     *)
LEMMA ClientStays ==
    ASSUME SharesTypeOK, SharesTypeOK', NEW c \in Clients, ClientInv(c), client'[c] = client[c],
           fEpoch <= fEpoch', crossed \subseteq crossed', skewed \subseteq skewed',
           \A e \in FolderEpochs : client[c].pc = "record" /\ fEpoch < e /\ e <= fEpoch' => e \in skewed',
           ASSUME client[c].pc # "idle", client[c].who \in Friends, client[c].who \notin crossed'
           PROVE  /\ \A e \in FolderEpochs : fck[client[c].who][e] # 0 => fck'[client[c].who][e] # 0
                  /\ shares[client[c].who] # NoShare => shares'[client[c].who] # NoShare
    PROVE  ClientInv(c)'
  <1>1. fEpoch \in Nat /\ fEpoch' \in 0..MaxAdvances /\ client[c].epoch \in 0..MaxAdvances /\ MaxAdvances \in Nat
    BY ShareFacts, ClientFacts, SharesBounds DEF SharesTypeOK
  <1> SUFFICES ASSUME client[c].pc # "idle"
               PROVE  ClientInv(c)'
    BY DEF ClientInv
  <1>2. client[c].pc \in {"record", "backfill"} => client[c].epoch \in 1..fEpoch'
    BY <1>1 DEF ClientInv
  <1>3. ASSUME client[c].who \notin crossed', client[c].pc = "record", client[c].op = "add"
        PROVE  /\ fck'[client[c].who][client[c].epoch] # 0
               /\ \A e \in FolderEpochs : client[c].epoch < e /\ e <= fEpoch' => e \in skewed'
    <2>1. client[c].who \in Friends /\ client[c].who \notin crossed /\ client[c].epoch \in FolderEpochs
      BY <1>1, <1>2, <1>3 DEF ClientInv, FolderEpochs
    <2>2. \A e \in FolderEpochs : client[c].epoch < e /\ e <= fEpoch => e \in skewed
      BY <1>3, <2>1 DEF ClientInv
    <2>3. \A e \in FolderEpochs : e <= fEpoch \/ fEpoch < e
      BY <1>1 DEF FolderEpochs
    <2> QED
      BY <1>3, <2>1, <2>2, <2>3 DEF ClientInv
  <1>4. ASSUME client[c].who \notin crossed', client[c].pc = "backfill"
        PROVE  shares'[client[c].who] # NoShare
    BY <1>4 DEF ClientInv
  <1> QED
    BY <1>2, <1>3, <1>4 DEF ClientInv

(* A user whose wraps and share a step leaves alone.                       *)
LEMMA WrapsStay ==
    ASSUME NEW u \in Friends, WrapInv(u), fck'[u] = fck[u], shares'[u] = shares[u],
           UNCHANGED <<fEpoch, skewed>>, crossed \subseteq crossed',
           Recording(u) => Recording(u)' \/ u \in crossed'
    PROVE  WrapInv(u)'
  BY DEF WrapInv, ListFolderShareMembers, HasKeysSince, HasNoKeys

(* A client ends or goes on with its change.                               *)
LEMMA StaysAlone ==
    ASSUME AloneInv, NEW c \in Clients, crossed \subseteq crossed',
           \A d \in Clients : d # c => client'[d] = client[d],
           client'[c].pc = "idle" \/ (client[c].pc # "idle" /\ client'[c].who = client[c].who)
    PROVE  AloneInv'
  <1>1. \A d \in Clients : \A u \in Friends : Busy(d, u)' => Busy(d, u)
    BY DEF Busy
  <1> QED
    BY <1>1 DEF AloneInv

LEMMA SharesKept == SharesInv => SharesTypeOK /\ WrapsFollowMembers
  <1> SUFFICES ASSUME SharesInv
               PROVE  WrapsFollowMembers
    BY DEF SharesInv
  <1>0. SharesTypeOK /\ fEpoch \in Nat
    BY ShareFacts DEF SharesInv
  <1>1. ASSUME NEW u \in Friends, Undisturbed(u)
        PROVE  /\ u \in ListFolderShareMembers =>
                    (shares[u].joined..fEpoch) \subseteq (GetFolderEpochKeysForUser(u) \cup skewed)
               /\ shares[u] = NoShare => GetFolderEpochKeysForUser(u) \subseteq skewed
    <2>1. u \notin crossed /\ ~Recording(u) /\ WrapInv(u)
      BY <1>1 DEF Undisturbed, Recording, SharesInv
    <2>2. ASSUME u \in ListFolderShareMembers
          PROVE  (shares[u].joined..fEpoch) \subseteq (GetFolderEpochKeysForUser(u) \cup skewed)
      <3>1. shares[u].joined \in FolderEpochs /\ fEpoch \in 0..MaxAdvances
        BY <1>0, <2>2, ShareFacts DEF ListFolderShareMembers
      <3>2. \A e \in shares[u].joined..fEpoch : e \in FolderEpochs /\ shares[u].joined <= e /\ e <= fEpoch
        BY <3>1, SharesBounds DEF FolderEpochs
      <3> QED
        BY <2>1, <2>2, <3>2 DEF WrapInv, HasKeysSince, GetFolderEpochKeysForUser
    <2>3. shares[u] = NoShare => GetFolderEpochKeysForUser(u) \subseteq skewed
      BY <2>1 DEF WrapInv, HasNoKeys, GetFolderEpochKeysForUser
    <2> QED
      BY <2>2, <2>3
  <1>2. ASSUME NEW x \in DriveDocs, docs[x].epoch # 0
        PROVE  docs[x].epoch \in GetFolderEpochKeysForUser(Owner)
    <2>1. docs[x].epoch \in 0..MaxAdvances /\ docs[x].epoch <= fEpoch
      BY <1>0 DEF SharesTypeOK, SharesInv, DocsInv
    <2>2. docs[x].epoch \in 1..fEpoch /\ docs[x].epoch \in FolderEpochs
      BY <1>0, <1>2, <2>1, SharesBounds DEF FolderEpochs
    <2> QED
      BY <2>2 DEF GetFolderEpochKeysForUser, SharesInv, OwnerInv
  <1> QED
    BY <1>1, <1>2 DEF WrapsFollowMembers

LEMMA SharesStart == SharesInit => SharesInv
  <1> SUFFICES ASSUME SharesInit
               PROVE  SharesInv
    OBVIOUS
  <1>0. MaxAdvances \in Nat /\ 0 \in 0..MaxAdvances /\ MaxAdvances + 1 \in 0..(MaxAdvances + 1)
    BY SharesBounds
  <1>1. SharesTypeOK
    BY <1>0, IdleTyped, SharesTyped DEF SharesInit, NoUpload, SharesNamedType
  <1>2. \A c \in Clients : client[c].pc = "idle"
    BY IdleTyped DEF SharesInit
  <1>3. AloneInv /\ \A c \in Clients : ClientInv(c)
    BY <1>2 DEF AloneInv, Busy, ClientInv
  <1>4. OwnerInv /\ DocsInv
    BY <1>0 DEF SharesInit, OwnerInv, DocsInv
  <1>5. \A u \in Friends : WrapInv(u)
    <2>1. \A u \in Friends : HasNoKeys(u) /\ u \notin ListFolderShareMembers
      BY SharesBounds DEF SharesInit, HasNoKeys, ListFolderShareMembers, Parties
    <2> QED
      BY <2>1 DEF WrapInv
  <1> QED
    BY <1>1, <1>3, <1>4, <1>5 DEF SharesInv

LEMMA ChangeStarted ==
    ASSUME SharesInv, NEW c \in Clients, NEW op \in {"add", "remove"}, NEW who \in Friends,
           NEW past \in BOOLEAN, StartChange(c, op, who, past)
    PROVE  SharesInv'
  <1> DEFINE r == [pc |-> "advance", op |-> op, who |-> who, past |-> past,
                   list |-> ListAfter(op, who),
                   files |-> IF fEpoch = 0 THEN ListFilesInFolder ELSE {}, epoch |-> 0, filled |-> 0]
  <1>0. SharesTypeOK /\ Friends \subseteq Parties /\ Owner \in Parties /\ 0 \in 0..MaxAdvances
    BY ShareFacts, SharesBounds DEF SharesInv
  <1>1. r \in ClientRec
    <2>1. ListAfter(op, who) \subseteq Parties /\ ListFilesInFolder \subseteq DriveDocs
      BY <1>0 DEF ListAfter, ListFolderShareMembers, ListFilesInFolder
    <2> QED
      BY <1>0, <2>1 DEF ClientRec
  <1>2. /\ r.pc = "advance" /\ r.who = who /\ r.op = op /\ r.list = ListAfter(op, who)
        /\ Owner \in r.list /\ (op = "add" => who \in r.list)
    BY DEF ListAfter
  <1>3. SetClient(c, r) /\ client[c].pc = "idle"
    BY DEF StartChange
  <1> HIDE DEF r
  <1>4. /\ client' \in [Clients -> ClientRec]
        /\ client'[c] = r /\ \A d \in Clients : d # c => client'[d] = client[d]
    BY <1>0, <1>1, <1>3, ClientSet
  <1>5. /\ crossed \subseteq crossed' /\ crossed' \subseteq Friends
        /\ who \notin crossed' => \A d \in Clients : d # c => ~Busy(d, who)
    BY <1>0 DEF StartChange, Busy, SharesTypeOK
  <1>6. SharesTypeOK'
    BY <1>0, <1>4, <1>5, SharesTyped, SharesTypedNext DEF StartChange, SharesNamedType
  <1>7. AloneInv'
    <2> SUFFICES ASSUME NEW u \in Friends, u \notin crossed', NEW d \in Clients, NEW g \in Clients,
                        Busy(d, u)', Busy(g, u)'
                 PROVE  d = g
      BY DEF AloneInv
    <2>1. \A h \in Clients : h # c => (Busy(h, u)' <=> Busy(h, u))
      BY <1>4 DEF Busy
    <2>2. Busy(c, u)' => u = who
      BY <1>2, <1>4 DEF Busy
    <2> QED
      BY <1>5, <2>1, <2>2 DEF SharesInv, AloneInv
  <1>8. ASSUME NEW d \in Clients
        PROVE  ClientInv(d)'
    <2>1. CASE d = c
      BY <1>2, <1>4, <2>1 DEF ClientInv
    <2>2. CASE d # c
      <3>1. fEpoch' = fEpoch /\ fck' = fck /\ shares' = shares /\ skewed' = skewed /\ fEpoch \in Nat
        BY <1>0, ShareFacts DEF StartChange
      <3>2. fEpoch <= fEpoch' /\ \A e \in FolderEpochs : ~(fEpoch < e /\ e <= fEpoch')
        BY <3>1 DEF FolderEpochs
      <3>3. ClientInv(d)
        BY DEF SharesInv
      <3> QED
        BY <1>0, <1>4, <1>5, <1>6, <2>2, <3>1, <3>2, <3>3, ClientStays, ZenonT(40)
    <2> QED
      BY <2>1, <2>2
  <1>9. ASSUME NEW u \in Friends
        PROVE  WrapInv(u)'
    <2>1. Recording(u) => Recording(u)'
      BY <1>3, <1>4 DEF Recording
    <2> QED
      BY <1>5, <2>1, WrapsStay DEF StartChange, SharesInv
  <1>10. OwnerInv' /\ DocsInv'
    BY DEF StartChange, SharesInv, OwnerInv, DocsInv, NoUpload
  <1> QED
    BY <1>6, <1>7, <1>8, <1>9, <1>10 DEF SharesInv

LEMMA EpochAdvanced ==
    ASSUME SharesInv, NEW c \in Clients, AdvanceFolderEpoch(c)
    PROVE  SharesInv'
  <1> DEFINE e == fEpoch + 1
             r == [client[c] EXCEPT !.pc = "record", !.epoch = e]
             fair == /\ client[c].list = ListAfter(client[c].op, client[c].who)
                     /\ \A d \in Clients \ {c} : client[d].pc # "record"
  <1>0. SharesTypeOK /\ ClientInv(c) /\ client[c] \in ClientRec
    BY ClientFacts DEF SharesInv
  <1>1. /\ fEpoch \in Nat /\ MaxAdvances \in Nat /\ fEpoch < MaxAdvances /\ e \in FolderEpochs
        /\ e \in 0..MaxAdvances /\ e # 0 /\ fEpoch < e
    BY <1>0, ShareFacts, SharesBounds DEF AdvanceFolderEpoch, FolderEpochs
  <1>2. /\ fEpoch' = e
        /\ fck' = [u \in Parties |-> IF u \in client[c].list THEN [fck[u] EXCEPT ![e] = e] ELSE fck[u]]
        /\ names' = names \cup {e} /\ SetClient(c, r) /\ client[c].pc = "advance"
        /\ skewed' = IF fair THEN skewed ELSE skewed \cup {e}
        /\ UNCHANGED <<shares, upload, crossed>>
        /\ docs' = [x \in DriveDocs |->
              IF x \in client[c].files /\ docs[x].state = "stored"
              THEN [docs[x] EXCEPT !.epoch = e] ELSE docs[x]]
    BY DEF AdvanceFolderEpoch, NewEpoch
  <1>3. r \in ClientRec /\ r.pc = "record" /\ r.epoch = e /\ r.who = client[c].who /\ r.op = client[c].op
    BY <1>0, <1>1 DEF ClientRec
  <1>f. /\ skewed \subseteq skewed' /\ skewed' \subseteq skewed \cup {e}
        /\ fair \/ e \in skewed'
    BY <1>2
  <1>g. fair => /\ client[c].list = ListAfter(client[c].op, client[c].who)
                /\ \A d \in Clients : d # c => client[d].pc # "record"
    OBVIOUS
  <1> HIDE DEF r, fair
  <1>4. /\ client' \in [Clients -> ClientRec]
        /\ client'[c] = r /\ \A d \in Clients : d # c => client'[d] = client[d]
    BY <1>0, <1>2, <1>3, ClientSet
  <1>5. \A u \in Parties : /\ fck'[u] \in [FolderEpochs -> 0..MaxAdvances]
                           /\ fck'[u][e] = IF u \in client[c].list THEN e ELSE fck[u][e]
                           /\ \A g \in FolderEpochs : g # e => fck'[u][g] = fck[u][g]
                           /\ \A g \in FolderEpochs : fck[u][g] # 0 => fck'[u][g] # 0
    <2>1. \A u \in Parties : fck[u] \in [FolderEpochs -> 0..MaxAdvances]
      BY <1>0, ShareFacts
    <2> HIDE DEF e
    <2> QED
      BY <1>1, <1>2, <2>1
  <1>6. /\ docs' \in [DriveDocs -> [state: {"none", "stored"}, epoch: 0..MaxAdvances]]
        /\ \A x \in DriveDocs : docs'[x].epoch = e \/ docs'[x].epoch = docs[x].epoch
    <2>1. docs \in [DriveDocs -> [state: {"none", "stored"}, epoch: 0..MaxAdvances]]
      BY <1>0 DEF SharesTypeOK
    <2>2. \A x \in DriveDocs : [docs[x] EXCEPT !.epoch = e] \in [state: {"none", "stored"}, epoch: 0..MaxAdvances]
      BY <1>1, <2>1
    <2> HIDE DEF e
    <2> QED
      BY <1>2, <2>1, <2>2
  <1>7. SharesTypeOK'
    <2>1. fck' \in [Parties -> [FolderEpochs -> 0..MaxAdvances]]
      BY <1>2, <1>5
    <2>2. names' \subseteq FolderEpochs /\ skewed' \subseteq FolderEpochs
      BY <1>0, <1>1, <1>2, <1>f DEF SharesTypeOK
    <2> HIDE DEF e
    <2> QED
      BY <1>0, <1>1, <1>2, <1>4, <1>6, <2>1, <2>2, SharesTyped, SharesTypedNext DEF SharesNamedType
  <1>8. AloneInv'
    BY <1>2, <1>3, <1>4, StaysAlone DEF SharesInv
  <1>9. ASSUME NEW d \in Clients
        PROVE  ClientInv(d)'
    <2>1. CASE d = c
      <3>1. client[c].who \in Friends /\ client[c].who \in Parties /\ e \in 1..fEpoch'
        BY <1>0, <1>1, <1>2, ClientFacts DEF ClientInv
      <3>2. client[c].op = "add" => fck'[client[c].who][e] # 0
        BY <1>0, <1>1, <1>2, <1>5, <3>1 DEF ClientInv
      <3>3. \A g \in FolderEpochs : ~(e < g /\ g <= fEpoch')
        BY <1>1, <1>2 DEF FolderEpochs
      <3> HIDE DEF e
      <3> QED
        BY <1>3, <1>4, <2>1, <3>1, <3>2, <3>3 DEF ClientInv
    <2>2. CASE d # c
      <3>1. fEpoch <= fEpoch' /\ crossed \subseteq crossed' /\ skewed \subseteq skewed' /\ shares' = shares
        BY <1>1, <1>2, <1>f
      <3>2. \A g \in FolderEpochs : fEpoch < g /\ g <= fEpoch' => g = e
        BY <1>1, <1>2 DEF FolderEpochs
      <3>3. \A g \in FolderEpochs : client[d].pc = "record" /\ fEpoch < g /\ g <= fEpoch' => g \in skewed'
        BY <1>f, <1>g, <2>2, <3>2
      <3>4. ClientInv(d) /\ client'[d] = client[d]
        BY <1>4, <2>2 DEF SharesInv
      <3>5. client[d].who \in Parties
        BY <1>0, ClientFacts
      <3> HIDE DEF e
      <3> QED
        BY <1>0, <1>5, <1>7, <3>1, <3>3, <3>4, <3>5, ClientStays, ZenonT(40)
    <2> QED
      BY <2>1, <2>2
  <1>10. ASSUME NEW u \in Friends
         PROVE  WrapInv(u)'
    <2>1. CASE u = client[c].who
      BY <1>3, <1>4, <2>1 DEF WrapInv, Recording
    <2>2. CASE u # client[c].who
      <3> SUFFICES ASSUME u \notin crossed', ~Recording(u)'
                   PROVE  /\ u \in ListFolderShareMembers' => HasKeysSince(u)'
                          /\ shares'[u] = NoShare => HasNoKeys(u)'
        BY DEF WrapInv
      <3>1. u \notin crossed /\ ~Recording(u)
        BY <1>2, <1>4 DEF Recording
      <3>2. ListFolderShareMembers' = ListFolderShareMembers /\ shares'[u] = shares[u] /\ u \in Parties
        BY <1>0, <1>2, ShareFacts DEF ListFolderShareMembers
      <3>3. fair => (u \in client[c].list <=> u \in ListFolderShareMembers)
        BY <1>g, <2>2, SharesBounds DEF ListAfter
      <3>4. ASSUME u \in ListFolderShareMembers
            PROVE  HasKeysSince(u)'
        <4>1. HasKeysSince(u)
          BY <3>1, <3>4 DEF SharesInv, WrapInv
        <4>2. fck'[u][e] # 0 \/ e \in skewed'
          BY <1>1, <1>5, <1>f, <3>2, <3>3, <3>4
        <4>3. \A g \in FolderEpochs : g <= fEpoch' => g <= fEpoch \/ g = e
          BY <1>1, <1>2 DEF FolderEpochs
        <4> HIDE DEF e
        <4> QED
          BY <1>5, <1>f, <3>2, <4>1, <4>2, <4>3 DEF HasKeysSince
      <3>5. ASSUME shares[u] = NoShare
            PROVE  HasNoKeys(u)'
        <4>1. HasNoKeys(u) /\ u \notin ListFolderShareMembers
          BY <3>1, <3>5 DEF SharesInv, WrapInv, ListFolderShareMembers
        <4>2. fck'[u][e] # 0 => e \in skewed'
          BY <1>5, <1>f, <1>1, <3>2, <3>3, <4>1 DEF HasNoKeys
        <4> HIDE DEF e
        <4> QED
          BY <1>5, <1>f, <3>2, <4>1, <4>2 DEF HasNoKeys
      <3> QED
        BY <3>2, <3>4, <3>5
    <2> QED
      BY <2>1, <2>2
  <1>11. OwnerInv'
    <2>1. Owner \in client[c].list /\ Owner \in Parties
      BY <1>0, <1>2, ShareFacts DEF ClientInv
    <2>2. \A g \in 1..fEpoch' : g = e \/ (g \in 1..fEpoch /\ g \in FolderEpochs)
      BY <1>1, <1>2 DEF FolderEpochs
    <2>3. fck'[Owner][e] # 0
      BY <1>1, <1>5, <2>1
    <2> HIDE DEF e
    <2> QED
      BY <1>5, <2>1, <2>2, <2>3 DEF OwnerInv, SharesInv
  <1>12. DocsInv'
    <2> SUFFICES ASSUME NEW x \in DriveDocs
                 PROVE  docs'[x].epoch <= fEpoch' /\ (upload'[x] # NoUpload => upload'[x] <= fEpoch')
      BY DEF DocsInv, NoUpload
    <2>1. /\ docs[x].epoch \in 0..MaxAdvances /\ upload[x] \in 0..(MaxAdvances + 1)
          /\ docs[x].epoch <= fEpoch /\ (upload[x] # NoUpload => upload[x] <= fEpoch)
      BY <1>0 DEF SharesTypeOK, SharesInv, DocsInv
    <2>2. docs'[x].epoch = e \/ docs'[x].epoch = docs[x].epoch
      BY <1>6
    <2> QED
      BY <1>1, <1>2, <2>1, <2>2
  <1> QED
    BY <1>7, <1>8, <1>9, <1>10, <1>11, <1>12 DEF SharesInv

(* The steps that end in another call's territory: what client c does for  *)
(* its user u leaves the other users' shares and wraps, and the epochs,    *)
(* alone.                                                                  *)
LEMMA UserStep ==
    ASSUME SharesInv, NEW c \in Clients, NEW r \in ClientRec, NEW u \in Friends, SetClient(c, r),
           client[c].pc # "idle", client[c].who = u, ClientInv(c)',
           r.pc = "idle" \/ r.who = u, r.pc # "record",
           UNCHANGED <<fEpoch, names, docs, upload, skewed, crossed>>,
           shares' \in [Friends -> ShareRec \cup {NoShare}],
           \A v \in Friends : v # u => shares'[v] = shares[v],
           fck' \in [Parties -> [FolderEpochs -> 0..MaxAdvances]],
           \A v \in Parties : v # u => fck'[v] = fck[v],
           ASSUME u \notin crossed
           PROVE  /\ u \in ListFolderShareMembers' => HasKeysSince(u)'
                  /\ shares'[u] = NoShare => HasNoKeys(u)'
    PROVE  SharesInv'
  <1>0. SharesTypeOK
    BY DEF SharesInv
  <1>1. /\ client' \in [Clients -> ClientRec]
        /\ client'[c] = r /\ \A d \in Clients : d # c => client'[d] = client[d]
    BY <1>0, ClientSet
  <1>2. SharesTypeOK'
    BY <1>0, <1>1, SharesTyped, SharesTypedNext DEF SharesNamedType
  <1>3. AloneInv'
    BY <1>1, StaysAlone DEF SharesInv
  <1>4. ASSUME NEW d \in Clients
        PROVE  ClientInv(d)'
    <2>1. CASE d # c
      <3>1. fEpoch <= fEpoch' /\ \A e \in FolderEpochs : ~(fEpoch < e /\ e <= fEpoch')
        BY <1>0, ShareFacts DEF FolderEpochs
      <3>2. ClientInv(d) /\ client'[d] = client[d] /\ client[d].who \in Parties
        BY <1>0, <1>1, <2>1, ClientFacts DEF SharesInv
      <3>3. ASSUME client[d].pc # "idle", client[d].who \in Friends, client[d].who \notin crossed'
            PROVE  client[d].who # u
        BY <2>1, <3>3 DEF SharesInv, AloneInv, Busy
      <3> QED
        BY <1>0, <1>2, <3>1, <3>2, <3>3, ClientStays, ZenonT(40)
    <2> QED
      BY <2>1
  <1>5. ASSUME NEW v \in Friends
        PROVE  WrapInv(v)'
    <2>1. CASE v = u
      BY <2>1 DEF WrapInv
    <2>2. CASE v # u
      <3>1. Recording(v) => Recording(v)'
        BY <1>1, <2>2 DEF Recording
      <3>2. v \in Parties
        BY <1>0, ShareFacts
      <3> QED
        BY <2>2, <3>1, <3>2, WrapsStay DEF SharesInv
    <2> QED
      BY <2>1, <2>2
  <1>6. OwnerInv' /\ DocsInv'
    <2>1. Owner # u /\ Owner \in Parties
      BY <1>0, SharesBounds, ShareFacts
    <2> QED
      BY <2>1 DEF SharesInv, OwnerInv, DocsInv, NoUpload
  <1> QED
    BY <1>2, <1>3, <1>4, <1>5, <1>6 DEF SharesInv

LEMMA MemberAdded ==
    ASSUME SharesInv, NEW c \in Clients, AddFolderShareMember(c)
    PROVE  SharesInv'
  <1>u. PICK u \in Friends : u = client[c].who
    BY DEF SharesInv, AddFolderShareMember, ClientInv
  <1> DEFINE s == [joined |-> client[c].epoch, past |-> client[c].past, expired |-> FALSE]
             r == IF client[c].past THEN [client[c] EXCEPT !.pc = "backfill"] ELSE IdleClient
  <1>0. /\ SharesTypeOK /\ ClientInv(c) /\ client[c] \in ClientRec /\ u \in Friends
        /\ client[c].pc = "record" /\ client[c].op = "add" /\ client[c].epoch \in 1..fEpoch
    BY <1>u, ClientFacts DEF SharesInv, AddFolderShareMember, ClientInv
  <1>1. /\ client[c].epoch \in FolderEpochs /\ client[c].past \in BOOLEAN
    BY <1>0, ShareFacts, ClientFacts, SharesBounds DEF FolderEpochs
  <1>2. s \in ShareRec /\ s # NoShare /\ s.joined = client[c].epoch
    <2>1. s \in ShareRec /\ s.joined = client[c].epoch
      BY <1>1 DEF ShareRec
    <2> QED
      BY <2>1, SharesBounds
  <1>3. r \in ClientRec /\ (r.pc = "idle" \/ (r.pc = "backfill" /\ r.who = u /\ r.epoch = client[c].epoch))
    BY <1>0, <1>u, IdleTyped DEF ClientRec
  <1>4. SetClient(c, r) /\ shares' = [shares EXCEPT ![u] = s] /\ UNCHANGED <<fEpoch, fck, names, docs, upload, skewed, crossed>>
    BY <1>u DEF AddFolderShareMember
  <1> HIDE DEF s, r
  <1>5. /\ shares' \in [Friends -> ShareRec \cup {NoShare}] /\ shares'[u] = s
        /\ \A v \in Friends : v # u => shares'[v] = shares[v]
    BY <1>0, <1>2, <1>4, SharesTyped DEF SharesNamedType
  <1>6. ClientInv(c)'
    <2>1. client'[c] = r
      BY <1>0, <1>3, <1>4, ClientSet
    <2> QED
      BY <1>0, <1>2, <1>3, <1>4, <1>5, <1>u, <2>1 DEF ClientInv
  <1>7. ASSUME u \notin crossed
        PROVE  HasKeysSince(u)'
    <2>1. /\ fck[u][client[c].epoch] # 0
          /\ \A e \in FolderEpochs : client[c].epoch < e /\ e <= fEpoch => e \in skewed
      BY <1>0, <1>u, <1>7 DEF ClientInv
    <2>2. \A e \in FolderEpochs : client[c].epoch <= e => e = client[c].epoch \/ client[c].epoch < e
      BY <1>0, <1>1 DEF FolderEpochs
    <2> QED
      BY <1>2, <1>4, <1>5, <2>1, <2>2 DEF HasKeysSince
  <1>8. fck' \in [Parties -> [FolderEpochs -> 0..MaxAdvances]]
    BY <1>0, <1>4 DEF SharesTypeOK
  <1>9. client[c].who = u
    BY <1>u
  <1> QED
    BY <1>0, <1>2, <1>3, <1>4, <1>5, <1>6, <1>7, <1>8, <1>9, UserStep, ZenonT(40)

LEMMA MemberRemoved ==
    ASSUME SharesInv, NEW c \in Clients, RemoveFolderShareMember(c)
    PROVE  SharesInv'
  <1>u. PICK u \in Friends : u = client[c].who
    BY DEF SharesInv, RemoveFolderShareMember, ClientInv
  <1>0. SharesTypeOK /\ u \in Friends /\ u \in Parties /\ client[c].pc = "record"
    BY <1>u, ClientFacts DEF SharesInv, RemoveFolderShareMember, ClientInv
  <1>1. /\ SetClient(c, IdleClient) /\ shares' = [shares EXCEPT ![u] = NoShare]
        /\ fck' = [fck EXCEPT ![u] = [e \in FolderEpochs |-> 0]]
        /\ UNCHANGED <<fEpoch, names, docs, upload, skewed, crossed>>
    BY <1>u DEF RemoveFolderShareMember, WithoutKeys
  <1>2. client[c].who = u
    BY <1>u
  <1>3. /\ shares' \in [Friends -> ShareRec \cup {NoShare}] /\ shares'[u] = NoShare
        /\ \A v \in Friends : v # u => shares'[v] = shares[v]
    BY <1>0, <1>1, SharesTyped DEF SharesNamedType
  <1>4. /\ fck' \in [Parties -> [FolderEpochs -> 0..MaxAdvances]] /\ fck'[u] = [e \in FolderEpochs |-> 0]
        /\ \A v \in Parties : v # u => fck'[v] = fck[v]
    <2>1. fck \in [Parties -> [FolderEpochs -> 0..MaxAdvances]] /\ 0 \in 0..MaxAdvances
      BY <1>0, SharesBounds DEF SharesTypeOK
    <2> QED
      BY <1>0, <1>1, <2>1
  <1>5. HasNoKeys(u)' /\ u \notin ListFolderShareMembers'
    BY <1>3, <1>4 DEF HasNoKeys, ListFolderShareMembers
  <1>6. ClientInv(c)'
    BY <1>0, <1>1, IdleTyped, ClientSet DEF ClientInv
  <1> QED
    BY <1>0, <1>1, <1>2, <1>3, <1>4, <1>5, <1>6, IdleTyped, UserStep, ZenonT(60)

LEMMA KeysBackfilled ==
    ASSUME SharesInv, NEW c \in Clients, BackfillEpochKeysForMember(c)
    PROVE  SharesInv'
  <1>u. PICK u \in Friends : u = client[c].who
    BY DEF SharesInv, BackfillEpochKeysForMember, ClientInv
  <1>0. /\ SharesTypeOK /\ u \in Friends /\ u \in Parties /\ client[c].pc = "backfill" /\ client[c].epoch \in 1..fEpoch
        /\ ClientInv(c) /\ client[c] \in ClientRec /\ client[c].filled \in 0..MaxAdvances
    BY <1>u, ClientFacts DEF SharesInv, BackfillEpochKeysForMember, ClientInv
  <1>2. client[c].who = u
    BY <1>u
  <1>3. PICK r \in ClientRec :
          /\ SetClient(c, r)
          /\ r.pc = "idle" \/ (r.pc = "backfill" /\ r.who = u /\ r.epoch = client[c].epoch)
    <2> DEFINE e == client[c].filled + 1
    <2>1. CASE e < client[c].epoch
      <3>1. SetClient(c, [client[c] EXCEPT !.filled = e])
        BY <2>1, <1>0, SharesBounds, ShareFacts DEF BackfillEpochKeysForMember
      <3>2. e \in 0..MaxAdvances
        BY <1>0, <2>1, SharesBounds, ShareFacts
      <3> HIDE DEF e
      <3>3. /\ [client[c] EXCEPT !.filled = e] \in ClientRec
            /\ [client[c] EXCEPT !.filled = e].pc = "backfill"
            /\ [client[c] EXCEPT !.filled = e].who = u
            /\ [client[c] EXCEPT !.filled = e].epoch = client[c].epoch
        BY <1>0, <1>2, <3>2 DEF ClientRec
      <3> QED
        BY <3>1, <3>3
    <2>2. CASE ~(e < client[c].epoch)
      BY <2>2, IdleTyped DEF BackfillEpochKeysForMember
    <2> QED
      BY <2>1, <2>2
  <1>1. UNCHANGED <<fEpoch, shares, names, docs, upload, skewed, crossed>>
    BY DEF BackfillEpochKeysForMember
  <1>4. /\ fck' \in [Parties -> [FolderEpochs -> 0..MaxAdvances]]
        /\ \A v \in Parties : v # u => fck'[v] = fck[v]
        /\ \A e \in FolderEpochs : fck[u][e] # 0 => fck'[u][e] # 0
    <2>1. /\ fck \in [Parties -> [FolderEpochs -> 0..MaxAdvances]]
          /\ fck[Owner] \in [FolderEpochs -> 0..MaxAdvances] /\ fck[u] \in [FolderEpochs -> 0..MaxAdvances]
      BY <1>0, ShareFacts DEF SharesTypeOK
    <2>2. CASE fck' = fck
      BY <2>1, <2>2
    <2>3. CASE fck' # fck
      <3> DEFINE e == client[c].filled + 1
                 w == [k \in 1..(client[c].epoch - 1) |-> fck[Owner][k]][1]
      <3>1. e < client[c].epoch /\ fck[u][e] = 0 /\ fck' = [fck EXCEPT ![u][e] = w]
        BY <1>2, <2>3 DEF BackfillEpochKeysForMember
      <3>2. e \in FolderEpochs /\ 1 \in FolderEpochs /\ 1 \in 1..(client[c].epoch - 1)
        BY <1>0, <3>1, SharesBounds, ShareFacts DEF FolderEpochs
      <3>3. w \in 0..MaxAdvances
        BY <2>1, <3>2
      <3> HIDE DEF e, w
      <3>4. fck' = [fck EXCEPT ![u] = [fck[u] EXCEPT ![e] = w]]
        BY <3>1
      <3>5. [fck[u] EXCEPT ![e] = w] \in [FolderEpochs -> 0..MaxAdvances]
        BY <2>1, <3>2, <3>3
      <3>6. \A k \in FolderEpochs : fck[u][k] # 0 => [fck[u] EXCEPT ![e] = w][k] # 0
        BY <2>1, <3>1, <3>2
      <3> QED
        BY <1>0, <2>1, <3>4, <3>5, <3>6
    <2> QED
      BY <2>2, <2>3
  <1>5. ASSUME u \notin crossed
        PROVE  /\ u \in ListFolderShareMembers' => HasKeysSince(u)'
               /\ shares'[u] = NoShare => HasNoKeys(u)'
    <2>1. shares[u] # NoShare
      BY <1>0, <1>2, <1>5 DEF SharesInv, ClientInv
    <2>2. ~Recording(u)
      <3>1. \A d \in Clients : client[d].pc = "record" => client[d].who # u
        BY <1>0, <1>2, <1>5 DEF SharesInv, AloneInv, Busy
      <3> QED
        BY <3>1 DEF Recording
    <2>3. u \in ListFolderShareMembers => HasKeysSince(u)
      BY <1>0, <1>5, <2>2 DEF SharesInv, WrapInv
    <2> QED
      BY <1>1, <1>4, <2>1, <2>3 DEF HasKeysSince, ListFolderShareMembers
  <1>6. ClientInv(c)'
    <2>1. client'[c] = r
      BY <1>0, <1>3, ClientSet
    <2> QED
      BY <1>0, <1>1, <1>2, <1>3, <2>1 DEF ClientInv
  <1>7. shares' \in [Friends -> ShareRec \cup {NoShare}]
    BY <1>0, <1>1, SharesTyped DEF SharesNamedType
  <1> QED
    BY <1>0, <1>1, <1>2, <1>3, <1>4, <1>5, <1>6, <1>7, UserStep, ZenonT(40)

LEMMA ChangeAbandoned ==
    ASSUME SharesInv, NEW c \in Clients, AbandonChange(c)
    PROVE  SharesInv'
  <1>0. SharesTypeOK /\ client[c].who \in Friends
    BY DEF SharesInv, AbandonChange, ClientInv
  <1>1. /\ SetClient(c, IdleClient) /\ UNCHANGED <<fEpoch, shares, fck, names, docs, upload, skewed>>
        /\ crossed \subseteq crossed' /\ crossed' \subseteq crossed \cup {client[c].who}
        /\ client[c].pc = "record" => client[c].who \in crossed'
    BY DEF AbandonChange
  <1>2. /\ client' \in [Clients -> ClientRec]
        /\ client'[c] = IdleClient /\ \A d \in Clients : d # c => client'[d] = client[d]
    BY <1>0, <1>1, IdleTyped, ClientSet
  <1>3. SharesTypeOK'
    <2>1. crossed' \subseteq Friends
      BY <1>0, <1>1 DEF SharesTypeOK
    <2> QED
      BY <1>0, <1>1, <1>2, <2>1, SharesTyped, SharesTypedNext DEF SharesNamedType
  <1>4. AloneInv'
    BY <1>1, <1>2, IdleTyped, StaysAlone DEF SharesInv
  <1>5. ASSUME NEW d \in Clients
        PROVE  ClientInv(d)'
    <2>1. CASE d = c
      BY <1>2, <2>1, IdleTyped DEF ClientInv
    <2>2. CASE d # c
      <3>1. fEpoch <= fEpoch' /\ \A e \in FolderEpochs : ~(fEpoch < e /\ e <= fEpoch')
        BY <1>0, <1>1, ShareFacts DEF FolderEpochs
      <3>2. ClientInv(d)
        BY DEF SharesInv
      <3> QED
        BY <1>0, <1>1, <1>2, <1>3, <2>2, <3>1, <3>2, ClientStays, ZenonT(40)
    <2> QED
      BY <2>1, <2>2
  <1>6. ASSUME NEW u \in Friends
        PROVE  WrapInv(u)'
    <2>1. Recording(u) => Recording(u)' \/ u \in crossed'
      BY <1>1, <1>2 DEF Recording
    <2> QED
      BY <1>1, <2>1, WrapsStay DEF SharesInv
  <1>7. OwnerInv' /\ DocsInv'
    BY <1>1 DEF SharesInv, OwnerInv, DocsInv, NoUpload
  <1> QED
    BY <1>3, <1>4, <1>5, <1>6, <1>7 DEF SharesInv

LEMMA ShareExpired ==
    ASSUME SharesInv, NEW u \in Friends, ExpireShare(u)
    PROVE  SharesInv'
  <1>0. /\ SharesTypeOK /\ shares' = [shares EXCEPT ![u].expired = TRUE] /\ shares[u] # NoShare
        /\ UNCHANGED <<fEpoch, fck, names, docs, client, upload, skewed, crossed>>
    BY DEF SharesInv, ExpireShare, ListFolderShareMembers
  <1>1. shares \in [Friends -> ShareRec \cup {NoShare}] /\ shares[u] \in ShareRec
    BY <1>0, ShareFacts, SharesTyped DEF SharesNamedType
  <1>2. [shares[u] EXCEPT !.expired = TRUE] \in ShareRec /\ [shares[u] EXCEPT !.expired = TRUE].expired = TRUE
    BY <1>1 DEF ShareRec
  <1>3. /\ shares' \in [Friends -> ShareRec \cup {NoShare}] /\ shares'[u] \in ShareRec
        /\ shares'[u].expired = TRUE /\ \A v \in Friends : v # u => shares'[v] = shares[v]
    BY <1>0, <1>1, <1>2
  <1>4. SharesTypeOK'
    BY <1>0, <1>3, SharesTyped, SharesTypedNext DEF SharesNamedType
  <1>5. \A v \in Friends : shares[v] # NoShare => shares'[v] # NoShare
    BY <1>3, SharesBounds
  <1>6. ASSUME NEW d \in Clients
        PROVE  ClientInv(d)'
    <2>1. fEpoch <= fEpoch' /\ \A e \in FolderEpochs : ~(fEpoch < e /\ e <= fEpoch')
      BY <1>0, ShareFacts DEF FolderEpochs
    <2>2. ClientInv(d)
      BY DEF SharesInv
    <2> QED
      BY <1>0, <1>4, <1>5, <2>1, <2>2, ClientStays, ZenonT(40)
  <1>7. ASSUME NEW v \in Friends
        PROVE  WrapInv(v)'
    <2>1. CASE v = u
      BY <1>3, <2>1, SharesBounds DEF WrapInv, ListFolderShareMembers
    <2>2. CASE v # u
      <3>1. Recording(v) <=> Recording(v)'
        BY <1>0 DEF Recording
      <3> QED
        BY <1>0, <1>3, <2>2, <3>1, WrapsStay DEF SharesInv
    <2> QED
      BY <2>1, <2>2
  <1>8. AloneInv' /\ OwnerInv' /\ DocsInv'
    BY <1>0 DEF SharesInv, AloneInv, Busy, OwnerInv, DocsInv, NoUpload
  <1> QED
    BY <1>4, <1>6, <1>7, <1>8 DEF SharesInv

(* Uploads, and steps of other components.                                 *)
LEMMA FolderUntouched ==
    ASSUME SharesInv, UNCHANGED <<fEpoch, shares, fck, names, client, skewed, crossed>>,
           docs' \in [DriveDocs -> [state: {"none", "stored"}, epoch: 0..MaxAdvances]],
           upload' \in [DriveDocs -> 0..(MaxAdvances + 1)],
           \A x \in DriveDocs : docs'[x].epoch <= fEpoch /\ (upload'[x] # NoUpload => upload'[x] <= fEpoch)
    PROVE  SharesInv'
  <1>1. SharesTypeOK'
    BY SharesTyped, SharesTypedNext DEF SharesInv, SharesNamedType
  <1>2. DocsInv' /\ AloneInv' /\ OwnerInv'
    BY DEF DocsInv, NoUpload, SharesInv, AloneInv, Busy, OwnerInv
  <1>3. \A c \in Clients : ClientInv(c)'
    BY DEF SharesInv, ClientInv
  <1>4. \A u \in Friends : WrapInv(u)'
    BY DEF SharesInv, WrapInv, Recording, ListFolderShareMembers, HasKeysSince, HasNoKeys
  <1> QED
    BY <1>1, <1>2, <1>3, <1>4 DEF SharesInv

LEMMA SharesStep ==
    ASSUME SharesInv, [SharesNext]_shareVars
    PROVE  SharesInv'
  <1>0. /\ SharesTypeOK /\ DocsInv /\ fEpoch \in 0..MaxAdvances /\ MaxAdvances \in Nat
        /\ docs \in [DriveDocs -> [state: {"none", "stored"}, epoch: 0..MaxAdvances]]
        /\ upload \in [DriveDocs -> 0..(MaxAdvances + 1)]
    BY SharesBounds DEF SharesInv, SharesTypeOK
  <1>1. CASE UNCHANGED shareVars
    BY <1>0, <1>1, FolderUntouched DEF shareVars, DocsInv
  <1>2. ASSUME NEW x \in DriveDocs, StartUpload(x)
        PROVE  SharesInv'
    <2>1. GetShareRootForFolder \in 0..MaxAdvances /\ GetShareRootForFolder <= fEpoch
      BY <1>0 DEF GetShareRootForFolder
    <2>2. upload' = [upload EXCEPT ![x] = GetShareRootForFolder]
      BY <1>2 DEF StartUpload
    <2>3. upload' \in [DriveDocs -> 0..(MaxAdvances + 1)] /\ \A y \in DriveDocs : y # x => upload'[y] = upload[y]
      <3>1. GetShareRootForFolder \in 0..(MaxAdvances + 1)
        BY <1>0, <2>1
      <3> QED
        BY <1>0, <2>2, <3>1
    <2>4. upload'[x] = GetShareRootForFolder
      BY <1>0, <2>2
    <2> QED
      BY <1>0, <1>2, <2>1, <2>3, <2>4, FolderUntouched DEF StartUpload, DocsInv
  <1>3. ASSUME NEW x \in DriveDocs, CreateFileViaSharedFolder(x)
        PROVE  SharesInv'
    <2>1. /\ upload[x] # NoUpload /\ upload[x] <= fEpoch /\ upload[x] \in 0..MaxAdvances
          /\ NoUpload \in 0..(MaxAdvances + 1)
      BY <1>0, <1>3 DEF CreateFileViaSharedFolder, DocsInv, NoUpload
    <2>2. [state |-> "stored", epoch |-> upload[x]] \in [state: {"none", "stored"}, epoch: 0..MaxAdvances]
      BY <2>1
    <2>3. /\ docs' \in [DriveDocs -> [state: {"none", "stored"}, epoch: 0..MaxAdvances]]
          /\ upload' \in [DriveDocs -> 0..(MaxAdvances + 1)]
          /\ docs'[x].epoch = upload[x] /\ upload'[x] = NoUpload
          /\ \A y \in DriveDocs : y # x => docs'[y] = docs[y] /\ upload'[y] = upload[y]
      BY <1>0, <1>3, <2>1, <2>2 DEF CreateFileViaSharedFolder
    <2> QED
      BY <1>0, <1>3, <2>1, <2>3, FolderUntouched DEF CreateFileViaSharedFolder, DocsInv
  <1>4. ASSUME NEW c \in Clients, NEW op \in {"add", "remove"}, NEW who \in Friends, NEW past \in BOOLEAN,
               StartChange(c, op, who, past)
        PROVE  SharesInv'
    BY <1>4, ChangeStarted
  <1>5. ASSUME NEW c \in Clients,
               \/ AdvanceFolderEpoch(c) \/ AddFolderShareMember(c) \/ BackfillEpochKeysForMember(c)
               \/ RemoveFolderShareMember(c) \/ AbandonChange(c)
        PROVE  SharesInv'
    BY <1>5, EpochAdvanced, MemberAdded, KeysBackfilled, MemberRemoved, ChangeAbandoned
  <1>6. ASSUME NEW u \in Friends, ExpireShare(u)
        PROVE  SharesInv'
    BY <1>6, ShareExpired
  <1> QED
    BY <1>1, <1>2, <1>3, <1>4, <1>5, <1>6 DEF SharesNext

-----------------------------------------------------------------------------
(* Files of the drive.                                                     *)

(* An id without a row yet is unknown everywhere.                          *)
Unused(x) == x \notin blobs \cup finished /\ binned[x] = Null

(* A row is in a folder that exists, has its content when it is complete   *)
(* and is complete when its upload was acknowledged; the trash says what   *)
(* the user did last unless an old copy was written back.                  *)
RowInv(x) ==
    /\ files[x].folder \in Present \cup {Null}
    /\ files[x].complete => x \in blobs
    /\ x \in finished => files[x].complete
    /\ files[x].trashedAt = binned[x] \/ x \in reverted
    /\ x \notin doomed

(* A finished file went by the user, by age or because it was too late.    *)
GoneInv(x) ==
    x \in finished => x \in discarded \cup reverted \cup tooLate \/ Older(binned[x], Retention)

FileInv(x) ==
    /\ files[x] = Null => Unused(x)
    /\ x \in Rows => RowInv(x)
    /\ files[x] = Gone => GoneInv(x)
    /\ x \in doomed => files[x] = Gone

FilesInv == FilesTypeOK /\ \A x \in DriveFileIDs : FileInv(x)

LEMMA FilesPart ==
    ASSUME [StoresNext]_storesVars
    PROVE  [FilesNext]_driveVars
  BY DEF StoresNext, Only, storesVars

LEMMA FilesBounds ==
    /\ Retention \in Nat /\ UploadAge \in Nat /\ MaxHour \in Nat /\ MaxActs \in Nat
    /\ Null \notin DriveFolders /\ Gone \notin DriveFolders /\ Null \notin Nat /\ Gone \notin Nat
    /\ Null \notin FileRow /\ Gone \notin FileRow /\ Null # Gone
  BY FilesAssumption, TablesAssumption

LEMMA FileKinds ==
    ASSUME FilesTypeOK, NEW x \in DriveFileIDs
    PROVE  /\ x \in Rows <=> files[x] \in FileRow
           /\ x \in Rows \/ files[x] = Null \/ files[x] = Gone
           /\ x \in Rows <=> files[x] # Null /\ files[x] # Gone
  BY FilesBounds DEF FilesTypeOK, Rows

LEMMA FilesKept == FilesInv => FilesTypeOK /\ FinishedFilesKept
  <1> SUFFICES ASSUME FilesInv
               PROVE  FinishedFilesKept
    BY DEF FilesInv
  <1>0. FilesTypeOK
    BY DEF FilesInv
  <1>1. ASSUME NEW x \in finished
        PROVE  \/ x \in discarded \cup reverted \cup tooLate
               \/ Older(binned[x], Retention)
               \/ x \in ListTrashed /\ binned[x] # Null /\ x \in blobs
               \/ \E f \in Present \cup {Null} : x \in ListFiles(f) /\ x \in blobs
    <2>0. x \in DriveFileIDs
      BY <1>0, <1>1 DEF FilesTypeOK
    <2>1. CASE x \in Rows
      <3>1. RowInv(x)
        BY <2>0, <2>1 DEF FilesInv, FileInv
      <3> QED
        BY <1>1, <2>1, <3>1 DEF RowInv, ListTrashed, ListFiles
    <2>2. CASE x \notin Rows
      BY <1>0, <1>1, <2>0, <2>2, FileKinds DEF FilesInv, FileInv, GoneInv, Unused
    <2> QED
      BY <2>1, <2>2
  <1>2. \A u \in Recipients : ListSharedWithUser(u) \subseteq blobs
    BY DEF ListSharedWithUser, Rows, FilesInv, FileInv, RowInv
  <1> QED
    BY <1>1, <1>2 DEF FinishedFilesKept

(* A file whose row, content and history a step leaves alone.              *)
Still(x) ==
    /\ files'[x] = files[x] /\ (x \in blobs' <=> x \in blobs) /\ (x \in finished' <=> x \in finished)
    /\ (x \in doomed' => x \in doomed) /\ binned'[x] = binned[x]
    /\ (x \in discarded => x \in discarded') /\ (x \in reverted => x \in reverted')
    /\ (x \in tooLate => x \in tooLate')

LEMMA OlderLater ==
    ASSUME FilesTypeOK, FilesTypeOK', NEW x \in DriveFileIDs, hour' \in {hour, hour + 1},
           binned'[x] = binned[x], Older(binned[x], Retention)
    PROVE  Older(binned[x], Retention)'
  <1>1. hour \in Nat /\ Retention \in Nat /\ hour <= hour' /\ hour' \in Nat /\ binned[x] \in Nat \cup {Null}
    BY FilesBounds DEF FilesTypeOK, Hours
  <1> QED
    BY <1>1 DEF Older

LEMMA StillKept ==
    ASSUME FilesTypeOK, FilesTypeOK', NEW x \in DriveFileIDs, FileInv(x), Still(x), hour' \in {hour, hour + 1},
           x \in Rows => files[x].folder \in Present' \cup {Null}
    PROVE  FileInv(x)'
  <1>1. x \in Rows' <=> x \in Rows
    BY DEF Rows, Still
  <1>2. Older(binned[x], Retention) => Older(binned[x], Retention)'
    BY OlderLater DEF Still
  <1>3. x \in Rows => RowInv(x)'
    BY FileKinds DEF FileInv, RowInv, Still
  <1>4. files[x] = Gone => GoneInv(x)'
    BY <1>2 DEF FileInv, GoneInv, Still
  <1> QED
    BY <1>1, <1>3, <1>4 DEF FileInv, Unused, Still

(* The same where the step does not touch the folders either.              *)
LEMMA StillInPlace ==
    ASSUME FilesTypeOK, FilesTypeOK', NEW x \in DriveFileIDs, FileInv(x), Still(x), hour' \in {hour, hour + 1},
           folders' = folders
    PROVE  FileInv(x)'
  <1>1. Present' = Present
    BY DEF Present
  <1>2. x \in Rows => files[x].folder \in Present' \cup {Null}
    BY <1>1 DEF FileInv, RowInv
  <1> QED
    BY <1>2, StillKept

(* A step that replaces rows keeps their shape.                            *)
LEMMA RowEdits ==
    ASSUME FilesTypeOK, NEW x \in Rows, NEW f \in DriveFolders \cup {Null}, NEW t \in Hours \cup {Null},
           NEW s \in BOOLEAN
    PROVE  /\ files[x] \in FileRow
           /\ [files[x] EXCEPT !.folder = f] \in FileRow
           /\ [files[x] EXCEPT !.trashedAt = t] \in FileRow
           /\ [files[x] EXCEPT !.complete = TRUE] \in FileRow
           /\ [files[x] EXCEPT !.folder = f, !.trashedAt = t] \in FileRow
           /\ [files[x] EXCEPT !.folder = f, !.starred = s, !.trashedAt = t] \in FileRow
  <1>1. files[x] \in FileRow
    BY FileKinds DEF Rows
  <1> QED
    BY <1>1 DEF FileRow

LEMMA UprootedRow ==
    ASSUME FilesTypeOK, NEW x \in DriveFileIDs, NEW f \in DriveFolders
    PROVE  /\ Uprooted(f)[x] \in FileRow \cup {Null, Gone}
           /\ x \notin Rows => Uprooted(f)[x] = files[x]
           /\ x \in Rows => /\ Uprooted(f)[x] \in FileRow
                            /\ Uprooted(f)[x].folder =
                                 IF files[x].folder \in Subtree(f) THEN Null ELSE files[x].folder
                            /\ Uprooted(f)[x].trashedAt = files[x].trashedAt
                            /\ Uprooted(f)[x].complete = files[x].complete
                            /\ [Uprooted(f)[x] EXCEPT !.trashedAt = hour] \in FileRow
  <1>1. Uprooted(f)[x] = IF x \in Rows /\ files[x].folder \in Subtree(f)
                         THEN [files[x] EXCEPT !.folder = Null] ELSE files[x]
    BY DEF Uprooted
  <1>2. CASE x \in Rows
    <2>1. files[x] \in FileRow /\ hour \in Hours
      BY <1>2, FileKinds DEF FilesTypeOK
    <2> HIDE DEF Subtree, Uprooted
    <2>2. Uprooted(f)[x] \in FileRow
      BY <1>1, <1>2, <2>1 DEF FileRow
    <2>3. [Uprooted(f)[x] EXCEPT !.trashedAt = hour] \in FileRow
      BY <2>1, <2>2 DEF FileRow
    <2> QED
      BY <1>1, <1>2, <2>1, <2>2, <2>3 DEF FileRow
  <1>3. CASE x \notin Rows
    BY <1>1, <1>3 DEF FilesTypeOK
  <1> QED
    BY <1>2, <1>3

LEMMA FilesTypeStep ==
    ASSUME FilesTypeOK, [FilesNext]_driveVars
    PROVE  FilesTypeOK'
  <1>0. /\ hour \in Hours /\ acts \in 0..MaxActs /\ (Act => acts' \in 0..MaxActs)
        /\ Null \in Hours \cup {Null} /\ hour \in Hours \cup {Null}
    BY FilesBounds DEF FilesTypeOK, Act
  <1>1. CASE UNCHANGED driveVars
    BY <1>1 DEF FilesTypeOK, driveVars
  <1>2. CASE NextHour
    <2>1. hour' \in Hours
      BY <1>0, <1>2, FilesBounds DEF NextHour, Hours
    <2> QED
      BY <1>2, <2>1 DEF NextHour, FilesTypeOK, observed
  <1>3. ASSUME NEW X \in SUBSET Rows, RemoveRows(X)
        PROVE  /\ files' \in [DriveFileIDs -> FileRow \cup {Null, Gone}]
               /\ fileShares' \subseteq DriveFileIDs \X Recipients
               /\ X \subseteq DriveFileIDs
    BY <1>3 DEF RemoveRows, FilesTypeOK, Rows
  <1>4. CASE ReapStaleUploads
    <2>1. StaleUploads \in SUBSET Rows
      BY DEF StaleUploads
    <2> QED
      BY <1>3, <1>4, <2>1 DEF ReapStaleUploads, FilesTypeOK, observed, treeVars
  <1>5. CASE EmptyTrash
    <2>1. ListTrashed \in SUBSET Rows
      BY DEF ListTrashed
    <2> QED
      BY <1>0, <1>3, <1>5, <2>1 DEF EmptyTrash, FilesTypeOK, treeVars
  <1>6. CASE PurgeOldTrashed
    <2>1. OldTrash \in SUBSET Rows
      BY DEF OldTrash, ListTrashed
    <2> QED
      BY <1>3, <1>6, <2>1 DEF PurgeOldTrashed, FilesTypeOK, observed, treeVars
  <1>7. ASSUME NEW f \in DriveFolders
        PROVE  WithoutSubtree(f) \in [DriveFolders -> DriveFolders \cup {Null, Gone}]
    BY DEF WithoutSubtree, FilesTypeOK
  <1>8. ASSUME NEW f \in DriveFolders, DeleteFolder(f)
        PROVE  FilesTypeOK'
    <2>1. files' \in [DriveFileIDs -> FileRow \cup {Null, Gone}]
      <3>1. \A x \in DriveFileIDs : Uprooted(f)[x] \in FileRow \cup {Null, Gone}
        BY UprootedRow
      <3>2. Uprooted(f) = [x \in DriveFileIDs |-> Uprooted(f)[x]]
        BY DEF Uprooted
      <3> QED
        BY <1>8, <3>1, <3>2 DEF DeleteFolder
    <2> QED
      BY <1>0, <1>7, <1>8, <2>1 DEF DeleteFolder, FilesTypeOK, observed
  <1>9. ASSUME NEW f \in DriveFolders, DeleteFolderCascadeTrash(f)
        PROVE  FilesTypeOK'
    <2> DEFINE T == ThrowAway({x \in Rows : files[x].folder \in Subtree(f)})
    <2>1. T \subseteq Rows
      BY DEF ThrowAway
    <2>2. /\ files' = [x \in DriveFileIDs |-> IF x \in T THEN [Uprooted(f)[x] EXCEPT !.trashedAt = hour]
                                              ELSE Uprooted(f)[x]]
          /\ binned' = [x \in DriveFileIDs |-> IF x \in T THEN hour ELSE binned[x]]
          /\ reverted' = reverted \ T
      BY <1>9 DEF DeleteFolderCascadeTrash
    <2> HIDE DEF T
    <2>3. files' \in [DriveFileIDs -> FileRow \cup {Null, Gone}]
      BY <2>1, <2>2, UprootedRow
    <2>4. binned' \in [DriveFileIDs -> Hours \cup {Null}] /\ reverted' \subseteq DriveFileIDs
      BY <1>0, <2>2 DEF FilesTypeOK
    <2> QED
      BY <1>0, <1>7, <1>9, <2>3, <2>4 DEF DeleteFolderCascadeTrash, FilesTypeOK
  <1>10. ASSUME NEW f \in DriveFolders, NEW p \in DriveFolders \cup {Null}, UpdateFolder(f, p)
         PROVE  FilesTypeOK'
    BY <1>0, <1>10 DEF UpdateFolder, FilesTypeOK, observed
  <1>11. ASSUME NEW x \in DriveFileIDs
         PROVE  (\/ \E f \in DriveFolders \cup {Null}, whole \in BOOLEAN : CreateFile(x, f, whole)
                 \/ AddFileSize(x) \/ MarkUploadComplete(x) \/ GetFile(x) \/ UpdateFile(x)
                 \/ TrashFile(x) \/ RestoreFile(x) \/ DeleteFile(x) \/ DeleteBlob(x)
                 \/ \E u \in Recipients : CreateShare(x, u) \/ DeleteShare(x, u))
                => FilesTypeOK'
    <2>0. x \in Rows => files[x] \in FileRow
      BY FileKinds
    <2>1. ASSUME NEW f \in DriveFolders \cup {Null}, NEW whole \in BOOLEAN, CreateFile(x, f, whole)
          PROVE  FilesTypeOK'
      <3>1. [folder |-> f, starred |-> FALSE, trashedAt |-> Null, complete |-> whole, created |-> hour] \in FileRow
        BY <1>0 DEF FileRow
      <3>2. files' \in [DriveFileIDs -> FileRow \cup {Null, Gone}]
        BY <2>1, <3>1 DEF CreateFile, FilesTypeOK
      <3> QED
        BY <1>0, <2>1, <3>2 DEF CreateFile, FilesTypeOK, treeVars
    <2>2. CASE AddFileSize(x)
      BY <2>2 DEF AddFileSize, FilesTypeOK, treeVars, observed
    <2>3. CASE MarkUploadComplete(x)
      <3>1. files' \in [DriveFileIDs -> FileRow \cup {Null, Gone}]
        <4>1. CASE x \in Rows
          <5>1. [files[x] EXCEPT !.complete = TRUE] \in FileRow
            BY <1>0, <4>1, RowEdits, ZenonT(40)
          <5> QED
            BY <2>3, <4>1, <5>1 DEF MarkUploadComplete, FilesTypeOK
        <4>2. CASE x \notin Rows
          BY <2>3, <4>2 DEF MarkUploadComplete, FilesTypeOK
        <4> QED
          BY <4>1, <4>2
      <3> QED
        BY <2>3, <3>1 DEF MarkUploadComplete, FilesTypeOK, treeVars
    <2>4. CASE GetFile(x)
      BY <1>0, <2>0, <2>4 DEF GetFile, FilesTypeOK, observed
    <2>5. CASE UpdateFile(x)
      <3>1. files' \in [DriveFileIDs -> FileRow \cup {Null, Gone}]
        <4>1. CASE x \in Rows
          <5>1. PICK f \in Present \cup {Null}, s \in BOOLEAN :
                  files' = [files EXCEPT ![x].folder = f, ![x].starred = s, ![x].trashedAt = copy[x].trashedAt]
            BY <2>5, <4>1, ZenonT(40) DEF UpdateFile
          <5>2. copy[x] \in FileRow
            BY <2>5, ZenonT(40) DEF UpdateFile, FilesTypeOK
          <5>3. copy[x].trashedAt \in Hours \cup {Null} /\ f \in DriveFolders \cup {Null}
            BY <5>2 DEF FileRow, Present
          <5>4. [files[x] EXCEPT !.folder = f, !.starred = s, !.trashedAt = copy[x].trashedAt] \in FileRow
            BY <4>1, <5>3, RowEdits, ZenonT(40)
          <5> QED
            BY <5>1, <5>4 DEF FilesTypeOK
        <4>2. CASE x \notin Rows
          BY <2>5, <4>2, ZenonT(40) DEF UpdateFile, FilesTypeOK
        <4> QED
          BY <4>1, <4>2
      <3>2. reverted' \subseteq DriveFileIDs
        <4>1. reverted' = reverted \/ reverted' = reverted \cup {x}
          BY <2>5, ZenonT(40) DEF UpdateFile
        <4> QED
          BY <4>1 DEF FilesTypeOK
      <3> QED
        BY <2>5, <3>1, <3>2, ZenonT(40) DEF UpdateFile, FilesTypeOK
    <2>6. CASE TrashFile(x)
      <3>1. [files[x] EXCEPT !.trashedAt = hour] \in FileRow
        BY <1>0, <2>6, RowEdits, ZenonT(40) DEF TrashFile
      <3>2. files' \in [DriveFileIDs -> FileRow \cup {Null, Gone}]
        BY <2>6, <3>1 DEF TrashFile, FilesTypeOK
      <3> QED
        BY <1>0, <2>6, <3>2 DEF TrashFile, FilesTypeOK, treeVars
    <2>7. CASE RestoreFile(x)
      <3>1. [files[x] EXCEPT !.trashedAt = Null] \in FileRow
        BY <1>0, <2>7, RowEdits, ZenonT(40) DEF RestoreFile
      <3>2. files' \in [DriveFileIDs -> FileRow \cup {Null, Gone}]
        BY <2>7, <3>1 DEF RestoreFile, FilesTypeOK
      <3> QED
        BY <1>0, <2>7, <3>2 DEF RestoreFile, FilesTypeOK, treeVars
    <2>8. CASE DeleteFile(x)
      <3>1. x \in Rows /\ RemoveRows({x})
        BY <2>8 DEF DeleteFile
      <3>2. {x} \in SUBSET Rows
        BY <3>1
      <3> QED
        BY <1>0, <1>3, <2>8, <3>1, <3>2 DEF DeleteFile, FilesTypeOK, treeVars
    <2>9. CASE DeleteBlob(x)
      BY <2>9 DEF DeleteBlob, FilesTypeOK, treeVars, observed
    <2>10. ASSUME NEW u \in Recipients, CreateShare(x, u) \/ DeleteShare(x, u)
           PROVE  FilesTypeOK'
      BY <1>0, <2>10 DEF CreateShare, DeleteShare, FilesTypeOK, treeVars, observed
    <2> QED
      BY <2>1, <2>2, <2>3, <2>4, <2>5, <2>6, <2>7, <2>8, <2>9, <2>10
  <1> QED
    BY <1>1, <1>2, <1>4, <1>5, <1>6, <1>8, <1>9, <1>10, <1>11 DEF FilesNext

(* Rows that go leave no share, and their files are accounted for.         *)
LEMMA RowsGone ==
    ASSUME FilesInv, FilesTypeOK', NEW X \in SUBSET Rows, RemoveRows(X), NEW x \in DriveFileIDs,
           x \in X /\ x \in finished =>
             x \in discarded' \cup reverted \cup tooLate \/ Older(binned[x], Retention),
           UNCHANGED <<folders, hour, blobs, finished, binned, reverted, tooLate>>,
           doomed' \subseteq doomed \cup X, discarded \subseteq discarded'
    PROVE  FileInv(x)'
  <1>1. files'[x] = IF x \in X THEN Gone ELSE files[x]
    BY DEF RemoveRows
  <1>2. FilesTypeOK /\ FileInv(x)
    BY DEF FilesInv
  <1>3. CASE x \in X
    <2>1. files'[x] = Gone /\ x \notin Rows' /\ files'[x] # Null
      BY <1>1, <1>3, FilesBounds DEF Rows
    <2>2. GoneInv(x)'
      BY <1>3 DEF GoneInv, Older
    <2> QED
      BY <2>1, <2>2 DEF FileInv
  <1>4. CASE x \notin X
    BY <1>1, <1>2, <1>4, StillInPlace DEF Still
  <1> QED
    BY <1>3, <1>4

(* The files in a removed subtree fall back to the top, and those T of     *)
(* them that were not in the trash go there.                               *)
LEMMA FolderGone ==
    ASSUME FilesInv, FilesTypeOK', NEW f \in DriveFolders, NEW T \in SUBSET Rows, NEW x \in DriveFileIDs,
           files'[x] = IF x \in T THEN [Uprooted(f)[x] EXCEPT !.trashedAt = hour] ELSE Uprooted(f)[x],
           binned'[x] = IF x \in T THEN hour ELSE binned[x], reverted \ T \subseteq reverted',
           folders' = WithoutSubtree(f),
           UNCHANGED <<blobs, doomed, hour, finished, discarded, tooLate>>
    PROVE  FileInv(x)'
  <1>1. FilesTypeOK /\ FileInv(x)
    BY DEF FilesInv
  <1>2. Present' = Present \ Subtree(f)
    <2>1. \A g \in DriveFolders : folders'[g] = IF g \in Subtree(f) THEN Gone ELSE folders[g]
      BY DEF WithoutSubtree
    <2> HIDE DEF Subtree
    <2> QED
      BY <2>1 DEF Present
  <1>3. CASE x \in Rows
    <2>1. /\ files'[x] \in FileRow /\ files'[x].complete = files[x].complete
          /\ files'[x].folder = IF files[x].folder \in Subtree(f) THEN Null ELSE files[x].folder
          /\ files'[x].trashedAt = IF x \in T THEN hour ELSE files[x].trashedAt
      <3>1. /\ Uprooted(f)[x] \in FileRow
            /\ Uprooted(f)[x].folder = IF files[x].folder \in Subtree(f) THEN Null ELSE files[x].folder
            /\ Uprooted(f)[x].trashedAt = files[x].trashedAt
            /\ Uprooted(f)[x].complete = files[x].complete
            /\ [Uprooted(f)[x] EXCEPT !.trashedAt = hour] \in FileRow
        BY <1>1, <1>3, UprootedRow
      <3> HIDE DEF Subtree, Uprooted
      <3> QED
        BY <3>1 DEF FileRow
    <2>2. files'[x].folder \in Present' \cup {Null}
      BY <1>1, <1>2, <1>3, <2>1 DEF FileInv, RowInv
    <2>3. RowInv(x)'
      BY <1>1, <1>3, <2>1, <2>2 DEF FileInv, RowInv
    <2>4. files'[x] # Null /\ files'[x] # Gone
      BY <2>1, FilesBounds
    <2> QED
      BY <1>1, <1>3, <2>3, <2>4 DEF FileInv, RowInv
  <1>4. CASE x \notin Rows
    <2>1. files'[x] = files[x] /\ binned'[x] = binned[x] /\ x \notin T
      BY <1>1, <1>4, UprootedRow
    <2> QED
      BY <1>1, <1>4, <2>1, StillKept DEF Still
  <1> QED
    BY <1>3, <1>4

LEMMA FilesStep ==
    ASSUME FilesInv, [FilesNext]_driveVars
    PROVE  FilesInv'
  <1>0. FilesTypeOK /\ FilesTypeOK' /\ \A x \in DriveFileIDs : FileInv(x)
    BY FilesTypeStep DEF FilesInv
  <1> SUFFICES ASSUME NEW x \in DriveFileIDs
               PROVE  FileInv(x)'
    BY <1>0 DEF FilesInv
  <1>r. x \in Rows => files[x] \in FileRow /\ RowInv(x)
    BY <1>0, FileKinds DEF FileInv
  <1>s. ASSUME Still(x), folders' = folders, hour' = hour
        PROVE  FileInv(x)'
    BY <1>0, <1>s, StillInPlace
  <1>1. CASE UNCHANGED driveVars
    BY <1>1, <1>s DEF Still, driveVars
  <1>2. CASE NextHour
    BY <1>0, <1>2, StillInPlace DEF NextHour, Still, observed
  <1>4. CASE ReapStaleUploads
    <2>1. StaleUploads \in SUBSET Rows /\ (x \in StaleUploads => x \notin finished)
      BY <1>r DEF StaleUploads, RowInv
    <2> QED
      BY <1>0, <1>4, <2>1, RowsGone DEF ReapStaleUploads, observed, treeVars
  <1>5. CASE EmptyTrash
    <2>1. ListTrashed \in SUBSET Rows
      BY DEF ListTrashed
    <2> QED
      BY <1>0, <1>5, <2>1, RowsGone DEF EmptyTrash, treeVars
  <1>6. CASE PurgeOldTrashed
    <2>1. OldTrash \in SUBSET Rows /\ (x \in OldTrash => x \in reverted \/ Older(binned[x], Retention))
      BY <1>r DEF OldTrash, ListTrashed, RowInv
    <2> QED
      BY <1>0, <1>6, <2>1, RowsGone DEF PurgeOldTrashed, observed, treeVars
  <1>8. ASSUME NEW f \in DriveFolders, DeleteFolder(f)
        PROVE  FileInv(x)'
    <2>1. {} \in SUBSET Rows /\ x \notin {}
      OBVIOUS
    <2> QED
      BY <1>0, <1>8, <2>1, FolderGone DEF DeleteFolder, observed
  <1>9. ASSUME NEW f \in DriveFolders, DeleteFolderCascadeTrash(f)
        PROVE  FileInv(x)'
    <2> DEFINE T == ThrowAway({y \in Rows : files[y].folder \in Subtree(f)})
    <2>1. T \in SUBSET Rows
      BY DEF ThrowAway
    <2>2. /\ files' = [y \in DriveFileIDs |-> IF y \in T THEN [Uprooted(f)[y] EXCEPT !.trashedAt = hour]
                                              ELSE Uprooted(f)[y]]
          /\ binned' = [y \in DriveFileIDs |-> IF y \in T THEN hour ELSE binned[y]]
          /\ reverted' = reverted \ T
      BY <1>9 DEF DeleteFolderCascadeTrash
    <2> HIDE DEF T
    <2> QED
      BY <1>0, <1>9, <2>1, <2>2, FolderGone DEF DeleteFolderCascadeTrash
  <1>10. ASSUME NEW f \in DriveFolders, NEW p \in DriveFolders \cup {Null}, UpdateFolder(f, p)
         PROVE  FileInv(x)'
    <2>1. Present' = Present
      BY <1>0, <1>10, FilesBounds DEF UpdateFolder, Present, FilesTypeOK
    <2>2. x \in Rows => files[x].folder \in Present' \cup {Null}
      BY <1>r, <2>1 DEF RowInv
    <2> QED
      BY <1>0, <1>10, <2>2, StillKept DEF UpdateFolder, Still, observed
  <1>11. ASSUME NEW y \in DriveFileIDs
         PROVE  (\/ \E f \in DriveFolders \cup {Null}, whole \in BOOLEAN : CreateFile(y, f, whole)
                 \/ AddFileSize(y) \/ MarkUploadComplete(y) \/ GetFile(y) \/ UpdateFile(y)
                 \/ TrashFile(y) \/ RestoreFile(y) \/ DeleteFile(y) \/ DeleteBlob(y)
                 \/ \E u \in Recipients : CreateShare(y, u) \/ DeleteShare(y, u))
                => FileInv(x)'
    <2>p. folders' = folders => Present' = Present
      BY DEF Present
    <2>1. ASSUME NEW f \in DriveFolders \cup {Null}, NEW whole \in BOOLEAN, CreateFile(y, f, whole)
          PROVE  FileInv(x)'
      <3>1. CASE x = y
        <4>1. files'[x] = [folder |-> f, starred |-> FALSE, trashedAt |-> Null, complete |-> whole, created |-> hour]
          BY <1>0, <2>1, <3>1 DEF CreateFile, FilesTypeOK
        <4>2. files'[x] \in FileRow
          BY <1>0, <4>1 DEF FileRow, FilesTypeOK
        <4>3. files'[x] # Null /\ files'[x] # Gone
          BY <4>2, FilesBounds
        <4>4. Unused(x) /\ x \notin doomed
          BY <1>0, <2>1, <3>1, FilesBounds DEF CreateFile, FileInv
        <4>5. RowInv(x)'
          BY <2>1, <2>p, <3>1, <4>1, <4>4 DEF CreateFile, RowInv, Unused, treeVars
        <4> QED
          BY <4>3, <4>5 DEF FileInv, RowInv
      <3>2. CASE x # y
        BY <1>0, <1>s, <2>1, <3>2 DEF CreateFile, Still, treeVars, FilesTypeOK
      <3> QED
        BY <3>1, <3>2
    <2>2. CASE AddFileSize(y)
      <3>1. CASE x = y
        <4>1. files'[x] = files[x] /\ files[x] # Null
          BY <2>2, <3>1, FilesBounds DEF AddFileSize, treeVars, Rows
        <4>2. CASE files[x] = Gone
          BY <1>0, <2>2, <4>1, <4>2, FilesBounds DEF AddFileSize, treeVars, observed, FileInv, GoneInv, Older, Rows
        <4>3. CASE x \in Rows
          <5>1. RowInv(x)'
            BY <1>r, <2>2, <2>p, <4>1, <4>3 DEF AddFileSize, treeVars, observed, RowInv
          <5> QED
            BY <1>0, <4>1, <4>3, <5>1, FileKinds DEF FileInv, RowInv
        <4> QED
          BY <1>0, <4>1, <4>2, <4>3, FileKinds
      <3>2. CASE x # y
        BY <1>s, <2>2, <3>2 DEF AddFileSize, Still, treeVars, observed
      <3> QED
        BY <3>1, <3>2
    <2>3. CASE MarkUploadComplete(y)
      <3>1. CASE x = y /\ x \in Rows
        <4>1. files' = [files EXCEPT ![x].complete = TRUE]
          BY <2>3, <3>1 DEF MarkUploadComplete
        <4>2. /\ files'[x] \in FileRow /\ files'[x].complete = TRUE
              /\ files'[x].folder = files[x].folder /\ files'[x].trashedAt = files[x].trashedAt
          BY <1>0, <1>r, <3>1, <4>1 DEF FileRow, FilesTypeOK
        <4>3. RowInv(x)'
          BY <1>r, <2>3, <2>p, <3>1, <4>2 DEF MarkUploadComplete, treeVars, RowInv
        <4> QED
          BY <4>2, <4>3, FilesBounds DEF FileInv, RowInv
      <3>2. CASE x = y /\ x \notin Rows
        <4>1. files'[x] = files[x] /\ files[x] = Gone
          BY <1>0, <2>3, <3>2, FileKinds DEF MarkUploadComplete, FileInv, Unused
        <4>2. GoneInv(x)'
          BY <2>3, <3>2 DEF MarkUploadComplete, GoneInv
        <4> QED
          BY <4>1, <4>2, FilesBounds DEF FileInv, Rows
      <3>3. CASE x # y
        BY <1>0, <1>s, <2>3, <3>3 DEF MarkUploadComplete, Still, treeVars, FilesTypeOK
      <3> QED
        BY <3>1, <3>2, <3>3
    <2>4. CASE GetFile(y)
      BY <1>s, <2>4 DEF GetFile, Still, observed
    <2>5. CASE UpdateFile(y)
      <3>1. CASE x = y /\ x \in Rows
        <4>1. PICK f \in Present \cup {Null}, s \in BOOLEAN :
                files' = [files EXCEPT ![x].folder = f, ![x].starred = s, ![x].trashedAt = copy[x].trashedAt]
          BY <2>5, <3>1, ZenonT(40) DEF UpdateFile
        <4>2. /\ files'[x].complete = files[x].complete
              /\ files'[x].folder = f /\ files'[x].trashedAt = copy[x].trashedAt
          BY <1>0, <1>r, <3>1, <4>1 DEF FileRow, FilesTypeOK
        <4>3. files'[x] \in FileRow
          <5>1. copy[x] \in FileRow
            BY <1>0, <2>5, <3>1, ZenonT(40) DEF UpdateFile, FilesTypeOK
          <5>2. copy[x].trashedAt \in Hours \cup {Null} /\ f \in DriveFolders \cup {Null}
            BY <5>1 DEF FileRow, Present
          <5>3. [files[x] EXCEPT !.folder = f, !.starred = s, !.trashedAt = copy[x].trashedAt] \in FileRow
            BY <1>0, <3>1, <5>2, RowEdits, ZenonT(40)
          <5> QED
            BY <1>0, <4>1, <5>3 DEF FilesTypeOK
        <4>4. RowInv(x)'
          BY <1>r, <2>5, <2>p, <3>1, <4>2, ZenonT(40) DEF UpdateFile, RowInv
        <4> QED
          BY <4>3, <4>4, FilesBounds DEF FileInv, RowInv
      <3>2. CASE x # y \/ x \notin Rows
        <4>1. files'[x] = files[x]
          BY <1>0, <2>5, <3>2, ZenonT(40) DEF UpdateFile, FilesTypeOK
        <4> QED
          BY <1>s, <2>5, <4>1, ZenonT(40) DEF UpdateFile, Still
      <3> QED
        BY <3>1, <3>2
    <2>6. ASSUME NEW t \in Hours \cup {Null}, y \in Rows, files' = [files EXCEPT ![y].trashedAt = t],
                 binned' = [binned EXCEPT ![y] = t], reverted' = reverted \ {y},
                 UNCHANGED <<treeVars, blobs, fileShares, doomed, finished, discarded, tooLate>>
          PROVE  FileInv(x)'
      <3>1. CASE x = y
        <4>1. /\ files'[x] \in FileRow /\ files'[x].complete = files[x].complete
              /\ files'[x].folder = files[x].folder /\ files'[x].trashedAt = t /\ binned'[x] = t
          BY <1>0, <1>r, <2>6, <3>1 DEF FileRow, FilesTypeOK
        <4>2. RowInv(x)'
          BY <1>r, <2>6, <2>p, <3>1, <4>1 DEF RowInv, treeVars
        <4> QED
          BY <4>1, <4>2, FilesBounds DEF FileInv, RowInv
      <3>2. CASE x # y
        BY <1>0, <1>s, <2>6, <3>2 DEF Still, treeVars, FilesTypeOK
      <3> QED
        BY <3>1, <3>2
    <2>7. CASE TrashFile(y) \/ RestoreFile(y)
      <3>1. hour \in Hours
        BY <1>0 DEF FilesTypeOK
      <3> QED
        BY <2>6, <2>7, <3>1 DEF TrashFile, RestoreFile
    <2>8. CASE DeleteFile(y)
      <3>1. {y} \in SUBSET Rows /\ RemoveRows({y})
        BY <2>8 DEF DeleteFile
      <3> QED
        BY <1>0, <2>8, <3>1, RowsGone DEF DeleteFile, treeVars
    <2>9. CASE DeleteBlob(y)
      <3>1. CASE x = y
        <4>1. files'[x] = Gone /\ files[x] = Gone
          BY <1>0, <2>9, <3>1 DEF DeleteBlob, FileInv, treeVars
        <4> QED
          BY <1>0, <2>9, <4>1, FilesBounds DEF DeleteBlob, FileInv, GoneInv, Older, Rows, treeVars, observed
      <3>2. CASE x # y
        BY <1>s, <2>9, <3>2 DEF DeleteBlob, Still, treeVars, observed
      <3> QED
        BY <3>1, <3>2
    <2>10. ASSUME NEW u \in Recipients, CreateShare(y, u) \/ DeleteShare(y, u)
           PROVE  FileInv(x)'
      BY <1>s, <2>10 DEF CreateShare, DeleteShare, Still, treeVars, observed
    <2> QED
      BY <2>1, <2>2, <2>3, <2>4, <2>5, <2>7, <2>8, <2>9, <2>10
  <1> QED
    BY <1>1, <1>2, <1>4, <1>5, <1>6, <1>8, <1>9, <1>10, <1>11 DEF FilesNext

LEMMA FilesStart == FilesInit => FilesInv
  <1> SUFFICES ASSUME FilesInit
               PROVE  FilesInv
    OBVIOUS
  <1>1. FilesTypeOK
    BY FilesBounds DEF FilesInit, FilesTypeOK, Hours
  <1>2. \A x \in DriveFileIDs : FileInv(x)
    BY FilesBounds DEF FilesInit, FileInv, Unused, Rows
  <1> QED
    BY <1>1, <1>2 DEF FilesInv

(* In every reachable state of the drive, for any set of clients, friends, *)
(* folders and files: wraps of folder keys follow the membership (a member *)
(* can fetch the key of each epoch since it joined and a user who is no    *)
(* member holds none, short of the races the property names), the owner    *)
(* opens every wrapped file, and an acknowledged upload stays readable     *)
(* until the user or the retention takes it (DriveHolds).                  *)
THEOREM DriveKeepsItsPromises == StoresSpec => []DriveHolds
  <1>1. StoresInit => SharesInv /\ FilesInv
    BY SharesStart, FilesStart DEF StoresInit
  <1>2. SharesInv /\ FilesInv /\ [StoresNext]_storesVars => SharesInv' /\ FilesInv'
    BY SharesPart, SharesStep, FilesPart, FilesStep
  <1>3. SharesInv /\ FilesInv => DriveHolds
    BY SharesKept, FilesKept DEF DriveHolds
  <1> QED
    BY <1>1, <1>2, <1>3, PTL DEF StoresSpec

-----------------------------------------------------------------------------
(* Pools of enclaves: the TLS key of the inbound enclaves.                 *)

FetchedRec == [peer: PoolMembers, cert: Certs]

(* A member that is up serves a certificate for the key it holds, keeps it *)
(* sealed or says so, and has its own key until it has taken over another. *)
MemberInv(e) ==
    /\ phase[e] # "down" =>
         /\ tlsCert[e] \in Certs /\ tlsKey[e] = tlsCert[e].key /\ spkiDER[e] = tlsKey[e]
         /\ sealedTLS[e] = tlsKey[e] \/ e \in unkept
    /\ phase[e] \in {"start", "sync", "key"} => e \in solo
    /\ phase[e] = "key" => fetched[e] \in FetchedRec

(* Of two different keys that members serve or take over, one came up on   *)
(* its own beside the other.                                               *)
RivalInv ==
    \A k, l \in TLSKeys : Carriers(k) # {} /\ Carriers(l) # {} => k = l \/ k \in rivals \/ l \in rivals

PublishedInv ==
    \A e \in Ready : tlsKey[e] = tlsa \/ e \in unpublished \/ tlsKey[e] \in rivals \/ tlsa \in rivals

PeerInv ==
    /\ PeerTypeOK /\ RivalInv /\ PublishedInv
    /\ \A e \in PoolMembers : MemberInv(e)

LEMMA CertsPart ==
    ASSUME [StoresNext]_storesVars
    PROVE  [PeerNext]_peerVars
  BY DEF StoresNext, Only, storesVars

LEMMA PeerBounds == MaxTLSKeys \in Nat /\ MaxPeerFaults \in Nat /\ Null \notin TLSKeys
  BY PeerAssumption DEF TLSKeys

(* What the file of member e holds after a write of key k, or a failed one. *)
LEMMA SealTyped ==
    ASSUME PeerTypeOK, NEW e \in PoolMembers, NEW k \in TLSKeys \cup {Dead}, SealTLS(e, k)
    PROVE  /\ sealedTLS' \in [PoolMembers -> TLSKeys \cup {Null, Dead}] /\ sealedTLS'[e] = k
           /\ \A q \in PoolMembers : q # e => sealedTLS'[q] = sealedTLS[q]
  BY DEF PeerTypeOK, SealTLS

LEMMA UnwrittenTyped ==
    ASSUME PeerTypeOK, NEW e \in PoolMembers, Unwritten(e)
    PROVE  /\ sealedTLS' \in [PoolMembers -> TLSKeys \cup {Null, Dead}] /\ bound' \subseteq PoolMembers
           /\ \A q \in PoolMembers : q # e => sealedTLS'[q] = sealedTLS[q]
  BY SealTyped DEF PeerTypeOK, Unwritten

LEMMA NewKeyTyped ==
    ASSUME PeerTypeOK, NewTLSKey
    PROVE  tlsKeys' \in TLSKeys /\ tlsKeys' \in 0..MaxTLSKeys
  <1>1. tlsKeys \in 0..MaxTLSKeys
    BY DEF PeerTypeOK
  <1> QED
    BY <1>1, PeerBounds DEF NewTLSKey, TLSKeys

LEMMA PeerFaultTyped ==
    ASSUME PeerTypeOK, PeerFault
    PROVE  peerFaults' \in 0..MaxPeerFaults
  <1>1. peerFaults \in 0..MaxPeerFaults
    BY DEF PeerTypeOK
  <1> QED
    BY <1>1, PeerBounds DEF PeerFault

LEMMA CertKey ==
    ASSUME NEW x \in Certs
    PROVE  x.key \in TLSKeys
  BY DEF Certs

LEMMA PeersStart == PeerInit => PeerInv
  <1> SUFFICES ASSUME PeerInit
               PROVE  PeerInv
    OBVIOUS
  <1>1. PeerTypeOK
    BY PeerBounds DEF PeerInit, PeerTypeOK
  <1>2. \A e \in PoolMembers : phase[e] = "down"
    BY DEF PeerInit
  <1> QED
    BY <1>1, <1>2 DEF PeerInv, RivalInv, Carriers, PublishedInv, Ready, MemberInv

LEMMA PeersTypeStep ==
    ASSUME PeerTypeOK, \A e \in PoolMembers : MemberInv(e), [PeerNext]_peerVars
    PROVE  PeerTypeOK'
  <1>0. /\ sealedTLS \in [PoolMembers -> TLSKeys \cup {Null, Dead}] /\ bound \subseteq PoolMembers
        /\ leFile \in [PoolMembers -> TLSKeys \cup {Null}]
        /\ tlsKey \in [PoolMembers -> TLSKeys \cup {Null}] /\ spkiDER \in [PoolMembers -> TLSKeys \cup {Null}]
        /\ tlsKeys \in 0..MaxTLSKeys /\ peerFaults \in 0..MaxPeerFaults
    BY DEF PeerTypeOK
  <1>1. CASE UNCHANGED peerVars
    BY <1>1 DEF peerVars, PeerTypeOK
  <1>2. ASSUME NEW e \in PoolMembers
        PROVE  (\/ GenerateCSR(e) \/ GenerateAndSealNewTLSKey(e) \/ DeployBuild(e)
                \/ GenerateServerTLSConfigUnique(e) \/ FailedStart(e) \/ discoverPeers(e)
                \/ NoPeerLeft(e) \/ updateDANE(e) \/ StopMember(e)
                \/ \E p \in PoolMembers : GetPeerCert(e, p) \/ NoAnswer(e, p) \/ GetPeerKey(e, p)) => PeerTypeOK'
    <2>1. CASE GenerateCSR(e)
      <3>1. UNCHANGED <<phase, tlsCert, tlsKey, spkiDER, fetched, untried, tlsa, solo, rivals, unpublished, unkept>>
        BY <2>1 DEF GenerateCSR, own, seen
      <3>2. CASE Opens(e)
        <4>1. leFile' \in [PoolMembers -> TLSKeys \cup {Null}]
          BY <1>0, <2>1, <3>2 DEF GenerateCSR, Opens
        <4>2. UNCHANGED <<sealedTLS, bound, tlsKeys, peerFaults>>
          BY <2>1, <3>2 DEF GenerateCSR
        <4> QED
          BY <3>1, <4>1, <4>2 DEF PeerTypeOK
      <3>3. CASE ~Opens(e)
        <4>1. /\ NewTLSKey /\ leFile' = [leFile EXCEPT ![e] = tlsKeys']
              /\ \/ SealTLS(e, tlsKeys') /\ bound' = bound \ {e} /\ UNCHANGED peerFaults
                 \/ Unwritten(e)
          BY <2>1, <3>3 DEF GenerateCSR
        <4>2. tlsKeys' \in TLSKeys /\ tlsKeys' \in 0..MaxTLSKeys
          BY <4>1, NewKeyTyped
        <4>3. leFile' \in [PoolMembers -> TLSKeys \cup {Null}]
          BY <1>0, <4>1, <4>2
        <4>4. /\ sealedTLS' \in [PoolMembers -> TLSKeys \cup {Null, Dead}] /\ bound' \subseteq PoolMembers
              /\ peerFaults' \in 0..MaxPeerFaults
          BY <1>0, <4>1, <4>2, SealTyped, UnwrittenTyped, PeerFaultTyped DEF Unwritten
        <4> QED
          BY <3>1, <4>2, <4>3, <4>4 DEF PeerTypeOK
      <3> QED
        BY <3>2, <3>3
    <2>2. CASE GenerateAndSealNewTLSKey(e)
      <3>1. tlsKeys' \in TLSKeys /\ tlsKeys' \in 0..MaxTLSKeys
        BY <2>2, NewKeyTyped DEF GenerateAndSealNewTLSKey
      <3>2. sealedTLS' \in [PoolMembers -> TLSKeys \cup {Null, Dead}] /\ bound' \subseteq PoolMembers
        BY <1>0, <2>2, <3>1, SealTyped DEF GenerateAndSealNewTLSKey
      <3> QED
        BY <2>2, <3>1, <3>2 DEF GenerateAndSealNewTLSKey, PeerTypeOK, own, seen
    <2>a. CASE DeployBuild(e)
      <3>1. sealedTLS' \in [PoolMembers -> TLSKeys \cup {Null, Dead}] /\ bound' \subseteq PoolMembers
        BY <1>0, <2>a, SealTyped DEF DeployBuild
      <3> QED
        BY <2>a, <3>1 DEF DeployBuild, PeerTypeOK, own, seen
    <2>b. CASE FailedStart(e)
      <3>1. /\ sealedTLS' \in [PoolMembers -> TLSKeys \cup {Null, Dead}] /\ bound' \subseteq PoolMembers
            /\ peerFaults' \in 0..MaxPeerFaults
        BY <2>b, UnwrittenTyped, PeerFaultTyped DEF FailedStart, Unwritten
      <3> QED
        BY <2>b, <3>1 DEF FailedStart, PeerTypeOK, own, seen
    <2>3. CASE GenerateServerTLSConfigUnique(e)
      <3>1. PICK k \in TLSKeys :
              /\ \/ Opens(e) /\ k = sealedTLS[e] /\ UNCHANGED <<tlsKeys, bound>>
                 \/ ~Opens(e) /\ NewTLSKey /\ k = tlsKeys' /\ bound' = bound \cup {e}
              /\ SealTLS(e, k)
              /\ tlsCert' = [tlsCert EXCEPT ![e] = [key |-> k, le |-> loadLECert(e, k)]]
              /\ tlsKey' = [tlsKey EXCEPT ![e] = k]
              /\ spkiDER' = [spkiDER EXCEPT ![e] = k]
        BY <2>3 DEF GenerateServerTLSConfigUnique
      <3>2. [key |-> k, le |-> loadLECert(e, k)] \in Certs
        BY DEF Certs, loadLECert
      <3>3. /\ tlsKeys' \in 0..MaxTLSKeys /\ bound' \subseteq PoolMembers
            /\ sealedTLS' \in [PoolMembers -> TLSKeys \cup {Null, Dead}]
        BY <1>0, <3>1, NewKeyTyped, SealTyped
      <3>4. tlsCert' \in [PoolMembers -> Certs \cup {Null}]
        BY <3>1, <3>2 DEF PeerTypeOK
      <3> QED
        BY <1>0, <2>3, <3>1, <3>3, <3>4 DEF GenerateServerTLSConfigUnique, Step, PeerTypeOK
    <2>4. CASE discoverPeers(e)
      BY <1>0, <2>4, PeerFaultTyped DEF discoverPeers, Step, PeerTypeOK, own, seen
    <2>5. CASE NoPeerLeft(e)
      BY <1>0, <2>5 DEF NoPeerLeft, Step, PeerTypeOK, own, seen
    <2>6. CASE updateDANE(e)
      <3>1. spkiDER[e] \in TLSKeys \cup {Null} /\ tlsKey[e] \in TLSKeys
        BY <1>0, <2>6, CertKey DEF updateDANE, Step, MemberInv
      <3>2. /\ tlsa' \in TLSKeys \cup {Null} /\ peerFaults' \in 0..MaxPeerFaults
            /\ unpublished' \subseteq PoolMembers /\ rivals' \subseteq TLSKeys
        BY <1>0, <2>6, <3>1, PeerFaultTyped DEF updateDANE, PeerTypeOK
      <3> QED
        BY <1>0, <2>6, <3>2 DEF updateDANE, Step, PeerTypeOK, own
    <2>7. CASE StopMember(e)
      BY <1>0, <2>7 DEF StopMember, PeerTypeOK
    <2>8. ASSUME NEW p \in PoolMembers, GetPeerCert(e, p)
          PROVE  PeerTypeOK'
      <3>1. tlsCert[p] \in Certs
        BY <2>8 DEF GetPeerCert, MemberInv
      <3>2. [peer |-> p, cert |-> tlsCert[p]] \in FetchedRec
        BY <3>1 DEF FetchedRec
      <3>3. fetched' \in [PoolMembers -> FetchedRec \cup {Null}]
        BY <2>8, <3>2 DEF GetPeerCert, PeerTypeOK, FetchedRec
      <3> QED
        BY <1>0, <2>8, <3>3 DEF GetPeerCert, Step, PeerTypeOK, own, seen, FetchedRec
    <2>9. ASSUME NEW p \in PoolMembers, NoAnswer(e, p)
          PROVE  PeerTypeOK'
      BY <1>0, <2>9, PeerFaultTyped DEF NoAnswer, PeerTypeOK, own, seen
    <2>10. ASSUME NEW p \in PoolMembers, GetPeerKey(e, p)
           PROVE  PeerTypeOK'
      <3>1. fetched[e].cert \in Certs /\ fetched[e].cert.key \in TLSKeys
        <4>1. fetched[e] \in FetchedRec
          BY <2>10 DEF GetPeerKey, MemberInv
        <4> QED
          BY <4>1, CertKey DEF FetchedRec
      <3>2. /\ phase' \in [PoolMembers -> {"down", "start", "sync", "key", "dane", "ready"}]
            /\ tlsKey' \in [PoolMembers -> TLSKeys \cup {Null}]
            /\ spkiDER' \in [PoolMembers -> TLSKeys \cup {Null}] /\ tlsCert' \in [PoolMembers -> Certs \cup {Null}]
        BY <1>0, <2>10, <3>1 DEF GetPeerKey, InstalledSPKI, PeerTypeOK, own
      <3>3. peerFaults' \in 0..MaxPeerFaults /\ solo' \subseteq PoolMembers /\ unkept' \subseteq PoolMembers
        BY <1>0, <2>10, PeerFaultTyped DEF GetPeerKey, Unwritten, PeerTypeOK
      <3>4. sealedTLS' \in [PoolMembers -> TLSKeys \cup {Null, Dead}] /\ bound' \subseteq PoolMembers
        BY <1>0, <2>10, <3>1, SealTyped, UnwrittenTyped DEF GetPeerKey
      <3> QED
        BY <1>0, <2>10, <3>2, <3>3, <3>4 DEF GetPeerKey, PeerTypeOK
    <2> QED
      BY <2>1, <2>2, <2>a, <2>b, <2>3, <2>4, <2>5, <2>6, <2>7, <2>8, <2>9, <2>10
  <1> QED
    BY <1>1, <1>2 DEF PeerNext

(* Members whose state a step leaves alone.                                *)
SameMember(q) ==
    /\ phase'[q] = phase[q] /\ tlsCert'[q] = tlsCert[q] /\ tlsKey'[q] = tlsKey[q] /\ spkiDER'[q] = spkiDER[q]
    /\ sealedTLS'[q] = sealedTLS[q] /\ fetched'[q] = fetched[q]
    /\ (q \in solo' <=> q \in solo) /\ (q \in unkept' <=> q \in unkept)

LEMMA SameMemberInv ==
    ASSUME NEW q \in PoolMembers, MemberInv(q), SameMember(q)
    PROVE  MemberInv(q)'
  BY DEF MemberInv, SameMember

(* A step of member e that brings no new key into the pool.                *)
LEMMA NoNewKey ==
    ASSUME RivalInv, rivals \subseteq rivals', NEW e \in PoolMembers,
           \A q \in PoolMembers : q # e => SameMember(q),
           \A k \in TLSKeys : e \in Carriers(k)' => Carriers(k) # {}
    PROVE  RivalInv'
  <1>1. ASSUME NEW k \in TLSKeys, Carriers(k)' # {}
        PROVE  Carriers(k) # {}
    <2>1. PICK q \in PoolMembers : q \in Carriers(k)'
      BY <1>1 DEF Carriers
    <2>2. CASE q = e
      BY <2>1, <2>2
    <2>3. CASE q # e
      <3>1. q \in Carriers(k)
        BY <2>1, <2>3 DEF Carriers, SameMember
      <3> QED
        BY <3>1
    <2> QED
      BY <2>2, <2>3
  <1> QED
    BY <1>1 DEF RivalInv

(* A step of a member that is not ready after it, and publishes nothing.   *)
LEMMA StillPublished ==
    ASSUME PublishedInv, NEW e \in PoolMembers, \A q \in PoolMembers : q # e => SameMember(q),
           phase'[e] # "ready" \/ SameMember(e), tlsa' = tlsa, rivals' = rivals,
           \A q \in PoolMembers : q # e \/ SameMember(e) => (q \in unpublished => q \in unpublished')
    PROVE  PublishedInv'
  BY DEF PublishedInv, Ready, SameMember

LEMMA PeersStep ==
    ASSUME PeerInv, [PeerNext]_peerVars
    PROVE  PeerInv'
  <1>0. /\ PeerTypeOK /\ RivalInv /\ PublishedInv /\ PeerTypeOK' /\ \A e \in PoolMembers : MemberInv(e)
    BY PeersTypeStep DEF PeerInv
  <1>t. /\ phase \in [PoolMembers -> {"down", "start", "sync", "key", "dane", "ready"}]
        /\ sealedTLS \in [PoolMembers -> TLSKeys \cup {Null, Dead}]
        /\ tlsKey \in [PoolMembers -> TLSKeys \cup {Null}] /\ spkiDER \in [PoolMembers -> TLSKeys \cup {Null}]
        /\ tlsCert \in [PoolMembers -> Certs \cup {Null}]
        /\ fetched \in [PoolMembers -> FetchedRec \cup {Null}]
    BY <1>0 DEF PeerTypeOK, FetchedRec
  <1>a. ASSUME NEW e \in PoolMembers, \A q \in PoolMembers : q # e => SameMember(q), MemberInv(e)',
               RivalInv', PublishedInv'
        PROVE  PeerInv'
    BY <1>0, <1>a, SameMemberInv DEF PeerInv
  <1>b. ASSUME NEW e \in PoolMembers, \A q \in PoolMembers : q # e => SameMember(q), MemberInv(e)',
               \A k \in TLSKeys : e \in Carriers(k)' => Carriers(k) # {},
               phase'[e] # "ready" \/ SameMember(e), tlsa' = tlsa, rivals' = rivals,
               \A q \in PoolMembers : q # e \/ SameMember(e) => (q \in unpublished => q \in unpublished')
        PROVE  PeerInv'
    <2>1. RivalInv'
      BY <1>0, <1>b, NoNewKey
    <2>2. PublishedInv'
      BY <1>0, <1>b, StillPublished
    <2> QED
      BY <1>a, <1>b, <2>1, <2>2
  <1>1. CASE UNCHANGED peerVars
    BY <1>0, <1>1 DEF peerVars, PeerInv, MemberInv, RivalInv, Carriers, PublishedInv, Ready
  <1>2. ASSUME NEW e \in PoolMembers
        PROVE  (\/ GenerateCSR(e) \/ GenerateAndSealNewTLSKey(e) \/ DeployBuild(e)
                \/ GenerateServerTLSConfigUnique(e) \/ FailedStart(e) \/ discoverPeers(e)
                \/ NoPeerLeft(e) \/ updateDANE(e) \/ StopMember(e)
                \/ \E p \in PoolMembers : GetPeerCert(e, p) \/ NoAnswer(e, p) \/ GetPeerKey(e, p)) => PeerInv'
    <2>m. MemberInv(e)
      BY <1>0
    <2>1. CASE GenerateCSR(e) \/ GenerateAndSealNewTLSKey(e) \/ DeployBuild(e) \/ FailedStart(e)
      <3>1. /\ phase[e] = "down"
            /\ UNCHANGED <<phase, tlsCert, tlsKey, spkiDER, fetched, tlsa, solo, rivals, unpublished, unkept>>
        BY <2>1 DEF GenerateCSR, GenerateAndSealNewTLSKey, DeployBuild, FailedStart, own, seen
      <3>2. \A q \in PoolMembers : q # e => sealedTLS'[q] = sealedTLS[q]
        BY <1>t, <2>1 DEF GenerateCSR, GenerateAndSealNewTLSKey, DeployBuild, FailedStart, Unwritten, SealTLS
      <3>3. \A q \in PoolMembers : q # e => SameMember(q)
        BY <3>1, <3>2 DEF SameMember
      <3>4. MemberInv(e)' /\ \A k \in TLSKeys : e \notin Carriers(k)'
        BY <3>1 DEF MemberInv, Carriers
      <3>5. phase'[e] # "ready" /\ tlsa' = tlsa /\ rivals' = rivals /\ unpublished' = unpublished
        BY <3>1
      <3> QED
        BY <1>b, <3>3, <3>4, <3>5
    <2>3. CASE GenerateServerTLSConfigUnique(e)
      <3>1. PICK k \in TLSKeys :
              /\ sealedTLS' = [sealedTLS EXCEPT ![e] = k]
              /\ tlsCert' = [tlsCert EXCEPT ![e] = [key |-> k, le |-> loadLECert(e, k)]]
              /\ tlsKey' = [tlsKey EXCEPT ![e] = k]
              /\ spkiDER' = [spkiDER EXCEPT ![e] = k]
        BY <2>3 DEF GenerateServerTLSConfigUnique, SealTLS
      <3>2. [key |-> k, le |-> loadLECert(e, k)] \in Certs
        BY DEF Certs, loadLECert
      <3>3. /\ \A q \in PoolMembers : q # e => SameMember(q)
            /\ phase'[e] = "start"
        BY <1>t, <2>3, <3>1 DEF GenerateServerTLSConfigUnique, Step, SameMember
      <3>4. MemberInv(e)'
        BY <1>t, <2>3, <3>1, <3>2, <3>3 DEF GenerateServerTLSConfigUnique, MemberInv
      <3>5. \A l \in TLSKeys : e \notin Carriers(l)'
        BY <3>3 DEF Carriers
      <3>6. tlsa' = tlsa /\ rivals' = rivals /\ unpublished' = unpublished
        BY <2>3 DEF GenerateServerTLSConfigUnique
      <3> QED
        BY <1>b, <3>3, <3>4, <3>5, <3>6
    <2>4. CASE discoverPeers(e) \/ NoPeerLeft(e)
      <3>1. /\ \A q \in PoolMembers : q # e => SameMember(q)
            /\ phase[e] \in {"start", "sync"} /\ phase'[e] \in {"sync", "dane"}
            /\ tlsCert'[e] = tlsCert[e] /\ tlsKey'[e] = tlsKey[e] /\ spkiDER'[e] = spkiDER[e]
            /\ sealedTLS'[e] = sealedTLS[e] /\ solo' = solo /\ unkept' = unkept
            /\ tlsa' = tlsa /\ rivals' = rivals /\ unpublished' = unpublished
        BY <1>t, <2>4 DEF discoverPeers, NoPeerLeft, Step, SameMember, own, seen
      <3>2. MemberInv(e)' /\ e \in solo'
        BY <2>m, <3>1 DEF MemberInv
      <3>3. \A l \in TLSKeys : e \notin Carriers(l)'
        BY <3>1, <3>2 DEF Carriers
      <3> QED
        BY <1>b, <3>1, <3>2, <3>3
    <2>6. CASE updateDANE(e)
      <3>1. /\ \A q \in PoolMembers : q # e => SameMember(q)
            /\ phase[e] = "dane" /\ phase'[e] = "ready"
            /\ tlsCert' = tlsCert /\ tlsKey' = tlsKey /\ spkiDER' = spkiDER
            /\ sealedTLS' = sealedTLS /\ solo' = solo /\ unkept' = unkept
        BY <1>t, <2>6 DEF updateDANE, Step, SameMember, own
      <3>2. MemberInv(e)'
        BY <2>m, <3>1 DEF MemberInv
      <3>3. spkiDER[e] = tlsKey[e] /\ tlsKey[e] \in TLSKeys
        BY <2>m, <3>1, CertKey DEF MemberInv
      <3>4. rivals' = IF e \in solo /\ \E k \in TLSKeys \ {tlsKey[e]} : Carriers(k) # {}
                      THEN rivals \cup {tlsKey[e]} ELSE rivals
        BY <2>6 DEF updateDANE
      <3>5. rivals \subseteq rivals'
        BY <3>4
      <3>6. ASSUME NEW k \in TLSKeys, k # tlsKey[e], Carriers(k) # {}
            PROVE  k \in rivals' \/ tlsKey[e] \in rivals'
        <4>1. CASE e \in solo
          BY <3>4, <3>6, <4>1
        <4>2. CASE e \notin solo
          <5>1. e \in Carriers(tlsKey[e])
            BY <3>1, <4>2 DEF Carriers
          <5> QED
            BY <1>0, <3>3, <3>5, <3>6, <5>1 DEF RivalInv
        <4> QED
          BY <4>1, <4>2
      <3>7. RivalInv'
        <4>1. ASSUME NEW k \in TLSKeys, Carriers(k)' # {}
              PROVE  Carriers(k) # {} \/ k = tlsKey[e]
          <5>1. PICK q \in PoolMembers : q \in Carriers(k)'
            BY <4>1 DEF Carriers
          <5>2. CASE q = e
            BY <3>1, <5>1, <5>2 DEF Carriers
          <5>3. CASE q # e
            <6>1. q \in Carriers(k)
              BY <3>1, <5>1, <5>3 DEF Carriers, SameMember
            <6> QED
              BY <6>1
          <5> QED
            BY <5>2, <5>3
        <4> SUFFICES ASSUME NEW k \in TLSKeys, NEW l \in TLSKeys, Carriers(k)' # {}, Carriers(l)' # {}, k # l
                     PROVE  k \in rivals' \/ l \in rivals'
          BY DEF RivalInv
        <4>2. CASE k = tlsKey[e]
          BY <3>6, <4>1, <4>2
        <4>3. CASE l = tlsKey[e]
          BY <3>6, <4>1, <4>3
        <4>4. CASE k # tlsKey[e] /\ l # tlsKey[e]
          BY <1>0, <3>5, <4>1, <4>4 DEF RivalInv
        <4> QED
          BY <4>2, <4>3, <4>4
      <3>8. PublishedInv'
        <4> SUFFICES ASSUME NEW q \in PoolMembers, q \in Ready'
                     PROVE  tlsKey[q] = tlsa' \/ q \in unpublished' \/ tlsKey[q] \in rivals' \/ tlsa' \in rivals'
          BY <3>1 DEF PublishedInv, Ready
        <4>1. q = e \/ q \in Ready
          BY <3>1 DEF Ready, SameMember
        <4>2. CASE /\ tlsa' = spkiDER[e]
                   /\ unpublished' = {p \in unpublished \ {e} : tlsKey[p] # spkiDER[e]}
          <5>1. CASE q # e /\ tlsKey[q] # tlsKey[e]
            <6>1. q \in Carriers(tlsKey[q]) /\ tlsKey[q] \in TLSKeys
              BY <1>0, <4>1, <5>1, CertKey DEF Carriers, Ready, MemberInv
            <6> QED
              BY <3>3, <3>6, <4>2, <5>1, <6>1
          <5> QED
            BY <3>3, <4>2, <5>1
        <4>3. CASE tlsa' = tlsa /\ unpublished' = IF tlsKey[e] = tlsa THEN unpublished ELSE unpublished \cup {e}
          BY <1>0, <3>5, <4>1, <4>3 DEF PublishedInv
        <4> QED
          BY <2>6, <4>2, <4>3 DEF updateDANE
      <3> QED
        BY <1>a, <3>1, <3>2, <3>7, <3>8
    <2>7. CASE StopMember(e)
      <3>1. /\ \A q \in PoolMembers : q # e => SameMember(q)
            /\ phase'[e] = "down" /\ tlsa' = tlsa /\ rivals' = rivals /\ unpublished' = unpublished \ {e}
            /\ phase[e] # "down"
        BY <1>t, <2>7 DEF StopMember, SameMember
      <3>2. MemberInv(e)' /\ \A l \in TLSKeys : e \notin Carriers(l)'
        BY <3>1 DEF MemberInv, Carriers
      <3>3. ~SameMember(e)
        BY <3>1 DEF SameMember
      <3> QED
        BY <1>b, <3>1, <3>2, <3>3
    <2>8. ASSUME NEW p \in PoolMembers, GetPeerCert(e, p)
          PROVE  PeerInv'
      <3>1. tlsCert[p] \in Certs /\ tlsKey[p] = tlsCert[p].key /\ p \in Carriers(tlsKey[p])
        BY <1>0, <2>8 DEF GetPeerCert, MemberInv, Carriers
      <3>2. [peer |-> p, cert |-> tlsCert[p]] \in FetchedRec
        BY <3>1 DEF FetchedRec
      <3>3. /\ \A q \in PoolMembers : q # e => SameMember(q)
            /\ phase[e] = "sync" /\ phase'[e] = "key" /\ fetched'[e] = [peer |-> p, cert |-> tlsCert[p]]
            /\ tlsCert' = tlsCert /\ tlsKey' = tlsKey /\ spkiDER' = spkiDER
            /\ sealedTLS' = sealedTLS /\ solo' = solo /\ unkept' = unkept
            /\ tlsa' = tlsa /\ rivals' = rivals /\ unpublished' = unpublished
        BY <1>t, <2>8 DEF GetPeerCert, Step, SameMember, own, seen
      <3>4. MemberInv(e)'
        BY <2>m, <3>2, <3>3 DEF MemberInv
      <3>5. fetched'[e].cert.key = tlsKey[p]
        BY <3>1, <3>3
      <3>6. \A k \in TLSKeys : e \in Carriers(k)' => Carriers(k) # {}
        BY <3>1, <3>3, <3>5 DEF Carriers
      <3> QED
        BY <1>b, <3>3, <3>4, <3>6
    <2>9. ASSUME NEW p \in PoolMembers, NoAnswer(e, p)
          PROVE  PeerInv'
      <3>1. /\ \A q \in PoolMembers : q # e => SameMember(q)
            /\ phase[e] \in {"sync", "key"} /\ phase'[e] = "sync"
            /\ tlsCert' = tlsCert /\ tlsKey' = tlsKey /\ spkiDER' = spkiDER
            /\ sealedTLS' = sealedTLS /\ solo' = solo /\ unkept' = unkept
            /\ tlsa' = tlsa /\ rivals' = rivals /\ unpublished' = unpublished
        BY <1>t, <2>9 DEF NoAnswer, SameMember, own, seen
      <3>2. MemberInv(e)' /\ \A l \in TLSKeys : e \notin Carriers(l)'
        BY <2>m, <3>1 DEF MemberInv, Carriers
      <3> QED
        BY <1>b, <3>1, <3>2
    <2>10. ASSUME NEW p \in PoolMembers, GetPeerKey(e, p)
           PROVE  PeerInv'
      <3>1. /\ \A q \in PoolMembers : q # e => SameMember(q)
            /\ phase[e] = "key" /\ phase'[e] \in {"sync", "dane"} /\ fetched' = fetched
            /\ tlsa' = tlsa /\ rivals' = rivals /\ unpublished' = unpublished
        BY <1>t, <2>10 DEF GetPeerKey, InstalledSPKI, SameMember, own, Unwritten, SealTLS
      <3>2. fetched[e] \in FetchedRec /\ fetched[e].cert \in Certs
        BY <2>m, <3>1 DEF MemberInv, FetchedRec
      <3>3. CASE phase'[e] = "sync"
        <4>1. /\ tlsCert' = tlsCert /\ tlsKey' = tlsKey /\ spkiDER' = spkiDER
              /\ sealedTLS' = sealedTLS /\ solo' = solo /\ unkept' = unkept
          BY <1>t, <2>10, <3>3 DEF GetPeerKey, own
        <4>2. MemberInv(e)' /\ \A l \in TLSKeys : e \notin Carriers(l)'
          BY <2>m, <3>1, <3>3, <4>1 DEF MemberInv, Carriers
        <4> QED
          BY <1>b, <3>1, <4>2
      <3>4. CASE phase'[e] = "dane"
        <4>1. /\ tlsCert'[e] = fetched[e].cert /\ tlsKey'[e] = fetched[e].cert.key
              /\ spkiDER'[e] = fetched[e].cert.key
              /\ sealedTLS'[e] = fetched[e].cert.key \/ e \in unkept'
          BY <1>t, <2>10, <3>4 DEF GetPeerKey, InstalledSPKI, SealTLS
        <4>2. MemberInv(e)'
          BY <3>2, <3>4, <4>1 DEF MemberInv
        <4>3. e \in Carriers(fetched[e].cert.key)
          BY <3>1 DEF Carriers
        <4>4. \A k \in TLSKeys : e \in Carriers(k)' => Carriers(k) # {}
          BY <3>4, <4>1, <4>3 DEF Carriers
        <4> QED
          BY <1>b, <3>1, <3>4, <4>2, <4>4
      <3> QED
        BY <3>1, <3>3, <3>4
    <2> QED
      BY <2>1, <2>3, <2>4, <2>6, <2>7, <2>8, <2>9, <2>10
  <1> QED
    BY <1>1, <1>2 DEF PeerNext

LEMMA PeersAgree == PeerInv => PeerTypeOK /\ PoolAgrees
  BY DEF PeerInv, PoolAgrees, PublishedInv, MemberInv, Ready

-----------------------------------------------------------------------------
(* Pools of enclaves: the DKIM selectors of the outbound worker.           *)

(* A role allows the first build and those an allowed one asked it to add, *)
(* and what the worker keeps it was allowed to fetch.                      *)
DkimInv ==
    /\ PoolTypeOK
    /\ \A s \in certified : "rsa" \in txt[s] /\ txt[s] \ {"rsa"} \subseteq graced[s]
    /\ \A s \in Selectors : "rsa" \notin graced[s]
    /\ \A s \in Selectors, b \in Builds : b \in allowed[s] => b = FirstBuild \/ <<s, b>> \in asked
    /\ \A s \in Selectors, b \in Builds : <<s, b>> \in delegated => b \in allowed[s]
    /\ build # Null => \A s \in poolCache : build \in allowed[s]

LEMMA DkimPart ==
    ASSUME [StoresNext]_storesVars
    PROVE  [PoolNext]_poolVars
  BY DEF StoresNext, Only, storesVars

LEMMA DkimStart == PoolInit => DkimInv
  BY PoolAssumption DEF PoolInit, DkimInv, PoolTypeOK, Algorithms

LEMMA DkimStep ==
    ASSUME DkimInv, [PoolNext]_poolVars
    PROVE  DkimInv'
  <1>0. PoolTypeOK /\ (PoolFault => poolFaults' \in 0..MaxPoolFaults)
    BY PoolAssumption DEF DkimInv, PoolTypeOK, PoolFault
  <1>1. CASE UNCHANGED poolVars
    BY <1>1 DEF poolVars, DkimInv, PoolTypeOK
  <1>2. CASE BootWorker
    BY <1>2, PoolAssumption DEF BootWorker, DkimInv, PoolTypeOK
  <1>3. CASE StopWorker
    BY <1>3 DEF StopWorker, DkimInv, PoolTypeOK
  <1>4. ASSUME NEW s \in Selectors, buildDKIMPoolWiring(s)
        PROVE  DkimInv'
    BY <1>4 DEF buildDKIMPoolWiring, mayGet, DkimInv, PoolTypeOK
  <1>5. ASSUME NEW s \in Selectors, publishDKIMPoolTXTs(s)
        PROVE  DkimInv'
    <2>1. /\ atHand' \in Selectors \cup {Null} /\ poolFaults' \in 0..MaxPoolFaults
          /\ certified' \subseteq Selectors
          /\ \A r \in certified' : "rsa" \in txt[r] /\ txt[r] \ {"rsa"} \subseteq graced[r]
      BY <1>0, <1>5 DEF publishDKIMPoolTXTs, txtAlreadyLive, DKIMPoolDNSRecords, DkimInv, PoolTypeOK
    <2> QED
      BY <1>5, <2>1 DEF publishDKIMPoolTXTs, DkimInv, PoolTypeOK
  <1>6. CASE Update
    <2>0. atHand \in Selectors
      BY <1>0, <1>6 DEF Update, PoolTypeOK
    <2>1. CASE Replace(atHand)
      <3>1. /\ txt' \in [Selectors -> SUBSET Algorithms] /\ graced' \in [Selectors -> SUBSET Algorithms]
            /\ txt'[atHand] = txt[atHand] \cup {"rsa"}
            /\ graced'[atHand] = (graced[atHand] \cup txt[atHand]) \ {"rsa"}
            /\ \A r \in Selectors : r # atHand => txt'[r] = txt[r] /\ graced'[r] = graced[r]
        BY <1>0, <2>0, <2>1 DEF Replace, DKIMPoolDNSRecords, Algorithms, PoolTypeOK
      <3>2. /\ poolFaults' \in 0..MaxPoolFaults /\ certified' \subseteq certified \cup {atHand}
        BY <1>0, <1>6 DEF Update, PoolTypeOK
      <3>3. \A r \in Selectors : "rsa" \notin graced'[r]
        BY <3>1 DEF DkimInv
      <3>4. \A r \in certified' : "rsa" \in txt'[r] /\ txt'[r] \ {"rsa"} \subseteq graced'[r]
        BY <1>0, <2>0, <3>1, <3>2 DEF DkimInv, PoolTypeOK
      <3>5. PoolTypeOK'
        BY <1>0, <1>6, <2>0, <3>1, <3>2 DEF Update, PoolTypeOK
      <3> QED
        BY <1>6, <3>3, <3>4, <3>5 DEF Update, DkimInv
    <2>2. CASE PoolFault /\ UNCHANGED <<txt, graced, certified>>
      BY <1>0, <1>6, <2>2 DEF Update, DkimInv, PoolTypeOK
    <2> QED
      BY <1>6, <2>1, <2>2 DEF Update
  <1>8. ASSUME NEW s \in Selectors, Expire(s)
        PROVE  DkimInv'
    <2>1. /\ txt' \in [Selectors -> SUBSET Algorithms] /\ graced' \in [Selectors -> SUBSET Algorithms]
          /\ txt'[s] = txt[s] \ graced[s] /\ graced'[s] = {}
          /\ \A r \in Selectors : r # s => txt'[r] = txt[r] /\ graced'[r] = graced[r]
      BY <1>0, <1>8 DEF Expire, PoolTypeOK
    <2>2. \A r \in Selectors : "rsa" \notin graced'[r]
      BY <2>1 DEF DkimInv
    <2>3. \A r \in certified : "rsa" \in txt'[r] /\ txt'[r] \ {"rsa"} \subseteq graced'[r]
      BY <1>0, <2>1 DEF DkimInv, PoolTypeOK
    <2>4. PoolTypeOK'
      BY <1>0, <1>8, <2>1 DEF Expire, PoolTypeOK
    <2> QED
      BY <1>8, <2>2, <2>3, <2>4 DEF Expire, DkimInv
  <1>7. ASSUME NEW new \in Builds, NEW failed \in SUBSET Selectors, NEW lost \in SUBSET failed,
               handlePreDeploy(new, failed, lost)
        PROVE  DkimInv'
    <2> DEFINE done == {s \in Selectors \ failed : mayGet(s)}
               added == {s \in (Selectors \ failed) \cup lost : mayGet(s)}
    <2>1. /\ allowed' = [s \in Selectors |-> IF s \in added THEN allowed[s] \cup {new} ELSE allowed[s]]
          /\ delegated' = delegated \cup {<<s, new>> : s \in done}
          /\ asked' = asked \cup {<<s, new>> : s \in added}
          /\ UNCHANGED <<build, txt, graced, toPublish, atHand, poolCache, certified>>
      BY <1>7 DEF handlePreDeploy
    <2>2. added \subseteq Selectors /\ done \subseteq added
      OBVIOUS
    <2> HIDE DEF done, added
    <2>3. /\ allowed' \in [Selectors -> SUBSET Builds] /\ delegated' \subseteq Selectors \X Builds
          /\ asked' \subseteq Selectors \X Builds
      BY <1>0, <2>1, <2>2 DEF PoolTypeOK
    <2>4. poolFaults' \in 0..MaxPoolFaults /\ deployed' \in Builds
      BY <1>0, <1>7 DEF handlePreDeploy, PoolTypeOK
    <2>5. PoolTypeOK'
      BY <1>0, <2>1, <2>3, <2>4 DEF PoolTypeOK
    <2>6. \A s \in Selectors, b \in Builds :
            /\ <<s, b>> \in delegated' => <<s, b>> \in delegated \/ (s \in added /\ b = new)
            /\ <<s, b>> \in asked \/ (s \in added /\ b = new) => <<s, b>> \in asked'
      BY <2>1, <2>2
    <2>7. \A s \in Selectors, b \in Builds : b \in allowed'[s] <=> b \in allowed[s] \/ (s \in added /\ b = new)
      BY <2>1
    <2>8. build' # Null => \A s \in poolCache' : build' \in allowed'[s]
      BY <1>0, <2>1, <2>7 DEF DkimInv, PoolTypeOK
    <2> QED
      BY <2>1, <2>5, <2>6, <2>7, <2>8 DEF DkimInv
  <1> QED
    BY <1>1, <1>2, <1>3, <1>4, <1>5, <1>6, <1>7, <1>8 DEF PoolNext

LEMMA DkimVerifiable == DkimInv => PoolTypeOK /\ PoolVerifiable
  BY DEF DkimInv, PoolTypeOK, PoolVerifiable, mayGet

(* PoolsHold.  For pools of any size: a running inbound enclave serves the *)
(* key of its certificate (peer.go), which is in its sealed file unless    *)
(* re-sealing it failed and in the TLSA record unless publishing it failed *)
(* or a key came up beside the pool's; and a DKIM selector published once  *)
(* (dkimpool.go) has the right record, beside it only expiring ones, and a *)
(* key that a build whose delegation was reported can fetch and that only  *)
(* a build some earlier one asked for holds.                               *)
THEOREM PoolsAgree == StoresSpec => []PoolsHold
  <1>1. StoresInit => PeerInv /\ DkimInv
    BY PeersStart, DkimStart DEF StoresInit
  <1>2. PeerInv /\ DkimInv /\ [StoresNext]_storesVars => PeerInv' /\ DkimInv'
    BY CertsPart, PeersStep, DkimPart, DkimStep
  <1>3. PeerInv /\ DkimInv => PoolsHold
    BY PeersAgree, DkimVerifiable DEF PoolsHold
  <1> QED
    BY <1>1, <1>2, <1>3, PTL DEF StoresSpec

-----------------------------------------------------------------------------
(* Mailboxes.                                                              *)

(* A read finds the content uploaded last.  A row is in a folder that      *)
(* exists; as long as no save fails half way or overlaps another, the one  *)
(* in flight is the newest, and without one the row has its key.  Headers  *)
(* that were saved stay unless a backfill that had the row listed came in  *)
(* between.                                                                *)
MailRowInv(m) ==
    /\ mail[m].folder \in mailFolders /\ newest[m] # Null
    /\ m \notin apart /\ Saving(m) = {} => mail[m].key = newest[m]
    /\ saved[m] # Null /\ m \notin overtaken => mail[m].headers = saved[m]
    /\ saved[m] # Null /\ m \in todo => m \in overtaken

MessageInv(m) ==
    /\ mail[m] # Gone => download(m) = newest[m]
    /\ mail[m] = Null => m \notin todo
    /\ \A s \in Saving(m) : newest[m] # Null /\ (m \notin apart => s[2] = newest[m])
    /\ m \in MailRows => MailRowInv(m)
    /\ mail[m] = Gone => m \in erased \cup pruned

MailInv == MailTypeOK /\ \A m \in Mails : MessageInv(m)

(* A step that leaves message m alone: its row and what was saved of it,   *)
(* its folder and what a read finds.                                       *)
SameMail(m) ==
    /\ mail'[m] = mail[m] /\ saved'[m] = saved[m] /\ (m \in overtaken' <=> m \in overtaken)
    /\ newest'[m] = newest[m] /\ (m \in apart' <=> m \in apart) /\ Saving(m)' = Saving(m)
    /\ erased \subseteq erased' /\ pruned \subseteq pruned' /\ (m \in todo' => m \in todo)
    /\ m \in MailRows => mail[m].folder \in mailFolders'
    /\ mail[m] # Gone => download(m)' = download(m)

LEMMA MailPart ==
    ASSUME [StoresNext]_storesVars
    PROVE  [MailboxNext]_mailVars
  BY DEF StoresNext, Only, storesVars

LEMMA MailStart == MailboxInit => MailInv
  <1> SUFFICES ASSUME MailboxInit
               PROVE  MailInv
    OBVIOUS
  <1> USE MailboxAssumption DEF MailboxInit
  <1>0. mail \in ObjectStore /\ \A m \in Mails : mail[m] = Null
    BY DEF ObjectStore
  <1>1. MailTypeOK
    BY <1>0 DEF MailTypeOK, CreateDefaultFolders, DefaultFolders
  <1>2. \A m \in Mails : MessageInv(m)
    BY <1>0, TablesAssumption DEF MessageInv, MailRows, Saving, download
  <1> QED
    BY <1>1, <1>2 DEF MailInv

LEMMA MailRowTyped ==
    ASSUME MailTypeOK, NEW m \in MailRows
    PROVE  /\ m \in Mails /\ mail[m] \in MailRow /\ mail[m].key \in Contents
           /\ mail[m].folder \in DefaultFolders \cup CustomFolders
           /\ mail[m].at \in 0..1 /\ mail[m].headers \in (0..Legacy) \cup {Null}
  <1>1. m \in Mails /\ mail[m] \in MailRow
    BY DEF MailTypeOK, MailRows
  <1> QED
    BY <1>1 DEF MailRow

LEMMA MessageStays ==
    ASSUME NEW m \in Mails, MailTypeOK, MessageInv(m), SameMail(m)
    PROVE  MessageInv(m)'
  <1>1. mail'[m] = mail[m] /\ (m \in MailRows' <=> m \in MailRows)
    BY DEF SameMail, MailRows
  <1>2. CASE m \in MailRows
    <2>1. MailRowInv(m)'
      BY <1>1, <1>2 DEF SameMail, MessageInv, MailRowInv
    <2> QED
      BY <1>1, <1>2, <2>1 DEF SameMail, MessageInv
  <1>3. CASE m \notin MailRows
    BY <1>1, <1>3 DEF SameMail, MessageInv
  <1> QED
    BY <1>2, <1>3

(* A row that gets a new value.                                            *)
LEMMA MailWritten ==
    ASSUME MailTypeOK, NEW m \in Mails, NEW row \in MailRow, mail' = [mail EXCEPT ![m] = row]
    PROVE  /\ mail' \in [Mails -> MailRow \cup {Null, Gone}] /\ mail'[m] = row
           /\ m \in MailRows' /\ mail'[m] \notin {Null, Gone}
           /\ \A n \in Mails \ {m} : mail'[n] = mail[n]
  <1>1. /\ mail' \in [Mails -> MailRow \cup {Null, Gone}] /\ mail'[m] = row
        /\ \A n \in Mails \ {m} : mail'[n] = mail[n]
    BY DEF MailTypeOK
  <1>2. row \notin {Null, Gone}
    BY MailboxAssumption
  <1> QED
    BY <1>1, <1>2 DEF MailRows

(* Rows that go, by the user or by the pruning worker.                     *)
LEMMA MailsRemoved ==
    ASSUME MailInv, NEW M \in SUBSET MailRows, RemoveMails(M), erased \subseteq erased', pruned \subseteq pruned',
           erased' \subseteq Mails, pruned' \subseteq Mails, M \subseteq erased' \cup pruned',
           mailCalls' \in 0..MaxMailCalls, pruning' = Null \/ pruning' \subseteq Mails,
           UNCHANGED <<mailFolders, blobVars, todo, newest, apart, saved, overtaken>>
    PROVE  MailInv'
  <1> USE MailboxAssumption
  <1>1. MailTypeOK /\ M \subseteq Mails
    BY DEF MailInv, MailRows
  <1>2. \A m \in Mails : mail'[m] = IF m \in M THEN Gone ELSE mail[m]
    BY DEF RemoveMails
  <1>3. mail' \in [Mails -> MailRow \cup {Null, Gone}]
    BY <1>1 DEF RemoveMails, MailTypeOK
  <1>5. labelled' \subseteq Mails \X Labels
    BY <1>1 DEF RemoveMails, MailTypeOK
  <1>6. MailTypeOK'
    BY <1>1, <1>3, <1>5 DEF MailTypeOK, blobVars
  <1>7. ASSUME NEW m \in M
        PROVE  MessageInv(m)'
    BY <1>1, <1>2, TablesAssumption DEF MailInv, MessageInv, MailRows, Saving, blobVars
  <1>8. ASSUME NEW m \in Mails \ M
        PROVE  SameMail(m)
    BY <1>2 DEF SameMail, Saving, blobVars, download, MailInv, MessageInv, MailRowInv
  <1> QED
    BY <1>1, <1>6, <1>7, <1>8, MessageStays DEF MailInv

(* Rows that change folders, to one that stays.                            *)
LEMMA MailsMoved ==
    ASSUME MailInv, NEW S \in SUBSET MailRows, NEW f \in mailFolders',
           mailFolders' \subseteq DefaultFolders \cup CustomFolders,
           \A m \in MailRows \ S : mail[m].folder \in mailFolders',
           mail' = [m \in Mails |-> IF m \in S THEN [mail[m] EXCEPT !.folder = f] ELSE mail[m]],
           mailCalls' \in 0..MaxMailCalls,
           UNCHANGED <<labelled, blobVars, pruning, todo, mailObserved>>
    PROVE  MailInv'
  <1> USE MailboxAssumption
  <1>t. MailTypeOK /\ S \subseteq Mails
    BY DEF MailInv, MailRows
  <1>1. ASSUME NEW m \in S
        PROVE  /\ mail'[m] \in MailRow /\ mail'[m] \notin {Null, Gone} /\ mail'[m].folder = f
               /\ mail'[m].key = mail[m].key /\ mail'[m].headers = mail[m].headers
    <2>1. m \in Mails /\ mail[m] \in MailRow /\ mail'[m] = [mail[m] EXCEPT !.folder = f]
      BY <1>t, MailRowTyped
    <2>2. PICK row \in MailRow : row = [mail[m] EXCEPT !.folder = f]
      BY <2>1 DEF MailRow
    <2>3. row.folder = f /\ row.key = mail[m].key /\ row.headers = mail[m].headers
      BY <2>1, <2>2 DEF MailRow
    <2> QED
      BY <2>1, <2>2, <2>3
  <1>2. \A m \in Mails \ S : mail'[m] = mail[m]
    OBVIOUS
  <1>3. mail' \in [Mails -> MailRow \cup {Null, Gone}]
    <2>1. \A m \in Mails : mail'[m] \in MailRow \cup {Null, Gone}
      BY <1>t, <1>1, <1>2 DEF MailTypeOK
    <2> QED
      BY <2>1
  <1>4. MailTypeOK'
    BY <1>t, <1>3 DEF MailTypeOK, blobVars, mailObserved
  <1>5. ASSUME NEW m \in S
        PROVE  MessageInv(m)'
    <2>1. m \in Mails /\ m \in MailRows /\ MailRowInv(m)
      BY <1>t DEF MailInv, MessageInv
    <2>2. /\ UNCHANGED <<saved, overtaken, newest, apart, todo, erased, pruned>>
          /\ download(m)' = download(m) /\ Saving(m)' = Saving(m)
      BY DEF blobVars, mailObserved, download, Saving
    <2>3. mail'[m].folder \in mailFolders' /\ mail'[m].key = mail[m].key /\ mail'[m].headers = mail[m].headers
      BY <1>1
    <2>5. MailRowInv(m)'
      BY <2>1, <2>2, <2>3 DEF MailRowInv
    <2>6. MessageInv(m) /\ mail[m] \notin {Null, Gone}
      BY <2>1 DEF MailInv, MailRows
    <2> QED
      BY <1>1, <2>2, <2>5, <2>6 DEF MessageInv
  <1>6. ASSUME NEW m \in Mails \ S
        PROVE  SameMail(m)
    BY <1>2 DEF SameMail, download, Saving, blobVars, mailObserved
  <1> QED
    BY <1>t, <1>4, <1>5, <1>6, MessageStays DEF MailInv

LEMMA MailStep ==
    ASSUME MailInv, [MailboxNext]_mailVars
    PROVE  MailInv'
  <1> USE MailboxAssumption
  <1>t. MailTypeOK
    BY DEF MailInv
  <1>c. /\ mailCalls \in 0..MaxMailCalls
        /\ UserCall => mailCalls' \in 0..MaxMailCalls
    BY <1>t DEF UserCall, MailTypeOK
  <1>s. ASSUME MailTypeOK', \A m \in Mails : SameMail(m) \/ MessageInv(m)'
        PROVE  MailInv'
    BY <1>s, <1>t, MessageStays DEF MailInv
  (* Rows and blobs stay. *)
  <1>k. ASSUME UNCHANGED <<mailFolders, mail, blobVars, mailObserved>>, labelled' \subseteq Mails \X Labels,
               pruning' = Null \/ pruning' \subseteq Mails, mailCalls' \in 0..MaxMailCalls, todo' \subseteq todo
        PROVE  MailInv'
    <2>1. MailTypeOK'
      BY <1>k, <1>t DEF MailTypeOK, blobVars, mailObserved
    <2>2. \A m \in Mails : SameMail(m)
      BY <1>k DEF SameMail, Saving, blobVars, mailObserved, download, MailInv, MessageInv, MailRowInv
    <2> QED
      BY <1>s, <2>1, <2>2
  <1>l. labelled \subseteq Mails \X Labels /\ (pruning = Null \/ pruning \subseteq Mails)
    BY <1>t DEF MailTypeOK
  <1>1. CASE UNCHANGED mailVars
    BY <1>1, <1>c, <1>k, <1>l DEF mailVars, blobVars, mailObserved
  <1>n. Null \notin Nat
    OBVIOUS
  <1>u. ASSUME NEW m \in Mails, NEW v \in Contents, Upload(m, v)
        PROVE  MailInv'
    <2>1. /\ mailCalls' \in 0..MaxMailCalls /\ primary' = [primary EXCEPT ![m] = v]
          /\ saving' = saving \cup {<<m, v>>} /\ newest' = [newest EXCEPT ![m] = v]
          /\ apart' = (IF Saving(m) = {} THEN apart \ {m} ELSE apart \cup {m})
          /\ UNCHANGED <<mailFolders, mail, labelled, fallback, pruning, todo, erased, pruned, saved, overtaken>>
      BY <1>u, <1>c DEF Upload
    <2>2. v # Null /\ mail[m] # Gone
      BY <1>u, <1>n, TablesAssumption DEF Contents, Upload, MailRows
    <2>3. /\ primary' \in ObjectStore /\ primary'[m] = v /\ newest' \in ObjectStore /\ newest'[m] = v
          /\ \A n \in Mails \ {m} : primary'[n] = primary[n] /\ newest'[n] = newest[n]
      BY <1>t, <2>1 DEF MailTypeOK, ObjectStore
    <2>4. MailTypeOK'
      BY <1>t, <2>1, <2>3 DEF MailTypeOK
    <2>5. /\ Saving(m)' = Saving(m) \cup {<<m, v>>}
          /\ \A n \in Mails \ {m} : Saving(n)' = Saving(n)
      BY <2>1 DEF Saving
    <2>6. download(m)' = v /\ \A n \in Mails \ {m} : download(n)' = download(n)
      BY <2>1, <2>2, <2>3 DEF download
    <2>7. m \notin apart' => Saving(m)' = {<<m, v>>}
      BY <2>1, <2>5
    <2>8. MessageInv(m)'
      <3>1. m \in MailRows => MailRowInv(m)'
        <4>1. ASSUME m \in MailRows PROVE MailRowInv(m)
          BY <4>1 DEF MailInv, MessageInv
        <4> QED
          BY <4>1, <2>1, <2>2, <2>3, <2>5 DEF MailRowInv
      <3>2. \A s \in Saving(m)' : m \notin apart' => s[2] = v
        BY <2>7
      <3>3. m \in MailRows' <=> m \in MailRows
        BY <2>1 DEF MailRows
      <3>4. MessageInv(m)
        BY DEF MailInv
      <3> QED
        BY <2>1, <2>2, <2>3, <2>6, <3>1, <3>2, <3>3, <3>4 DEF MessageInv
    <2>9. \A n \in Mails \ {m} : SameMail(n)
      BY <2>1, <2>3, <2>5, <2>6 DEF SameMail, MailInv, MessageInv, MailRowInv
    <2> QED
      BY <1>s, <2>4, <2>8, <2>9
  (* The row of a save is written, or not. *)
  <1>w. ASSUME NEW m \in Mails, NEW v \in Contents, <<m, v>> \in saving, saving' = saving \ {<<m, v>>}
        PROVE  /\ saving' \subseteq Mails \X Contents /\ Saving(m)' = Saving(m) \ {<<m, v>>}
               /\ \A n \in Mails \ {m} : Saving(n)' = Saving(n)
               /\ <<m, v>> \in Saving(m) /\ newest[m] # Null /\ (m \notin apart => v = newest[m])
               /\ \A s \in Saving(m)' : m \notin apart => s[2] = newest[m]
    <2>1. /\ saving' \subseteq Mails \X Contents /\ Saving(m)' = Saving(m) \ {<<m, v>>}
          /\ \A n \in Mails \ {m} : Saving(n)' = Saving(n)
          /\ <<m, v>> \in Saving(m) /\ <<m, v>>[2] = v
      BY <1>t, <1>w DEF Saving, MailTypeOK
    <2> QED
      BY <2>1 DEF MailInv, MessageInv
  <1>2. ASSUME NEW m \in Mails, NEW f \in DefaultFolders \cup CustomFolders, NEW at \in 0..1, NEW h \in {0, Null},
               InsertMessage(m, f, at, h)
        PROVE  MailInv'
    <2>0. 0 \in Contents /\ h \in Contents \cup {Null}
      BY DEF Contents
    <2>1. PICK row \in MailRow : row = [folder |-> f, key |-> 0, at |-> at, headers |-> h]
      <3>1. h \in (0..Legacy) \cup {Null}
        BY DEF Legacy
      <3> QED
        BY <2>0, <3>1 DEF MailRow
    <2>2. row.folder = f /\ row.key = 0 /\ row.headers = h
      BY <2>1
    <2>3. /\ <<m, 0>> \in saving /\ mail[m] = Null /\ f \in mailFolders /\ saving' = saving \ {<<m, 0>>}
          /\ mail' = [mail EXCEPT ![m] = row] /\ saved' = [saved EXCEPT ![m] = h]
          /\ UNCHANGED <<mailFolders, labelled, primary, fallback, pruning, todo, mailCalls, erased, pruned,
                         newest, apart, overtaken>>
      BY <1>2, <2>1 DEF InsertMessage
    <2> HIDE <2>1
    <2>4. /\ mail' \in [Mails -> MailRow \cup {Null, Gone}] /\ mail'[m] = row /\ mail'[m] \notin {Null, Gone}
          /\ \A n \in Mails \ {m} : mail'[n] = mail[n]
      BY <1>t, <2>3, MailWritten
    <2>5. /\ saving' \subseteq Mails \X Contents /\ Saving(m)' = Saving(m) \ {<<m, 0>>}
          /\ \A n \in Mails \ {m} : Saving(n)' = Saving(n)
          /\ newest[m] # Null /\ (m \notin apart => 0 = newest[m])
          /\ \A s \in Saving(m)' : m \notin apart => s[2] = newest[m]
      BY <1>w, <2>0, <2>3
    <2>6. /\ saved' \in ObjectStore /\ saved'[m] = h
          /\ \A n \in Mails \ {m} : saved'[n] = saved[n]
      BY <1>t, <2>0, <2>3 DEF MailTypeOK, ObjectStore
    <2>7. MailTypeOK'
      BY <1>t, <2>3, <2>4, <2>5, <2>6 DEF MailTypeOK
    <2>d. \A n \in Mails : download(n)' = download(n)
      BY <2>3 DEF download
    <2>8. MessageInv(m)'
      <3>1. MessageInv(m) /\ m \notin todo
        BY <2>3 DEF MailInv, MessageInv
      <3>2. MailRowInv(m)'
        BY <2>2, <2>3, <2>4, <2>5, <2>6, <3>1 DEF MailRowInv
      <3>3. mail[m] # Gone
        BY <2>3, TablesAssumption
      <3> QED
        BY <2>3, <2>4, <2>5, <2>d, <3>1, <3>2, <3>3 DEF MessageInv
    <2>9. \A n \in Mails \ {m} : SameMail(n)
      BY <2>3, <2>4, <2>5, <2>6, <2>d DEF SameMail, MailInv, MessageInv, MailRowInv
    <2> QED
      BY <1>s, <2>7, <2>8, <2>9
  <1>3. ASSUME NEW m \in Mails, NEW v \in Contents, NEW withHeaders \in BOOLEAN,
               UpdateDraftByTenant(m, v, withHeaders)
        PROVE  MailInv'
    <2>1. m \in MailRows /\ mail[m] \in MailRow /\ MailRowInv(m) /\ MessageInv(m) /\ mail[m] \notin {Null, Gone}
      BY <1>3, <1>t, MailRowTyped DEF UpdateDraftByTenant, MailInv, MessageInv, MailRows
    <2>2. PICK row \in MailRow : row = [mail[m] EXCEPT !.key = v, !.headers = IF withHeaders THEN v ELSE @]
      <3>1. v \in (0..Legacy) \cup {Null}
        BY DEF Legacy, Contents
      <3> QED
        BY <2>1, <3>1 DEF MailRow
    <2>3. row.folder = mail[m].folder /\ row.key = v /\ row.headers = IF withHeaders THEN v ELSE mail[m].headers
      BY <2>1, <2>2 DEF MailRow
    <2>4. /\ <<m, v>> \in saving /\ saving' = saving \ {<<m, v>>} /\ mail' = [mail EXCEPT ![m] = row]
          /\ saved' = (IF withHeaders THEN [saved EXCEPT ![m] = v] ELSE saved)
          /\ overtaken' = (IF ~withHeaders THEN overtaken
                           ELSE IF m \in todo THEN overtaken \cup {m} ELSE overtaken \ {m})
          /\ UNCHANGED <<mailFolders, labelled, primary, fallback, pruning, todo, mailCalls, erased, pruned,
                         newest, apart>>
      BY <1>3, <1>t, <2>2 DEF UpdateDraftByTenant, MailTypeOK
    <2> HIDE <2>2
    <2>5. /\ mail' \in [Mails -> MailRow \cup {Null, Gone}] /\ mail'[m] = row /\ mail'[m] \notin {Null, Gone}
          /\ \A n \in Mails \ {m} : mail'[n] = mail[n]
      BY <1>t, <2>4, MailWritten
    <2>6. /\ saved' \in ObjectStore /\ saved'[m] = (IF withHeaders THEN v ELSE saved[m])
          /\ \A n \in Mails \ {m} : saved'[n] = saved[n]
      BY <1>t, <2>4 DEF MailTypeOK, ObjectStore
    <2>w. /\ saving' \subseteq Mails \X Contents /\ Saving(m)' = Saving(m) \ {<<m, v>>}
          /\ \A n \in Mails \ {m} : Saving(n)' = Saving(n)
          /\ newest[m] # Null /\ (m \notin apart => v = newest[m])
          /\ \A s \in Saving(m)' : m \notin apart => s[2] = newest[m]
      BY <1>w, <2>4
    <2>7. MailTypeOK'
      BY <1>t, <2>4, <2>5, <2>6, <2>w DEF MailTypeOK
    <2>d. \A n \in Mails : download(n)' = download(n)
      BY <2>4 DEF download
    <2>8. MailRowInv(m)'
      <3>1. mail'[m].folder \in mailFolders' /\ newest'[m] # Null /\ (m \notin apart' => mail'[m].key = newest'[m])
        BY <2>1, <2>3, <2>4, <2>5, <2>w DEF MailRowInv
      <3>2. /\ saved'[m] # Null /\ m \notin overtaken' => mail'[m].headers = saved'[m]
            /\ saved'[m] # Null /\ m \in todo' => m \in overtaken'
        BY <2>1, <2>3, <2>4, <2>5, <2>6 DEF MailRowInv
      <3> QED
        BY <3>1, <3>2 DEF MailRowInv
    <2>9. MessageInv(m)'
      BY <2>1, <2>4, <2>5, <2>8, <2>d, <2>w DEF MessageInv
    <2>10. \A n \in Mails \ {m} : SameMail(n)
      BY <2>4, <2>5, <2>6, <2>w, <2>d DEF SameMail, MailInv, MessageInv, MailRowInv
    <2> QED
      BY <1>s, <2>7, <2>9, <2>10
  <1>x. ASSUME NEW m \in Mails, NEW v \in Contents, RowNotWritten(m, v)
        PROVE  MailInv'
    <2>1. /\ <<m, v>> \in saving /\ saving' = saving \ {<<m, v>>} /\ apart' = apart \cup {m}
          /\ UNCHANGED <<mailFolders, mail, labelled, primary, fallback, pruning, todo, mailCalls, erased, pruned,
                         newest, saved, overtaken>>
      BY <1>x DEF RowNotWritten
    <2>2. /\ saving' \subseteq Mails \X Contents /\ newest[m] # Null
          /\ \A n \in Mails \ {m} : Saving(n)' = Saving(n)
      BY <1>w, <2>1
    <2>3. MailTypeOK'
      BY <1>t, <2>1, <2>2 DEF MailTypeOK
    <2>d. \A n \in Mails : download(n)' = download(n)
      BY <2>1 DEF download
    <2>4. MessageInv(m)'
      <3>1. m \in apart' /\ MessageInv(m) /\ (m \in MailRows' <=> m \in MailRows)
        BY <2>1 DEF MailInv, MailRows
      <3>2. m \in MailRows => MailRowInv(m)'
        BY <2>1, <3>1 DEF MessageInv, MailRowInv
      <3> QED
        BY <2>1, <2>2, <2>d, <3>1, <3>2 DEF MessageInv
    <2>5. \A n \in Mails \ {m} : SameMail(n)
      BY <2>1, <2>2, <2>d DEF SameMail, MailInv, MessageInv, MailRowInv
    <2> QED
      BY <1>s, <2>3, <2>4, <2>5
  <1>4. ASSUME NEW M \in SUBSET Mails, DeleteMessagesByTenant(M)
        PROVE  MailInv'
    <2>1. M \cap MailRows \subseteq Mails /\ erased \subseteq Mails /\ pruned \subseteq Mails
      BY <1>t DEF MailTypeOK
    <2> QED
      BY <1>4, <1>c, <1>l, <2>1, MailsRemoved DEF DeleteMessagesByTenant
  <1>5. CASE PruneOldestMessages
    <2>1. pruning \cap MailRows \subseteq Mails /\ erased \subseteq Mails /\ pruned \subseteq Mails
      BY <1>t DEF MailTypeOK, MailRows
    <2> QED
      BY <1>5, <1>c, <2>1, MailsRemoved DEF PruneOldestMessages
  <1>6. ASSUME NEW M \in SUBSET Mails, PruneList(M)
        PROVE  MailInv'
    BY <1>6, <1>c, <1>k, <1>l DEF PruneList
  <1>7. ASSUME NEW m \in Mails, NEW l \in Labels, AddLabelsToMessages(m, l) \/ RemoveLabelsFromMessages(m, l)
        PROVE  MailInv'
    BY <1>7, <1>c, <1>k, <1>l DEF AddLabelsToMessages, RemoveLabelsFromMessages
  <1>8. ASSUME NEW l \in Labels, DeleteLabel(l)
        PROVE  MailInv'
    BY <1>8, <1>c, <1>k, <1>l DEF DeleteLabel
  <1>9. ASSUME NEW M \in SUBSET Mails, NEW f \in DefaultFolders \cup CustomFolders, MoveMessagesByTenant(M, f)
        PROVE  MailInv'
    <2>1. M \cap MailRows \in SUBSET MailRows
      OBVIOUS
    <2>2. /\ f \in mailFolders' /\ mailFolders' \subseteq DefaultFolders \cup CustomFolders
          /\ \A m \in MailRows : mail[m].folder \in mailFolders'
      BY <1>9, <1>t DEF MoveMessagesByTenant, MailTypeOK, MailInv, MessageInv, MailRowInv, MailRows
    <2> QED
      BY <1>9, <1>c, <2>1, <2>2, MailsMoved DEF MoveMessagesByTenant
  <1>10. ASSUME NEW f \in CustomFolders, DeleteMailFolder(f)
         PROVE  MailInv'
    <2>1. PICK S \in SUBSET MailRows : S = {m \in MailRows : mail[m].folder = f}
      OBVIOUS
    <2>2. /\ "trash" \in mailFolders' /\ mailFolders' \subseteq DefaultFolders \cup CustomFolders
          /\ \A m \in MailRows \ S : mail[m].folder \in mailFolders'
      BY <1>10, <1>t, <2>1 DEF DeleteMailFolder, MailTypeOK, MailInv, MessageInv, MailRowInv, MailRows, DefaultFolders
    <2>3. mail' = [m \in Mails |-> IF m \in S THEN [mail[m] EXCEPT !.folder = "trash"] ELSE mail[m]]
      BY <1>10, <2>1 DEF DeleteMailFolder, Emptied
    <2>4. mailCalls' \in 0..MaxMailCalls /\ UNCHANGED <<labelled, blobVars, pruning, todo, mailObserved>>
      BY <1>10, <1>c DEF DeleteMailFolder
    <2> QED
      BY <2>2, <2>3, <2>4, MailsMoved
  <1>11. ASSUME NEW f \in CustomFolders, CreateFolder(f)
         PROVE  MailInv'
    <2>1. MailTypeOK'
      BY <1>11, <1>c, <1>t DEF CreateFolder, MailTypeOK, blobVars, mailObserved
    <2>2. \A m \in Mails : SameMail(m)
      BY <1>11 DEF CreateFolder, SameMail, Saving, download, blobVars, mailObserved, MailInv, MessageInv, MailRowInv
    <2> QED
      BY <1>s, <2>1, <2>2
  <1>12. CASE BackfillList
    <2>1. todo = {} /\ todo' = Pending /\ UNCHANGED <<mailFolders, mail, labelled, blobVars, pruning, mailCalls, mailObserved>>
      BY <1>12 DEF BackfillList
    <2>2. MailTypeOK'
      BY <1>t, <2>1 DEF MailTypeOK, Pending, MailRows, blobVars, mailObserved
    <2>3. ASSUME NEW m \in Mails
          PROVE  MessageInv(m)'
      <3>1. MessageInv(m) /\ (m \in MailRows' <=> m \in MailRows)
        BY <2>1 DEF MailInv, MailRows
      <3>2. ASSUME m \in MailRows
            PROVE  MailRowInv(m)'
        <4>1. MailRowInv(m)
          BY <3>1, <3>2 DEF MessageInv
        <4>2. saved[m] # Null /\ m \in todo' => m \in overtaken
          BY <2>1, <4>1 DEF MailRowInv, Pending
        <4> QED
          BY <2>1, <4>1, <4>2 DEF MailRowInv, Saving, blobVars, mailObserved
      <3>3. download(m)' = download(m) /\ Saving(m)' = Saving(m) /\ (m \in todo' => m \in MailRows)
        BY <2>1 DEF download, Saving, blobVars, Pending
      <3> QED
        BY <2>1, <3>1, <3>2, <3>3 DEF MessageInv, mailObserved, MailRows
    <2> QED
      BY <2>2, <2>3 DEF MailInv
  <1>13. ASSUME NEW m \in Mails, BackfillMessageHeaders(m)
         PROVE  MailInv'
    <2>0. /\ m \in todo /\ todo' = todo \ {m}
          /\ UNCHANGED <<mailFolders, labelled, primary, fallback, saving, pruning, mailCalls, erased, pruned,
                         newest, apart, saved, overtaken>>
      BY <1>13 DEF BackfillMessageHeaders, blobVars, mailObserved
    <2>1. CASE mail' = mail
      BY <1>c, <1>k, <1>l, <2>0, <2>1 DEF blobVars, mailObserved
    <2>2. CASE m \in MailRows /\ mail' = [mail EXCEPT ![m].headers = Legacy]
      <3>1. mail[m] \in MailRow /\ MailRowInv(m) /\ MessageInv(m) /\ mail[m] # Gone
        BY <1>t, <2>2, MailRowTyped DEF MailInv, MessageInv, MailRows
      <3>d. \A n \in Mails : download(n)' = download(n) /\ Saving(n)' = Saving(n)
        BY <2>0 DEF download, Saving
      <3>2. PICK row \in MailRow : row = [mail[m] EXCEPT !.headers = Legacy]
        <4>1. Legacy \in 0..Legacy
          BY DEF Legacy
        <4> QED
          BY <3>1, <4>1 DEF MailRow
      <3>3. row.folder = mail[m].folder /\ row.key = mail[m].key /\ mail' = [mail EXCEPT ![m] = row]
        BY <1>t, <2>2, <3>1, <3>2 DEF MailRow, MailTypeOK
      <3>4. /\ mail' \in [Mails -> MailRow \cup {Null, Gone}] /\ mail'[m] = row /\ mail'[m] \notin {Null, Gone}
            /\ \A n \in Mails \ {m} : mail'[n] = mail[n]
        BY <1>t, <3>3, MailWritten
      <3>5. MailTypeOK'
        BY <1>t, <2>0, <3>4 DEF MailTypeOK
      <3>6. MailRowInv(m)'
        BY <2>0, <3>1, <3>3, <3>4, <3>d DEF MailRowInv
      <3>7. MessageInv(m)'
        BY <2>0, <3>1, <3>4, <3>6, <3>d DEF MessageInv
      <3>8. \A n \in Mails \ {m} : SameMail(n)
        BY <2>0, <3>4, <3>d DEF SameMail, MailInv, MessageInv, MailRowInv
      <3> QED
        BY <1>s, <3>5, <3>7, <3>8
    <2> QED
      BY <1>13, <2>1, <2>2 DEF BackfillMessageHeaders
  (* The blobs move. *)
  <1>14. ASSUME UNCHANGED <<mailFolders, mail, labelled, saving, pruning, todo, mailCalls, mailObserved>>,
                primary' \in ObjectStore, fallback' \in ObjectStore \cup {Null},
                \A m \in Mails : mail[m] # Gone => download(m)' = download(m)
         PROVE  MailInv'
    <2>1. MailTypeOK'
      BY <1>14, <1>t DEF MailTypeOK, mailObserved
    <2>2. ASSUME NEW m \in Mails
          PROVE  SameMail(m)
      BY <1>14 DEF SameMail, Saving, mailObserved, MailInv, MessageInv, MailRowInv
    <2> QED
      BY <1>s, <2>1, <2>2
  <1>p. primary \in ObjectStore /\ fallback \in ObjectStore \cup {Null}
    BY <1>t DEF MailTypeOK
  <1>15. CASE AttachMigrationFallback
    <2>1. /\ fallback = Null /\ fallback' = primary /\ primary' = [m \in Mails |-> Null] /\ primary # Null
          /\ UNCHANGED <<mailFolders, mail, labelled, saving, pruning, todo, mailCalls, mailObserved>>
      BY <1>15, <1>p DEF AttachMigrationFallback
    <2>2. primary' \in ObjectStore
      BY <2>1 DEF ObjectStore
    <2>3. \A m \in Mails : download(m)' = download(m)
      BY <2>1 DEF download
    <2> QED
      BY <1>14, <1>p, <2>1, <2>2, <2>3
  <1>16. CASE DetachFallback
    <2>1. /\ fallback # Null /\ fallback' = Null /\ UNCHANGED primary
          /\ \A m \in Mails : fallback[m] # Null => primary[m] # Null \/ mail[m] = Gone
          /\ UNCHANGED <<mailFolders, mail, labelled, saving, pruning, todo, mailCalls, mailObserved>>
      BY <1>16 DEF DetachFallback
    <2>2. \A m \in Mails : mail[m] # Gone => download(m)' = download(m)
      BY <2>1 DEF download
    <2> QED
      BY <1>14, <1>p, <2>1, <2>2
  <1>17. ASSUME NEW m \in Mails, CopyBlob(m)
         PROVE  MailInv'
    <2>1. /\ fallback # Null /\ primary[m] = Null /\ primary' = [primary EXCEPT ![m] = fallback[m]] /\ UNCHANGED fallback
          /\ UNCHANGED <<mailFolders, mail, labelled, saving, pruning, todo, mailCalls, mailObserved>>
      BY <1>17 DEF CopyBlob
    <2>2. primary' \in ObjectStore /\ primary'[m] = fallback[m] /\ \A n \in Mails \ {m} : primary'[n] = primary[n]
      BY <1>p, <2>1 DEF ObjectStore
    <2>3. \A n \in Mails : download(n)' = download(n)
      BY <2>1, <2>2 DEF download
    <2> QED
      BY <1>14, <1>p, <2>1, <2>2, <2>3
  <1>18. ASSUME NEW m \in Mails, DeleteMailBlob(m)
         PROVE  MailInv'
    <2>1. /\ mail[m] = Gone /\ primary' = [primary EXCEPT ![m] = Null] /\ UNCHANGED fallback
          /\ UNCHANGED <<mailFolders, mail, labelled, saving, pruning, todo, mailCalls, mailObserved>>
      BY <1>18 DEF DeleteMailBlob
    <2>2. primary' \in ObjectStore /\ \A n \in Mails \ {m} : primary'[n] = primary[n]
      BY <1>p, <2>1 DEF ObjectStore
    <2>3. \A n \in Mails \ {m} : download(n)' = download(n)
      BY <2>1, <2>2 DEF download
    <2> QED
      BY <1>14, <1>p, <2>1, <2>2, <2>3
  <1> QED
    BY <1>1, <1>2, <1>3, <1>4, <1>5, <1>6, <1>7, <1>8, <1>9, <1>10, <1>11, <1>12, <1>13, <1>15, <1>16, <1>17,
       <1>18, <1>u, <1>x
    DEF MailboxNext

LEMMA MailStaysKept == MailInv => MailTypeOK /\ MailKept
  <1> SUFFICES ASSUME MailInv, NEW m \in Mails, mail[m] # Null, m \notin erased \cup pruned
               PROVE  /\ \E f \in mailFolders : m \in ListMessages(f)
                      /\ download(m) = newest[m] /\ download(m) # Null
                      /\ Saving(m) = {} /\ m \notin apart => mail[m].key = download(m)
                      /\ saved[m] # Null /\ m \notin overtaken => mail[m].headers = saved[m]
    BY DEF MailInv, MailKept
  <1>1. m \in MailRows /\ MailRowInv(m) /\ MessageInv(m) /\ mail[m] # Gone
    BY DEF MailInv, MessageInv, MailRows
  <1> QED
    BY <1>1 DEF MailRowInv, MessageInv, ListMessages

(* MailboxHolds.  For any number of messages, folders and versions: what   *)
(* neither the user nor PruneOldestMessages deleted stays listed in an     *)
(* existing folder, and a read finds the content uploaded last at every    *)
(* moment of the move to another account.  The row's key opens it unless a *)
(* save is in flight, or one failed half way or overlapped another since   *)
(* the last that ran alone; the headers are those saved last unless a      *)
(* backfill had the row listed before the save.                            *)
THEOREM MailStaysReadable == StoresSpec => []MailboxHolds
  <1>1. StoresInit => MailInv
    BY MailStart DEF StoresInit
  <1>2. MailInv /\ [StoresNext]_storesVars => MailInv'
    BY MailPart, MailStep
  <1>3. MailInv => MailboxHolds
    BY MailStaysKept DEF MailboxHolds
  <1> QED
    BY <1>1, <1>2, <1>3, PTL DEF StoresSpec

-----------------------------------------------------------------------------
(* Calendar.                                                               *)

(* The answer of an attendee that is not mixed: one mail at a time is      *)
(* handled, what waits to be broadcast is what the organizer's row shows,  *)
(* and otherwise the copies agree with that row.                           *)
AnswerInv(a) ==
    a \notin mixed =>
      /\ \A m, n \in ReplyMails :
           (Under(m) /\ replies[m].who = a /\ Under(n) /\ replies[n].who = a) => m = n
      /\ \A m \in ReplyMails : replies[m].at = "others" /\ replies[m].who = a /\ Organizer \in Kept =>
           events[Organizer].resp[a] = replies[m].status
      /\ (\A m \in ReplyMails : replies[m].who = a => replies[m].at # "others") =>
           \A g \in Guests : Organizer \in Kept /\ g \in Kept => events[g].resp[a] = events[Organizer].resp[a]

(* The row of one owner.                                                   *)
EventInv(o) ==
    /\ o \in toMark => listed[o] # Null /\ <<o, listed[o]>> \in reminded
    /\ o \in Kept =>
      /\ listed[o] # Null => ~events[o].sent
      /\ o \notin overrun => /\ events[o].sent => <<o, events[o].start>> \in reminded
                             /\ listed[o] # Null => listed[o] = events[o].start
      /\ o \in callOffs /\ o \notin revived => events[o].cancelled

CalInv ==
    /\ CalTypeOK
    /\ \A a \in Repliers : AnswerInv(a)
    /\ \A o \in Owners : EventInv(o)

(* The answer of one attendee stays right when neither his mails nor what  *)
(* the rows say of him change, or rows go.                                 *)
SameAnswer(a) ==
    /\ \A m \in ReplyMails : replies[m].who = a => replies'[m] = replies[m]
    /\ \A m \in ReplyMails : replies'[m].who = replies[m].who
    /\ \A o \in Owners : events'[o] # Gone => events[o] # Gone /\ events'[o].resp[a] = events[o].resp[a]
    /\ mixed \subseteq mixed'

LEMMA CalPart ==
    ASSUME [StoresNext]_storesVars
    PROVE  [CalNext]_calVars
  BY DEF StoresNext, Only, storesVars

LEMMA CalStart == CalInit => CalInv
  <1> SUFFICES ASSUME CalInit
               PROVE  CalInv
    OBVIOUS
  <1> USE CalendarAssumption DEF CalInit
  <1>1. /\ events \in [Owners -> EventRow \cup {Gone}]
        /\ calNow \in Times /\ calEdits \in 0..MaxCalEdits
    BY DEF EventRow, Times, PartStats
  <1>2. CalTypeOK
    BY <1>1 DEF CalTypeOK
  <1>3. \A a \in Repliers : AnswerInv(a)
    BY DEF AnswerInv, Under, Kept, Owners
  <1>4. \A o \in Owners : EventInv(o)
    BY DEF EventInv, Kept
  <1> QED
    BY <1>2, <1>3, <1>4 DEF CalInv

LEMMA AnswerStays ==
    ASSUME NEW a \in Repliers, AnswerInv(a), SameAnswer(a)
    PROVE  AnswerInv(a)'
  <1>1. SUFFICES ASSUME a \notin mixed'
                 PROVE  AnswerInv(a)'
    BY DEF AnswerInv
  <1>2. a \notin mixed /\ Kept' \subseteq Kept /\ Guests \subseteq Owners /\ Organizer \in Owners
    BY <1>1 DEF SameAnswer, Kept, Owners
  <1>3. \A m \in ReplyMails : replies'[m].who = a => replies[m].who = a /\ replies'[m] = replies[m]
    BY DEF SameAnswer
  <1>4. \A m, n \in ReplyMails :
          (Under(m)' /\ replies'[m].who = a /\ Under(n)' /\ replies'[n].who = a) => m = n
    BY <1>2, <1>3 DEF AnswerInv, Under
  <1>5. \A m \in ReplyMails : replies'[m].at = "others" /\ replies'[m].who = a /\ Organizer \in Kept' =>
          events'[Organizer].resp[a] = replies'[m].status
    BY <1>2, <1>3 DEF AnswerInv, SameAnswer, Kept
  <1>6. (\A m \in ReplyMails : replies'[m].who = a => replies'[m].at # "others") =>
          \A g \in Guests : Organizer \in Kept' /\ g \in Kept' => events'[g].resp[a] = events'[Organizer].resp[a]
    BY <1>2, <1>3 DEF AnswerInv, SameAnswer, Kept
  <1> QED
    BY <1>4, <1>5, <1>6 DEF AnswerInv

(* The row of an owner that a step does not touch.                         *)
SameEvent(o) ==
    /\ events'[o] = events[o] /\ listed'[o] = listed[o] /\ (o \in toMark' <=> o \in toMark)
    /\ o \in overrun' <=> o \in overrun
    /\ o \in callOffs' <=> o \in callOffs
    /\ o \in revived' <=> o \in revived
    /\ reminded \subseteq reminded'

LEMMA EventStays ==
    ASSUME NEW o \in Owners, EventInv(o), SameEvent(o)
    PROVE  EventInv(o)'
  BY DEF EventInv, SameEvent, Kept

LEMMA CalStep ==
    ASSUME CalInv, [CalNext]_calVars
    PROVE  CalInv'
  <1> USE CalendarAssumption
  <1>t. CalTypeOK
    BY DEF CalInv
  <1>a. ASSUME CalTypeOK', \A a \in Repliers : SameAnswer(a), \A o \in Owners : EventInv(o)'
        PROVE  CalInv'
    BY <1>a, AnswerStays DEF CalInv
  <1>b. ASSUME CalTypeOK', \A a \in Repliers : AnswerInv(a)', \A o \in Owners : SameEvent(o) \/ EventInv(o)'
        PROVE  CalInv'
    BY <1>b, EventStays DEF CalInv
  <1>e. CalEdit => calEdits' \in 0..MaxCalEdits
    BY <1>t DEF CalTypeOK, CalEdit
  <1>1. CASE UNCHANGED calVars
    <2>1. CalTypeOK' /\ \A o \in Owners : SameEvent(o)
      BY <1>1, <1>t DEF calVars, CalTypeOK, SameEvent
    <2>2. \A a \in Repliers : SameAnswer(a)
      BY <1>1 DEF calVars, SameAnswer
    <2> QED
      BY <1>a, <2>1, <2>2, EventStays DEF CalInv
  <1>2. CASE CalTick
    <2>1. CalTypeOK' /\ \A o \in Owners : SameEvent(o)
      BY <1>2, <1>t DEF CalTick, CalTypeOK, SameEvent, Times
    <2>2. \A a \in Repliers : SameAnswer(a)
      BY <1>2 DEF CalTick, SameAnswer
    <2> QED
      BY <1>a, <2>1, <2>2, EventStays DEF CalInv
  <1>3. ASSUME NEW o \in Owners, CalGet(o)
        PROVE  CalInv'
    <2>0. events[o] \in EventRow /\ events[o].cancelled \in BOOLEAN
      BY <1>3, <1>t DEF CalGet, Kept, CalTypeOK, EventRow
    <2>1. CalTypeOK' /\ \A q \in Owners : SameEvent(q)
      BY <1>3, <1>t, <1>e, <2>0 DEF CalGet, CalTypeOK, SameEvent
    <2>2. \A a \in Repliers : SameAnswer(a)
      BY <1>3 DEF CalGet, SameAnswer
    <2> QED
      BY <1>a, <2>1, <2>2, EventStays DEF CalInv
  <1>4. ASSUME NEW o \in Owners, NEW t \in Times, CalUpdate(o, t)
        PROVE  CalInv'
    <2>1. CASE o \notin Kept
      <3>1. CalTypeOK' /\ \A q \in Owners : SameEvent(q)
        BY <1>4, <1>t, <2>1 DEF CalUpdate, CalTypeOK, SameEvent
      <3>2. \A a \in Repliers : SameAnswer(a)
        BY <1>4, <2>1 DEF CalUpdate, SameAnswer
      <3> QED
        BY <1>a, <3>1, <3>2, EventStays DEF CalInv
    <2>2. CASE o \in Kept
      <3>0. events[o] \in EventRow /\ events[o] # Gone /\ editing[o] \in BOOLEAN
        BY <1>4, <1>t, <2>2 DEF CalUpdate, Kept, CalTypeOK
      <3>1. PICK row \in EventRow : row = Edited(o, t)
        BY <3>0 DEF Edited, EventRow
      <3>2. /\ row.start = t /\ row.cancelled = editing[o] /\ row.sent = FALSE /\ row.resp = events[o].resp
        BY <3>0, <3>1 DEF Edited, EventRow
      <3>3. /\ events' = [events EXCEPT ![o] = row] /\ UNCHANGED <<listed, toMark, reminded>>
            /\ overrun' = IF listed[o] \notin {Null, t} THEN overrun \cup {o} ELSE overrun \ {o}
            /\ revived' = IF events[o].cancelled /\ ~editing[o] THEN revived \cup {o} ELSE revived
            /\ callOffs' = callOffs /\ replies' = replies /\ mixed' = mixed
        BY <1>4, <2>2, <3>1 DEF CalUpdate
      <3>4. /\ events'[o] = row /\ \A q \in Owners : q # o => events'[q] = events[q]
            /\ events' \in [Owners -> EventRow \cup {Gone}]
        BY <1>t, <3>3 DEF CalTypeOK
      <3>5. editing' \in [Owners -> BOOLEAN \cup {Null}] /\ overrun' \subseteq Owners /\ revived' \subseteq Owners
        BY <1>4, <1>t, <3>3 DEF CalUpdate, CalTypeOK
      <3>6. CalTypeOK'
        BY <1>4, <1>t, <3>3, <3>4, <3>5 DEF CalUpdate, CalTypeOK
      <3>7. \A a \in Repliers : SameAnswer(a)
        BY <3>0, <3>2, <3>3, <3>4 DEF SameAnswer
      <3>8. \A q \in Owners : q # o => SameEvent(q)
        BY <3>3, <3>4 DEF SameEvent
      <3>9. EventInv(o)'
        BY <2>2, <3>2, <3>3, <3>4 DEF CalInv, EventInv
      <3> QED
        BY <1>a, <3>6, <3>7, <3>8, <3>9, EventStays DEF CalInv
    <2> QED
      BY <2>1, <2>2
  <1>5. ASSUME NEW o \in Owners, CalDelete(o)
        PROVE  CalInv'
    <2>1. /\ events'[o] = Gone /\ \A q \in Owners : q # o => events'[q] = events[q]
          /\ events' \in [Owners -> EventRow \cup {Gone}]
      BY <1>5, <1>t DEF CalDelete, CalTypeOK
    <2>2. CalTypeOK'
      BY <1>5, <1>t, <2>1 DEF CalDelete, CalTypeOK
    <2>3. EventInv(o)' /\ \A q \in Owners : q # o => SameEvent(q)
      BY <1>5, <2>1 DEF CalDelete, CalInv, EventInv, Kept, SameEvent
    <2>4. \A a \in Repliers : SameAnswer(a)
      BY <1>5, <2>1 DEF CalDelete, SameAnswer
    <2> QED
      BY <1>a, <2>2, <2>3, <2>4, EventStays DEF CalInv
  <1>6. ASSUME NEW A \in SUBSET Repliers, SetAttendeeResponses(A)
        PROVE  CalInv'
    <2>0. /\ Organizer \in Owners /\ events[Organizer] \in EventRow /\ events[Organizer] # Gone
          /\ events[Organizer].resp \in [Repliers -> PartStats \cup {Null}]
      BY <1>6, <1>t DEF SetAttendeeResponses, Owners, Kept, CalTypeOK, EventRow
    <2> DEFINE resp == [a \in Repliers |-> IF a \in A THEN Null ELSE events[Organizer].resp[a]]
    <2>1. PICK row \in EventRow : row = [events[Organizer] EXCEPT !.resp = resp]
      <3>1. resp \in [Repliers -> PartStats \cup {Null}]
        BY <2>0
      <3> HIDE DEF resp
      <3> QED
        BY <2>0, <3>1 DEF EventRow
    <2>2. /\ row.start = events[Organizer].start /\ row.sent = events[Organizer].sent
          /\ row.cancelled = events[Organizer].cancelled /\ row.resp = resp
      <3> HIDE DEF resp
      <3> QED
        BY <2>0, <2>1 DEF EventRow
    <2>3. /\ events' = [events EXCEPT ![Organizer] = row] /\ mixed' = mixed \cup A
      BY <1>6, <1>t, <2>0, <2>1 DEF SetAttendeeResponses, CalTypeOK
    <2>4. /\ events'[Organizer] = row /\ \A q \in Owners : q # Organizer => events'[q] = events[q]
          /\ events' \in [Owners -> EventRow \cup {Gone}]
      BY <1>t, <2>0, <2>3 DEF CalTypeOK
    <2>5. CalTypeOK'
      BY <1>6, <1>t, <1>e, <2>3, <2>4 DEF SetAttendeeResponses, CalTypeOK
    <2>6. \A o \in Owners : EventInv(o)'
      <3>1. \A o \in Owners : o # Organizer => SameEvent(o)
        BY <1>6, <2>4 DEF SetAttendeeResponses, SameEvent
      <3>2. EventInv(Organizer)'
        BY <1>6, <2>0, <2>2, <2>4 DEF SetAttendeeResponses, CalInv, EventInv, Kept
      <3> QED
        BY <3>1, <3>2, EventStays DEF CalInv
    <2>7. \A a \in Repliers : AnswerInv(a)'
      <3> TAKE a \in Repliers
      <3>1. CASE a \in A
        BY <2>3, <3>1 DEF AnswerInv
      <3>2. CASE a \notin A
        <4>1. row.resp[a] = events[Organizer].resp[a]
          BY <2>2, <3>2
        <4>2. SameAnswer(a)
          BY <1>6, <2>0, <2>3, <2>4, <4>1 DEF SetAttendeeResponses, SameAnswer
        <4> QED
          BY <4>2, AnswerStays DEF CalInv
      <3> QED
        BY <3>1, <3>2
    <2> QED
      BY <2>5, <2>6, <2>7 DEF CalInv
  <1>7. ASSUME NEW m \in ReplyMails, processICSReply(m)
        PROVE  CalInv'
    <2>0. PICK a \in Repliers : a = replies[m].who
      BY <1>t DEF CalTypeOK
    <2>1. /\ replies[m].who = a /\ replies[m].at = "sent" /\ replies'[m].at \in {"own", "done"}
          /\ replies'[m].who = a /\ replies'[m].status = replies[m].status
          /\ \A n \in ReplyMails : n # m => replies'[n] = replies[n]
      BY <1>7, <1>t, <2>0 DEF processICSReply, CalTypeOK
    <2>2. replies' \in [ReplyMails -> [who: Repliers, status: PartStats, at: {"sent", "own", "others", "done"}]]
      BY <1>7, <1>t DEF processICSReply, CalTypeOK
    <2>3. /\ events' = events /\ mixed \subseteq mixed' /\ mixed' \subseteq mixed \cup {a}
          /\ a \notin mixed' => \A n \in ReplyMails : Under(n) => replies[n].who # a
      BY <1>7, <2>0 DEF processICSReply
    <2>4. CalTypeOK' /\ \A o \in Owners : SameEvent(o)
      BY <1>7, <1>t, <2>1, <2>2, <2>3 DEF processICSReply, CalTypeOK, SameEvent
    <2>5. \A b \in Repliers \ {a} : SameAnswer(b)
      BY <2>1, <2>3 DEF SameAnswer
    <2>6. AnswerInv(a)'
      <3>1. SUFFICES ASSUME a \notin mixed'
                     PROVE  AnswerInv(a)'
        BY DEF AnswerInv
      <3>2. \A n \in ReplyMails : n # m /\ replies'[n].who = a => ~Under(n)' /\ replies[n].who = a
        BY <2>1, <2>3, <3>1 DEF Under
      <3>3. AnswerInv(a) /\ a \notin mixed /\ Kept' = Kept
        BY <2>1, <2>3, <3>1 DEF CalInv, Kept
      <3>4. \A n \in ReplyMails : replies'[n].who = a => replies'[n].at # "others" /\ replies[n].at # "others"
        BY <2>1, <3>2 DEF Under
      <3> QED
        BY <2>1, <2>3, <3>2, <3>3, <3>4 DEF AnswerInv
    <2>7. \A b \in Repliers : AnswerInv(b)'
      BY <2>5, <2>6, AnswerStays DEF CalInv
    <2> QED
      BY <1>b, <2>4, <2>7
  <1>8. ASSUME NEW m \in ReplyMails, UpdateAttendeeResponse(m)
        PROVE  CalInv'
    <2>0. PICK a \in Repliers : a = replies[m].who
      BY <1>t DEF CalTypeOK
    <2>1. /\ replies[m].who = a /\ replies[m].at = "own" /\ replies[m].status \in PartStats
          /\ replies'[m].who = a /\ replies'[m].status = replies[m].status
          /\ \A n \in ReplyMails : n # m => replies'[n] = replies[n]
          /\ replies' \in [ReplyMails -> [who: Repliers, status: PartStats, at: {"sent", "own", "others", "done"}]]
          /\ mixed' = mixed
      BY <1>8, <1>t, <2>0, SMTT(40) DEF UpdateAttendeeResponse, CalTypeOK
    <2>2. CASE events' = events /\ replies'[m].at = "done" /\ calEdits' \in 0..MaxCalEdits
      <3>1. CalTypeOK' /\ \A o \in Owners : SameEvent(o)
        BY <1>8, <1>t, <2>1, <2>2 DEF UpdateAttendeeResponse, CalTypeOK, SameEvent
      <3>2. \A b \in Repliers \ {a} : SameAnswer(b)
        BY <2>1, <2>2 DEF SameAnswer
      <3>3. AnswerInv(a)'
        BY <2>1, <2>2 DEF CalInv, AnswerInv, Under, Kept
      <3>4. \A b \in Repliers : AnswerInv(b)'
        BY <3>2, <3>3, AnswerStays DEF CalInv
      <3> QED
        BY <1>b, <3>1, <3>4
    <2>3. CASE /\ Organizer \in Kept /\ events' = [events EXCEPT ![Organizer] = Answered(Organizer, m)]
               /\ replies'[m].at = "others" /\ calEdits' = calEdits
      <3>0. /\ Organizer \in Owners /\ events[Organizer] \in EventRow /\ events[Organizer] # Gone
            /\ events[Organizer].resp \in [Repliers -> PartStats \cup {Null}]
        BY <1>t, <2>3 DEF Owners, Kept, CalTypeOK, EventRow
      <3>1. PICK row \in EventRow : row = Answered(Organizer, m)
        BY <2>1, <3>0 DEF Answered, EventRow
      <3>2. /\ row.start = events[Organizer].start /\ row.sent = events[Organizer].sent
            /\ row.cancelled = events[Organizer].cancelled
            /\ row.resp = [events[Organizer].resp EXCEPT ![a] = replies[m].status]
        BY <2>1, <3>0, <3>1 DEF Answered, EventRow
      <3>3. /\ events'[Organizer] = row /\ \A q \in Owners : q # Organizer => events'[q] = events[q]
            /\ events' \in [Owners -> EventRow \cup {Gone}]
        BY <1>t, <2>3, <3>0, <3>1 DEF CalTypeOK
      <3>4. CalTypeOK'
        BY <1>8, <1>t, <2>1, <2>3, <3>3 DEF UpdateAttendeeResponse, CalTypeOK
      <3>5. \A o \in Owners : SameEvent(o) \/ EventInv(o)'
        <4>1. \A o \in Owners : o # Organizer => SameEvent(o)
          BY <1>8, <3>3 DEF UpdateAttendeeResponse, SameEvent
        <4>2. EventInv(Organizer)'
          BY <1>8, <3>0, <3>2, <3>3 DEF UpdateAttendeeResponse, CalInv, EventInv, Kept
        <4> QED
          BY <4>1, <4>2
      <3>6. /\ row.resp[a] = replies[m].status
            /\ \A b \in Repliers \ {a} : row.resp[b] = events[Organizer].resp[b]
        BY <2>1, <3>0, <3>2
      <3>7. \A b \in Repliers \ {a} : SameAnswer(b)
        BY <2>1, <3>0, <3>3, <3>6 DEF SameAnswer
      <3>8. AnswerInv(a)'
        <4>1. SUFFICES ASSUME a \notin mixed'
                       PROVE  AnswerInv(a)'
          BY DEF AnswerInv
        <4>2. \A n \in ReplyMails : n # m /\ replies'[n].who = a => ~Under(n)'
          BY <2>1, <4>1 DEF CalInv, AnswerInv, Under
        <4> QED
          BY <2>1, <2>3, <3>3, <3>6, <4>2 DEF AnswerInv, Under
      <3>9. \A b \in Repliers : AnswerInv(b)'
        BY <3>7, <3>8, AnswerStays DEF CalInv
      <3> QED
        BY <1>b, <3>4, <3>5, <3>9
    <2>4. calEdits \in 0..MaxCalEdits /\ (calEdits < MaxCalEdits => calEdits + 1 \in 0..MaxCalEdits)
      BY <1>t DEF CalTypeOK
    <2> QED
      BY <1>8, <1>t, <2>2, <2>3, <2>4 DEF UpdateAttendeeResponse, CalTypeOK
  <1>9. ASSUME NEW m \in ReplyMails, BroadcastAttendeeResponse(m)
        PROVE  CalInv'
    <2>0. PICK a \in Repliers : a = replies[m].who
      BY <1>t DEF CalTypeOK
    <2>1. /\ replies[m].who = a /\ replies[m].at = "others" /\ replies[m].status \in PartStats
          /\ replies'[m].who = a /\ replies'[m].at = "done"
          /\ \A n \in ReplyMails : n # m => replies'[n] = replies[n]
          /\ replies' \in [ReplyMails -> [who: Repliers, status: PartStats, at: {"sent", "own", "others", "done"}]]
      BY <1>9, <1>t, <2>0 DEF BroadcastAttendeeResponse, CalTypeOK
    <2>2. CASE CalEdit /\ mixed' = mixed \cup {a} /\ events' = events
      <3>1. CalTypeOK' /\ \A o \in Owners : SameEvent(o)
        BY <1>9, <1>t, <1>e, <2>1, <2>2 DEF BroadcastAttendeeResponse, CalTypeOK, SameEvent
      <3>2. \A b \in Repliers \ {a} : SameAnswer(b)
        BY <2>1, <2>2 DEF SameAnswer
      <3>3. AnswerInv(a)'
        BY <2>2 DEF AnswerInv
      <3>4. \A b \in Repliers : AnswerInv(b)'
        BY <3>2, <3>3, AnswerStays DEF CalInv
      <3> QED
        BY <1>b, <3>1, <3>4
    <2>3. CASE events' = AnsweredCopies(m) /\ calEdits' = calEdits /\ mixed' = mixed
      <3>0. Guests \subseteq Owners /\ Organizer \in Owners \ Guests
        BY DEF Owners
      <3>1. \A o \in Guests \cap Kept : events[o] \in EventRow /\ events[o].resp \in [Repliers -> PartStats \cup {Null}]
        BY <1>t DEF CalTypeOK, Kept, EventRow
      <3>2. \A o \in Guests \cap Kept :
              /\ Answered(o, m) \in EventRow
              /\ Answered(o, m).start = events[o].start /\ Answered(o, m).sent = events[o].sent
              /\ Answered(o, m).cancelled = events[o].cancelled
              /\ Answered(o, m).resp = [events[o].resp EXCEPT ![a] = replies[m].status]
        BY <2>1, <3>1 DEF Answered, EventRow
      <3>3. \A o \in Owners : events'[o] = IF o \in Guests \cap Kept THEN Answered(o, m) ELSE events[o]
        BY <2>3 DEF AnsweredCopies
      <3>4. events' \in [Owners -> EventRow \cup {Gone}]
        <4>1. \A o \in Owners : events'[o] \in EventRow \cup {Gone}
          BY <1>t, <3>2, <3>3, ZenonT(60) DEF CalTypeOK
        <4> QED
          BY <2>3, <4>1 DEF AnsweredCopies
      <3>5. CalTypeOK'
        BY <1>9, <1>t, <2>1, <2>3, <3>4 DEF BroadcastAttendeeResponse, CalTypeOK
      <3>6. \A o \in Owners : events'[o] # Gone => /\ events[o] # Gone /\ events'[o].start = events[o].start
                                                   /\ events'[o].sent = events[o].sent
                                                   /\ events'[o].cancelled = events[o].cancelled
        BY <3>2, <3>3 DEF Kept
      <3>7. \A o \in Owners : EventInv(o)'
        BY <1>9, <3>6 DEF BroadcastAttendeeResponse, CalInv, EventInv, Kept
      <3>r. ASSUME NEW o \in Owners, events'[o] # Gone
            PROVE  /\ events[o] # Gone
                   /\ o \in Guests => events'[o].resp[a] = replies[m].status
                   /\ \A b \in Repliers \ {a} : events'[o].resp[b] = events[o].resp[b]
        <4>1. CASE o \in Guests \cap Kept
          <5>1. events'[o].resp = [events[o].resp EXCEPT ![a] = replies[m].status]
            BY <3>2, <3>3, <4>1
          <5>2. events[o].resp \in [Repliers -> PartStats \cup {Null}] /\ events[o] # Gone
            BY <3>1, <4>1 DEF Kept
          <5> QED
            BY <5>1, <5>2
        <4>2. CASE o \notin Guests \cap Kept
          BY <3>r, <3>3, <4>2 DEF Kept
        <4> QED
          BY <4>1, <4>2
      <3>8. \A b \in Repliers \ {a} : SameAnswer(b)
        BY <2>1, <2>3, <3>r DEF SameAnswer
      <3>9. AnswerInv(a)'
        <4>1. SUFFICES ASSUME a \notin mixed'
                       PROVE  AnswerInv(a)'
          BY DEF AnswerInv
        <4>2. \A n \in ReplyMails : replies'[n].who = a => ~Under(n)'
          BY <2>1, <2>3, <4>1 DEF CalInv, AnswerInv, Under
        <4>3. /\ Organizer \in Kept' => Organizer \in Kept /\ events'[Organizer].resp[a] = replies[m].status
          BY <2>1, <2>3, <3>0, <3>3, <4>1 DEF CalInv, AnswerInv, Kept
        <4>4. \A g \in Guests : g \in Kept' => events'[g].resp[a] = replies[m].status
          BY <3>0, <3>r DEF Kept
        <4> QED
          BY <4>2, <4>3, <4>4 DEF AnswerInv, Under
      <3>10. \A b \in Repliers : AnswerInv(b)'
        BY <3>8, <3>9, AnswerStays DEF CalInv
      <3> QED
        BY <3>5, <3>7, <3>10 DEF CalInv
    <2> QED
      BY <1>9, <2>0, <2>2, <2>3 DEF BroadcastAttendeeResponse
  <1>10. ASSUME NEW g \in Owners, processICSCancel(g)
         PROVE  CalInv'
    <2>0. events[g] \in EventRow /\ events[g] # Gone /\ events[g].resp \in [Repliers -> PartStats \cup {Null}]
      BY <1>10, <1>t DEF processICSCancel, Kept, CalTypeOK, EventRow
    <2>1. PICK row \in EventRow : row = [events[g] EXCEPT !.cancelled = TRUE]
      BY <2>0 DEF EventRow
    <2>2. /\ row.start = events[g].start /\ row.sent = events[g].sent /\ row.cancelled
          /\ row.resp = events[g].resp
      BY <2>0, <2>1 DEF EventRow
    <2>3. /\ events'[g] = row /\ \A q \in Owners : q # g => events'[q] = events[q]
          /\ events' \in [Owners -> EventRow \cup {Gone}]
      BY <1>10, <1>t, <2>0, <2>1 DEF processICSCancel, CalTypeOK
    <2>4. CalTypeOK'
      BY <1>10, <1>t, <2>3 DEF processICSCancel, CalTypeOK
    <2>5. \A a \in Repliers : SameAnswer(a)
      BY <1>10, <2>0, <2>2, <2>3 DEF processICSCancel, SameAnswer
    <2>6. EventInv(g)'
      BY <1>10, <2>0, <2>2, <2>3 DEF processICSCancel, CalInv, EventInv, Kept
    <2>7. \A o \in Owners : o # g => SameEvent(o)
      BY <1>10, <2>3 DEF processICSCancel, SameEvent
    <2> QED
      BY <1>a, <2>4, <2>5, <2>6, <2>7, EventStays DEF CalInv
  <1>11. CASE ListDueReminders
    <2>1. \A o \in Owners : Due(o) => events[o] \in EventRow /\ events[o].start \in Times
      BY <1>t DEF CalTypeOK, Due, Kept, EventRow
    <2>2. listed' \in [Owners -> Times \cup {Null}]
      BY <1>11, <2>1 DEF ListDueReminders
    <2>3. CalTypeOK'
      BY <1>11, <1>t, <2>2 DEF ListDueReminders, CalTypeOK
    <2>4. \A a \in Repliers : SameAnswer(a)
      BY <1>11 DEF ListDueReminders, SameAnswer
    <2>5. ASSUME NEW o \in Owners
          PROVE  EventInv(o)'
      <3>1. o \notin toMark /\ EventInv(o)
        BY <1>11 DEF ListDueReminders, CalInv, EventInv
      <3>2. listed'[o] = IF Due(o) THEN events[o].start ELSE Null
        BY <1>11 DEF ListDueReminders
      <3> QED
        BY <1>11, <3>1, <3>2 DEF ListDueReminders, Due, EventInv, Kept
    <2> QED
      BY <1>a, <2>3, <2>4, <2>5
  <1>s. ASSUME NEW o \in Owners, SendReminder(o)
        PROVE  CalInv'
    <2>0. listed[o] \in Times
      BY <1>s, <1>t DEF SendReminder, CalTypeOK
    <2>1. CalTypeOK'
      BY <1>s, <1>t, <2>0 DEF SendReminder, CalTypeOK
    <2>2. \A a \in Repliers : SameAnswer(a)
      BY <1>s DEF SendReminder, SameAnswer
    <2>3. EventInv(o)' /\ \A q \in Owners : q # o => SameEvent(q)
      BY <1>s DEF SendReminder, SameEvent, CalInv, EventInv, Kept
    <2> QED
      BY <1>a, <2>1, <2>2, <2>3, EventStays DEF CalInv
  <1>12. ASSUME NEW o \in Owners, MarkReminderSent(o)
         PROVE  CalInv'
    <2>0. /\ listed[o] # Null /\ <<o, listed[o]>> \in reminded
      BY <1>12 DEF MarkReminderSent, CalInv, EventInv
    <2>1. /\ listed' \in [Owners -> Times \cup {Null}] /\ listed'[o] = Null /\ o \notin toMark'
          /\ \A q \in Owners : q # o => listed'[q] = listed[q] /\ (q \in toMark' <=> q \in toMark)
          /\ reminded' = reminded /\ calEdits' \in 0..MaxCalEdits
      BY <1>12, <1>t, <1>e DEF MarkReminderSent, CalTypeOK
    <2>4. CASE events' = events /\ overrun' = overrun \ {o}
      <3>1. CalTypeOK' /\ EventInv(o)' /\ \A q \in Owners : q # o => SameEvent(q)
        BY <1>12, <1>t, <2>1, <2>4 DEF MarkReminderSent, CalTypeOK, SameEvent, CalInv, EventInv, Kept
      <3>2. \A a \in Repliers : SameAnswer(a)
        BY <1>12, <2>4 DEF MarkReminderSent, SameAnswer
      <3> QED
        BY <1>a, <3>1, <3>2, EventStays DEF CalInv
    <2> DEFINE marked == /\ events' = IF o \in Kept THEN [events EXCEPT ![o].sent = TRUE] ELSE events
                         /\ UNCHANGED <<calEdits, overrun>>
    <2>2. CASE marked /\ o \notin Kept
      <3>1. CalTypeOK' /\ EventInv(o)' /\ \A q \in Owners : q # o => SameEvent(q)
        BY <1>12, <1>t, <2>1, <2>2 DEF MarkReminderSent, CalTypeOK, SameEvent, EventInv, Kept
      <3>2. \A a \in Repliers : SameAnswer(a)
        BY <1>12, <2>2 DEF MarkReminderSent, SameAnswer
      <3> QED
        BY <1>a, <3>1, <3>2, EventStays DEF CalInv
    <2>3. CASE marked /\ o \in Kept
      <3>0. events[o] \in EventRow /\ events[o] # Gone
        BY <1>t, <2>3 DEF Kept, CalTypeOK
      <3>1. PICK row \in EventRow : row = [events[o] EXCEPT !.sent = TRUE]
        BY <3>0 DEF EventRow
      <3>2. /\ row.start = events[o].start /\ row.sent /\ row.cancelled = events[o].cancelled
            /\ row.resp = events[o].resp
        BY <3>0, <3>1 DEF EventRow
      <3>3. /\ events'[o] = row /\ \A q \in Owners : q # o => events'[q] = events[q]
            /\ events' \in [Owners -> EventRow \cup {Gone}]
        BY <1>12, <1>t, <2>3, <3>0, <3>1 DEF MarkReminderSent, CalTypeOK
      <3>4. CalTypeOK'
        BY <1>12, <1>t, <2>1, <3>3 DEF MarkReminderSent, CalTypeOK
      <3>5. \A a \in Repliers : SameAnswer(a)
        BY <1>12, <3>0, <3>2, <3>3 DEF MarkReminderSent, SameAnswer
      <3>6. EventInv(o)'
        BY <1>12, <2>0, <2>1, <2>3, <3>2, <3>3 DEF MarkReminderSent, CalInv, EventInv, Kept
      <3>7. \A q \in Owners : q # o => SameEvent(q)
        BY <1>12, <2>1, <2>3, <3>3 DEF MarkReminderSent, SameEvent
      <3> QED
        BY <1>a, <3>4, <3>5, <3>6, <3>7, EventStays DEF CalInv
    <2> QED
      BY <1>12, <2>2, <2>3, <2>4 DEF MarkReminderSent
  <1> QED
    BY <1>1, <1>2, <1>3, <1>4, <1>5, <1>6, <1>7, <1>8, <1>9, <1>10, <1>11, <1>s, <1>12 DEF CalNext

LEMMA CalTruthful == CalInv => CalTypeOK /\ CalendarTruthful
  <1> SUFFICES ASSUME CalInv
               PROVE  CalTypeOK /\ CalendarTruthful
    OBVIOUS
  <1>1. ASSUME \A m \in ReplyMails : ~Under(m), NEW a \in Repliers \ mixed, NEW g \in Guests,
               {Organizer, g} \subseteq Kept
        PROVE  events[g].resp[a] = events[Organizer].resp[a]
    BY <1>1 DEF CalInv, AnswerInv, Under
  <1>2. /\ \A o \in Kept \ overrun : events[o].sent => <<o, events[o].start>> \in reminded
        /\ \A o \in (callOffs \cap Kept) \ revived : events[o].cancelled
    BY DEF CalInv, EventInv, Kept
  <1> QED
    BY <1>1, <1>2 DEF CalInv, CalendarTruthful

-----------------------------------------------------------------------------
(* Contacts.                                                               *)

FillRec == [pc: {"idle", "check", "update", "merge", "fields", "rewire", "drop"}, canon: RowIDs,
            facts: SUBSET Facts, groups: SUBSET ContactGroups]

(* Whether row c tells x, and whether any row does.                        *)
Tells(c, x) == c \in ContactRows /\ (x \in book[c].facts \/ x \in book[c].groups)
Shown(x) == \E c \in RowIDs : Tells(c, x)

(* What the rows show was given, also where the merge dropped it before.   *)
ShownInv(x) ==
    x \notin crossing =>
      /\ Shown(x) => x \in given
      /\ x \in given /\ x \notin dropped => Shown(x)

(* What the open transaction has copied is what the old row still tells,   *)
(* short of later changes to it; the row it merges into, if there was one, *)
(* is held.                                                                *)
FillInv ==
    /\ fill.pc \in {"check", "merge", "fields"} => fill.facts = {}
    /\ fill.pc \in {"merge", "fields"} => fill.canon # OldRow
    /\ fill.pc \in {"rewire", "drop"} =>
         /\ fill.canon # OldRow => /\ fill.canon \in ContactRows
                                   /\ \A x \in Merged \ crossing : x \in fill.facts <=> Tells(OldRow, x)
         /\ fill.canon = OldRow => fill.facts = {}
         /\ fill.facts \subseteq Merged
    /\ fill.pc = "drop" /\ fill.canon = OldRow => fill.groups = {}
    /\ fill.pc = "drop" => \A g \in ContactGroups \ crossing : g \in fill.groups <=> Tells(OldRow, g)

BookInv == BookTypeOK /\ FillInv /\ \A x \in Facts \cup ContactGroups : ShownInv(x)

LEMMA BookPart ==
    ASSUME [StoresNext]_storesVars
    PROVE  [BookNext]_bookVars
  BY DEF StoresNext, Only, storesVars

LEMMA BookStart == BookInit => BookInv
  <1> SUFFICES ASSUME BookInit
               PROVE  BookInv
    OBVIOUS
  <1> USE ContactsAssumption DEF BookInit
  <1>1. book \in [RowIDs -> ContactRow \cup {Null, Gone}] /\ OldRow \in RowIDs
    BY DEF ContactRow, RowIDs
  <1>2. fill \in FillRec /\ fill.pc = "idle"
    BY <1>1 DEF FillRec, IdleFill
  <1>3. BookTypeOK
    BY <1>1, <1>2 DEF BookTypeOK, FillRec
  <1>4. \A x : ~Shown(x)
    BY DEF Shown, Tells, ContactRows
  <1> QED
    BY <1>2, <1>3, <1>4 DEF BookInv, FillInv, ShownInv

(* A row that gets a new value.                                            *)
LEMMA ContactWritten ==
    ASSUME BookTypeOK, NEW c \in RowIDs, NEW row \in ContactRow, book' = [book EXCEPT ![c] = row]
    PROVE  /\ book' \in [RowIDs -> ContactRow \cup {Null, Gone}]
           /\ ContactRows' = ContactRows \cup {c} /\ book'[c] = row
           /\ \A d \in RowIDs \ {c} : book'[d] = book[d]
           /\ \A x : Tells(c, x)' <=> x \in row.facts \/ x \in row.groups
           /\ \A x : \A d \in RowIDs \ {c} : Tells(d, x)' <=> Tells(d, x)
  <1>1. /\ book' \in [RowIDs -> ContactRow \cup {Null, Gone}] /\ book'[c] = row
        /\ \A d \in RowIDs \ {c} : book'[d] = book[d]
    BY DEF BookTypeOK
  <1>2. row \notin {Null, Gone}
    BY ContactsAssumption
  <1>3. ContactRows' = ContactRows \cup {c}
    BY <1>1, <1>2 DEF ContactRows
  <1> QED
    BY <1>1, <1>3 DEF Tells

LEMMA ContactTyped ==
    ASSUME BookTypeOK, NEW c \in ContactRows
    PROVE  /\ c \in RowIDs /\ book[c] \in ContactRow
           /\ book[c].facts \in SUBSET Facts /\ book[c].groups \in SUBSET ContactGroups
  <1>1. c \in RowIDs /\ book[c] \in ContactRow
    BY DEF BookTypeOK, ContactRows
  <1> QED
    BY <1>1 DEF ContactRow

LEMMA BookStep ==
    ASSUME BookInv, [BookNext]_bookVars
    PROVE  BookInv'
  <1> USE ContactsAssumption
  <1>t. BookTypeOK /\ FillInv /\ fill \in FillRec /\ OldRow \in RowIDs /\ NewRows \subseteq RowIDs
    BY DEF BookInv, BookTypeOK, FillRec, RowIDs
  <1>i. IdleFill \in FillRec /\ IdleFill.pc = "idle"
    BY <1>t DEF IdleFill, FillRec
  <1>c. BookCall => cCalls' \in 0..MaxContactCalls
    BY <1>t DEF BookCall, BookTypeOK
  <1>g. given \subseteq Facts \cup ContactGroups /\ crossing \subseteq Facts \cup ContactGroups
    BY <1>t DEF BookTypeOK
  <1>o. ASSUME NEW c \in RowIDs, NEW x
        PROVE  x \in AboutElsewhere(c) <=> \E d \in RowIDs \ {c} : Tells(d, x)
    BY DEF AboutElsewhere, About, Tells, ContactRows
  (* The rows stay as they are, and the backfill goes on. *)
  <1>f. ASSUME book' = book, cGroups' \subseteq ContactGroups, adding' \subseteq Adders, cCalls' \in 0..MaxContactCalls,
               mFaults' \in 0..MaxMergeFaults, UNCHANGED <<given, crossing, dropped>>, fill' \in FillRec, FillInv'
        PROVE  BookInv'
    <2>1. BookTypeOK'
      BY <1>f, <1>t DEF BookTypeOK, FillRec
    <2>2. \A x \in Facts \cup ContactGroups : ShownInv(x)'
      BY <1>f DEF BookInv, ShownInv, Shown, Tells, ContactRows
    <2> QED
      BY <1>f, <2>1, <2>2 DEF BookInv
  <1>b. cCalls \in 0..MaxContactCalls /\ mFaults \in 0..MaxMergeFaults /\ cGroups \subseteq ContactGroups /\ adding \subseteq Adders
    BY <1>t DEF BookTypeOK
  <1>1. CASE UNCHANGED bookVars
    BY <1>1, <1>b, <1>f, <1>t DEF bookVars, FillInv, Tells, ContactRows
  <1>2. CASE ListPending
    <2>1. fill' \in FillRec /\ fill'.pc = "check" /\ fill'.facts = {}
      BY <1>2, <1>i DEF ListPending, FillStep, FillRec, IdleFill
    <2>2. FillInv'
      BY <2>1 DEF FillInv
    <2> QED
      BY <1>2, <1>b, <1>f, <2>1, <2>2 DEF ListPending, bookGhosts
  <1>3. CASE FindSibling
    <2>0. fill.pc = "check" /\ fill.facts = {}
      BY <1>3, <1>t DEF FindSibling, FillStep, FillInv
    <2>1. /\ fill' \in FillRec /\ (fill'.pc = "update" \/ (fill'.pc = "merge" /\ fill'.canon # OldRow))
          /\ fill'.facts = {}
      BY <1>3, <1>t, <2>0, ZenonT(40) DEF FindSibling, FillStep, FillRec, Indexed, ContactRows
    <2>2. FillInv'
      BY <2>1 DEF FillInv
    <2> QED
      BY <1>3, <1>b, <1>f, <2>1, <2>2, ZenonT(40) DEF FindSibling, bookGhosts
  <1>4. CASE BackfillEncryptedAddresses
    <2>1. fill' \in FillRec /\ fill'.pc = "idle"
      BY <1>4, <1>i DEF BackfillEncryptedAddresses, FillStep
    <2>2. FillInv'
      BY <2>1 DEF FillInv
    <2>3. CASE book' = book
      BY <1>4, <1>b, <1>f, <2>1, <2>2, <2>3 DEF BackfillEncryptedAddresses, bookGhosts
    <2>4. CASE OldRow \in ContactRows /\ book' = [book EXCEPT ![OldRow].indexed = TRUE]
      <3>1. book[OldRow] \in ContactRow
        BY <1>t, <2>4, ContactTyped
      <3>2. PICK row \in ContactRow : row = [book[OldRow] EXCEPT !.indexed = TRUE]
        BY <3>1 DEF ContactRow
      <3>3. row.facts = book[OldRow].facts /\ row.groups = book[OldRow].groups
        BY <3>1, <3>2 DEF ContactRow
      <3>4. book' = [book EXCEPT ![OldRow] = row]
        BY <1>t, <2>4, <3>2 DEF BookTypeOK
      <3>5. /\ book' \in [RowIDs -> ContactRow \cup {Null, Gone}]
            /\ \A x : \A d \in RowIDs : Tells(d, x)' <=> Tells(d, x)
        <4>1. /\ book' \in [RowIDs -> ContactRow \cup {Null, Gone}]
              /\ \A x : Tells(OldRow, x)' <=> x \in row.facts \/ x \in row.groups
              /\ \A x : \A d \in RowIDs \ {OldRow} : Tells(d, x)' <=> Tells(d, x)
          BY <1>t, <3>4, ContactWritten
        <4>2. \A x : Tells(OldRow, x)' <=> Tells(OldRow, x)
          BY <2>4, <3>3, <4>1 DEF Tells
        <4> QED
          BY <4>1, <4>2
      <3>6. BookTypeOK'
        BY <1>4, <1>t, <2>1, <3>5 DEF BackfillEncryptedAddresses, bookGhosts, BookTypeOK, FillRec
      <3>7. \A x \in Facts \cup ContactGroups : ShownInv(x)'
        BY <1>4, <3>5 DEF BackfillEncryptedAddresses, bookGhosts, BookInv, ShownInv, Shown
      <3> QED
        BY <2>2, <3>6, <3>7 DEF BookInv
    <2> QED
      BY <1>4, <2>3, <2>4 DEF BackfillEncryptedAddresses
  <1>k. CASE CheckOwners
    <2>1. fill.pc = "merge" /\ (fill' = IdleFill \/ fill' = [fill EXCEPT !.pc = "fields"])
      BY <1>k DEF CheckOwners, FillStep
    <2>2. CASE fill' = IdleFill
      BY <1>k, <1>b, <1>f, <1>i, <2>2 DEF CheckOwners, bookGhosts, FillInv
    <2>3. CASE fill' = [fill EXCEPT !.pc = "fields"]
      <3>1. fill' \in FillRec /\ fill'.pc = "fields" /\ fill'.canon = fill.canon /\ fill'.facts = fill.facts
        BY <1>t, <2>3 DEF FillRec
      <3>2. FillInv'
        BY <1>t, <2>1, <3>1 DEF FillInv
      <3> QED
        BY <1>k, <1>b, <1>f, <3>1, <3>2 DEF CheckOwners, bookGhosts
    <2> QED
      BY <2>1, <2>2, <2>3
  <1>5. CASE MergeFields
    <2>1. CASE fill' = [fill EXCEPT !.pc = "rewire", !.canon = OldRow] /\ fill.pc = "fields"
      <3>1. fill' \in FillRec /\ fill'.pc = "rewire" /\ fill'.canon = OldRow /\ fill'.facts = fill.facts
        BY <1>t, <2>1 DEF FillRec
      <3>2. fill.facts = {}
        BY <1>t, <2>1 DEF FillInv
      <3>3. FillInv'
        BY <3>1, <3>2 DEF FillInv
      <3> QED
        BY <1>5, <1>b, <1>f, <3>1, <3>3 DEF MergeFields, bookGhosts
    <2>2. CASE /\ {OldRow, fill.canon} \subseteq ContactRows /\ fill.pc = "fields"
               /\ fill' = [fill EXCEPT !.pc = "rewire", !.facts = book[OldRow].facts \cap Merged]
      <3>1. book[OldRow].facts \in SUBSET Facts /\ book[OldRow].groups \in SUBSET ContactGroups
        BY <1>t, <2>2, ContactTyped
      <3>2. fill' \in FillRec /\ fill'.pc = "rewire" /\ fill'.canon = fill.canon /\ fill'.facts = book[OldRow].facts \cap Merged
        BY <1>t, <2>2, <3>1 DEF FillRec
      <3>3. book' = book /\ ContactRows' = ContactRows
        BY <1>5 DEF MergeFields, ContactRows
      <3>4. \A x \in Merged : x \in fill'.facts <=> Tells(OldRow, x)'
        BY <2>2, <3>1, <3>2, <3>3 DEF Tells, Facts
      <3>5. FillInv'
        BY <1>t, <2>2, <3>2, <3>3, <3>4 DEF FillInv
      <3> QED
        BY <1>5, <1>b, <1>f, <3>2, <3>5 DEF MergeFields, bookGhosts
    <2> QED
      BY <1>5, <2>1, <2>2 DEF MergeFields, FillStep
  <1>6. CASE RewireMembers
    <2>0. SUFFICES ASSUME fill' # IdleFill
                   PROVE  BookInv'
      BY <1>6, <1>b, <1>f, <1>i DEF RewireMembers, bookGhosts, FillInv
    <2>1. Rewired \in SUBSET ContactGroups /\ (fill.canon = OldRow => Rewired = {})
      BY <1>6, <1>t, <2>0, ContactTyped DEF Rewired, RewireMembers, FillStep
    <2>2. /\ fill.pc = "rewire" /\ fill' \in FillRec /\ fill'.pc = "drop" /\ fill'.canon = fill.canon
          /\ fill'.facts = fill.facts /\ fill'.groups = Rewired
      BY <1>6, <1>t, <2>0, <2>1 DEF RewireMembers, FillStep, FillRec
    <2>3. book' = book /\ ContactRows' = ContactRows /\ crossing' = crossing /\ \A c, x : Tells(c, x)' <=> Tells(c, x)
      BY <1>6 DEF RewireMembers, ContactRows, bookGhosts, Tells
    <2>4. \A g \in ContactGroups : g \in Rewired <=> Tells(OldRow, g)
      BY <1>t, ContactTyped DEF Rewired, Tells
    <2>5. FillInv'
      BY <1>t, <2>1, <2>2, <2>3, <2>4 DEF FillInv
    <2> QED
      BY <1>6, <1>b, <1>f, <2>2, <2>5 DEF RewireMembers, bookGhosts
  <1>7. CASE MergeFails
    <2>1. mFaults' \in 0..MaxMergeFaults
      BY <1>7, <1>b DEF MergeFails
    <2> QED
      BY <1>7, <1>b, <1>f, <1>i, <2>1 DEF MergeFails, bookGhosts, FillInv
  <1>8. ASSUME NEW a \in Adders, AutoAddCheck(a)
        PROVE  BookInv'
    BY <1>8, <1>b, <1>f, <1>t DEF AutoAddCheck, FillInv, Tells, ContactRows
  (* A row is added. *)
  <1>9. ASSUME NEW c \in NewRows, NEW X \in SUBSET Merged, CreateContact(c, X), adding' \subseteq Adders,
               cCalls' \in 0..MaxContactCalls, UNCHANGED <<cGroups, fill, mFaults, crossing, dropped>>
        PROVE  BookInv'
    <2>1. CASE Indexed # {}
      BY <1>9, <1>b, <1>f, <1>t, <2>1 DEF CreateContact, FillInv, Tells, ContactRows
    <2>2. CASE Indexed = {}
      <3>1. PICK row \in ContactRow : row = [indexed |-> TRUE, facts |-> X, groups |-> {}]
        BY DEF ContactRow, Facts
      <3>2. /\ book' = [book EXCEPT ![c] = row] /\ given' = given \cup X /\ c \in RowIDs /\ c # OldRow /\ c \notin ContactRows
        BY <1>9, <1>t, <2>2, <3>1 DEF CreateContact, ContactRows
      <3>3. /\ book' \in [RowIDs -> ContactRow \cup {Null, Gone}] /\ ContactRows' = ContactRows \cup {c}
            /\ \A x : Tells(c, x)' <=> x \in X
            /\ \A x : \A d \in RowIDs \ {c} : Tells(d, x)' <=> Tells(d, x)
        <4>1. row.facts = X /\ row.groups = {}
          BY <3>1
        <4> QED
          BY <1>t, <3>2, <4>1, ContactWritten
      <3>4. BookTypeOK'
        BY <1>9, <1>t, <3>2, <3>3 DEF BookTypeOK, Facts
      <3>5. FillInv'
        BY <1>9, <1>t, <3>2, <3>3 DEF FillInv
      <3>6. \A x : Shown(x)' <=> Shown(x) \/ x \in X
        BY <3>2, <3>3 DEF Shown, Tells
      <3>7. \A x \in Facts \cup ContactGroups : ShownInv(x)'
        BY <1>9, <3>2, <3>6 DEF BookInv, ShownInv
      <3> QED
        BY <3>4, <3>5, <3>7 DEF BookInv
    <2> QED
      BY <2>1, <2>2
  <1>10. ASSUME NEW c \in RowIDs, NEW X \in SUBSET Merged, CreateByUser(c, X)
         PROVE  BookInv'
    BY <1>9, <1>10, <1>b, <1>c DEF CreateByUser
  <1>11. ASSUME NEW a \in Adders, NEW c \in NewRows, AutoAdd(a, c)
         PROVE  BookInv'
    <2>1. {} \in SUBSET Merged
      OBVIOUS
    <2> QED
      BY <1>9, <1>11, <1>b, <2>1 DEF AutoAdd
  (* A row changes. *)
  <1>12. ASSUME NEW c \in RowIDs, NEW x \in Facts, NEW set \in BOOLEAN, UpdateContact(c, x, set)
         PROVE  BookInv'
    <2>1. c \in ContactRows /\ ~Locked(c) /\ book[c] \in ContactRow /\ book[c].facts \in SUBSET Facts
      BY <1>12, <1>t, ContactTyped DEF UpdateContact
    <2>2. PICK row \in ContactRow : row = [book[c] EXCEPT !.facts = IF set THEN @ \cup {x} ELSE @ \ {x}]
      BY <2>1 DEF ContactRow
    <2>3. row.groups = book[c].groups /\ row.facts = IF set THEN book[c].facts \cup {x} ELSE book[c].facts \ {x}
      BY <2>1, <2>2 DEF ContactRow
    <2>4. book' = [book EXCEPT ![c] = row]
      BY <1>12, <1>t, <2>2 DEF UpdateContact, BookTypeOK
    <2>5. /\ book' \in [RowIDs -> ContactRow \cup {Null, Gone}] /\ ContactRows' = ContactRows
          /\ \A y : Tells(c, y)' <=> y \in row.facts \/ y \in row.groups
          /\ \A y : \A d \in RowIDs \ {c} : Tells(d, y)' <=> Tells(d, y)
      <3>1. ContactRows \cup {c} = ContactRows
        BY <2>1
      <3> QED
        BY <1>t, <2>4, <3>1, ContactWritten
    <2>6. x \notin row.groups /\ \A y : y # x => (Tells(c, y)' <=> Tells(c, y))
      <3>1. book[c].groups \in SUBSET ContactGroups
        BY <1>t, <2>1, ContactTyped
      <3> QED
        BY <2>1, <2>3, <2>5, <3>1 DEF Tells
    <2>7. /\ given' = (IF set THEN given \cup {x} ELSE given \ ({x} \ AboutElsewhere(c)))
          /\ crossing' = (IF FactsCopied(c) THEN crossing \cup {x} ELSE crossing)
          /\ dropped' = dropped \ {x} /\ cCalls' \in 0..MaxContactCalls
          /\ UNCHANGED <<cGroups, adding, fill, mFaults>>
      BY <1>12, <1>c DEF UpdateContact
    <2>8. BookTypeOK'
      BY <1>t, <2>5, <2>7 DEF BookTypeOK
    <2>9. FillInv'
      <3>1. ASSUME NEW y, y \notin crossing', c = OldRow, fill.pc \in {"rewire", "drop"}
            PROVE  Tells(c, y)' <=> Tells(c, y)
        BY <2>6, <2>7, <3>1 DEF FactsCopied
      <3>2. ASSUME NEW y, y \notin crossing', fill.pc \in {"rewire", "drop"}
            PROVE  y \notin crossing /\ (Tells(OldRow, y)' <=> Tells(OldRow, y))
        BY <1>t, <2>5, <2>7, <3>1, <3>2
      <3> QED
        BY <1>t, <2>5, <2>7, <3>2 DEF FillInv
    <2>10. ASSUME NEW y \in Facts \cup ContactGroups
           PROVE  ShownInv(y)'
      <3>1. ShownInv(y) /\ crossing \subseteq crossing'
        BY <2>7 DEF BookInv
      <3>2. CASE y # x
        <4>1. Shown(y)' <=> Shown(y)
          BY <2>5, <2>6, <3>2 DEF Shown
        <4> QED
          BY <2>7, <3>1, <3>2, <4>1 DEF ShownInv
      <3>3. CASE y = x
        <4>1. CASE set
          BY <2>3, <2>5, <2>7, <3>3, <4>1 DEF ShownInv, Shown
        <4>2. CASE ~set
          <5>1. ~Tells(c, x)'
            BY <2>3, <2>5, <2>6, <4>2
          <5>2. Shown(x)' <=> \E d \in RowIDs \ {c} : Tells(d, x)
            BY <2>5, <5>1 DEF Shown
          <5>3. x \in given' <=> x \in given /\ Shown(x)'
            BY <1>o, <2>7, <4>2, <5>2
          <5>4. Shown(x)' => Shown(x)
            BY <5>2 DEF Shown
          <5> QED
            BY <2>7, <3>1, <3>3, <5>3, <5>4 DEF ShownInv
        <4> QED
          BY <4>1, <4>2
      <3> QED
        BY <3>2, <3>3
    <2> QED
      BY <2>8, <2>9, <2>10 DEF BookInv
  <1>13. ASSUME NEW c \in RowIDs, DeleteContact(c)
         PROVE  BookInv'
    <2>1. /\ c \in ContactRows /\ ~Locked(c) /\ book' = [book EXCEPT ![c] = Gone] /\ cCalls' \in 0..MaxContactCalls
          /\ given' = given \ (About(c) \ AboutElsewhere(c)) /\ crossing \subseteq crossing'
          /\ UNCHANGED <<cGroups, adding, fill, mFaults, dropped>>
      BY <1>13, <1>c DEF DeleteContact
    <2>2. book[c].facts \in SUBSET Facts /\ book[c].groups \in SUBSET ContactGroups
      BY <1>t, <2>1, ContactTyped
    <2>3. /\ book' \in [RowIDs -> ContactRow \cup {Null, Gone}] /\ ContactRows' = ContactRows \ {c}
          /\ \A y : ~Tells(c, y)'
          /\ \A y : \A d \in RowIDs \ {c} : Tells(d, y)' <=> Tells(d, y)
      BY <1>t, <2>1 DEF BookTypeOK, ContactRows, Tells
    <2>4. crossing' \in SUBSET (Facts \cup ContactGroups)
      BY <1>13, <1>g, <2>2 DEF DeleteContact
    <2>5. BookTypeOK'
      BY <1>t, <2>1, <2>3, <2>4 DEF BookTypeOK
    <2>6. FillInv'
      <3>1. ASSUME NEW x \in Merged, x \notin crossing', fill.pc \in {"rewire", "drop"}
            PROVE  Tells(OldRow, x)' <=> Tells(OldRow, x)
        <4>1. CASE c = OldRow
          <5>1. x \notin book[c].facts
            BY <1>13, <3>1, <4>1 DEF DeleteContact, FactsCopied
          <5>2. x \notin book[c].groups
            BY <2>2 DEF Facts
          <5> QED
            BY <2>3, <4>1, <5>1, <5>2 DEF Tells
        <4> QED
          BY <1>t, <2>3, <4>1
      <3>2. ASSUME NEW g \in ContactGroups, g \notin crossing', fill.pc = "drop"
            PROVE  Tells(OldRow, g)' <=> Tells(OldRow, g)
        <4>1. CASE c = OldRow
          <5>1. g \notin book[c].groups
            BY <1>13, <3>2, <4>1 DEF DeleteContact, GroupsCopied
          <5>2. g \notin book[c].facts
            BY <2>2
          <5> QED
            BY <2>3, <4>1, <5>1, <5>2 DEF Tells
        <4> QED
          BY <1>t, <2>3, <4>1
      <3>3. fill.pc \in {"rewire", "drop"} /\ fill.canon # OldRow => fill.canon \in ContactRows'
        BY <1>t, <2>1, <2>3 DEF FillInv, Locked
      <3> QED
        BY <1>t, <2>1, <3>1, <3>2, <3>3 DEF FillInv
    <2>7. ASSUME NEW y \in Facts \cup ContactGroups
          PROVE  ShownInv(y)'
      <3>1. ShownInv(y)
        BY DEF BookInv
      <3>2. y \in About(c) <=> Tells(c, y)
        BY <2>1 DEF About, Tells
      <3>3. Shown(y)' <=> \E d \in RowIDs \ {c} : Tells(d, y)
        BY <2>3 DEF Shown
      <3>4. y \in given' <=> y \in given /\ (Tells(c, y) => Shown(y)')
        BY <1>o, <2>1, <3>2, <3>3
      <3>5. Shown(y) <=> Shown(y)' \/ Tells(c, y)
        BY <3>3 DEF Shown
      <3> QED
        BY <2>1, <3>1, <3>4, <3>5 DEF ShownInv
    <2> QED
      BY <2>5, <2>6, <2>7 DEF BookInv
  <1>14. ASSUME NEW g \in ContactGroups, NEW c \in RowIDs, AddGroupMember(g, c) \/ RemoveGroupMember(g, c)
         PROVE  BookInv'
    <2>1. c \in ContactRows /\ book[c] \in ContactRow /\ book[c].facts \in SUBSET Facts /\ book[c].groups \in SUBSET ContactGroups
      BY <1>14, <1>t, ContactTyped DEF AddGroupMember, RemoveGroupMember
    <2>2. PICK G \in {book[c].groups \cup {g}, book[c].groups \ {g}} :
            /\ book' = [book EXCEPT ![c].groups = G]
            /\ given' = (IF g \in G THEN given \cup {g} ELSE given \ ({g} \ AboutElsewhere(c)))
      <3>1. CASE AddGroupMember(g, c)
        BY <1>t, <3>1 DEF AddGroupMember, BookTypeOK
      <3>2. CASE RemoveGroupMember(g, c)
        BY <1>t, <3>2 DEF RemoveGroupMember, BookTypeOK
      <3> QED
        BY <1>14, <3>1, <3>2
    <2>3. /\ crossing' = (IF GroupsCopied(c) THEN crossing \cup {g} ELSE crossing) /\ cCalls' \in 0..MaxContactCalls
          /\ UNCHANGED <<cGroups, adding, fill, mFaults, dropped>>
      BY <1>14, <1>c DEF AddGroupMember, RemoveGroupMember
    <2>4. PICK row \in ContactRow : row = [book[c] EXCEPT !.groups = G]
      BY <2>1, <2>2 DEF ContactRow
    <2>5. row.facts = book[c].facts /\ row.groups = G /\ book' = [book EXCEPT ![c] = row]
      BY <1>t, <2>1, <2>2, <2>4 DEF ContactRow, BookTypeOK
    <2>6. /\ book' \in [RowIDs -> ContactRow \cup {Null, Gone}] /\ ContactRows' = ContactRows
          /\ \A y : Tells(c, y)' <=> y \in row.facts \/ y \in row.groups
          /\ \A y : \A d \in RowIDs \ {c} : Tells(d, y)' <=> Tells(d, y)
      <3>1. ContactRows \cup {c} = ContactRows
        BY <2>1
      <3> QED
        BY <1>t, <2>5, <3>1, ContactWritten
    <2>7. /\ g \notin row.facts /\ \A y : y # g => (y \in G <=> y \in book[c].groups)
      BY <2>1, <2>2, <2>5
    <2>8. \A y : y # g => (Tells(c, y)' <=> Tells(c, y))
      BY <2>1, <2>5, <2>6, <2>7 DEF Tells
    <2>9. BookTypeOK'
      BY <1>t, <2>2, <2>3, <2>6 DEF BookTypeOK
    <2>10. FillInv'
      <3>1. \A x \in Merged : Tells(OldRow, x)' <=> Tells(OldRow, x)
        BY <1>t, <2>6, <2>8 DEF Facts
      <3>2. ASSUME NEW y, y \notin crossing', fill.pc = "drop"
            PROVE  y \notin crossing /\ (Tells(OldRow, y)' <=> Tells(OldRow, y))
        BY <1>t, <2>3, <2>6, <2>8, <3>2 DEF GroupsCopied
      <3> QED
        BY <1>t, <2>3, <2>6, <3>1, <3>2 DEF FillInv
    <2>11. ASSUME NEW y \in Facts \cup ContactGroups
           PROVE  ShownInv(y)'
      <3>1. ShownInv(y) /\ crossing \subseteq crossing'
        BY <2>3 DEF BookInv
      <3>2. CASE y # g
        <4>1. Shown(y)' <=> Shown(y)
          BY <2>6, <2>8, <3>2 DEF Shown
        <4> QED
          BY <2>2, <2>3, <3>1, <3>2, <4>1 DEF ShownInv
      <3>3. CASE y = g
        <4>1. CASE g \in G
          BY <2>2, <2>5, <2>6, <3>3, <4>1 DEF ShownInv, Shown
        <4>2. CASE g \notin G
          <5>1. ~Tells(c, g)'
            BY <2>5, <2>6, <2>7, <4>2
          <5>2. Shown(g)' <=> \E d \in RowIDs \ {c} : Tells(d, g)
            BY <2>6, <5>1 DEF Shown
          <5>3. g \in given' <=> g \in given /\ Shown(g)'
            BY <1>o, <2>2, <4>2, <5>2
          <5>4. Shown(g)' => Shown(g)
            BY <5>2 DEF Shown
          <5> QED
            BY <2>3, <3>1, <3>3, <5>3, <5>4 DEF ShownInv
        <4> QED
          BY <4>1, <4>2
      <3> QED
        BY <3>2, <3>3
    <2> QED
      BY <2>9, <2>10, <2>11 DEF BookInv
  <1>15. ASSUME NEW g \in ContactGroups, DeleteContactGroup(g)
         PROVE  BookInv'
    <2>1. /\ g \notin fill.groups /\ cGroups' = cGroups \ {g} /\ given' = given \ {g} /\ cCalls' \in 0..MaxContactCalls
          /\ UNCHANGED <<adding, fill, mFaults, crossing, dropped>>
          /\ book' = [c \in RowIDs |-> IF c \in ContactRows THEN [book[c] EXCEPT !.groups = @ \ {g}] ELSE book[c]]
      BY <1>15, <1>c DEF DeleteContactGroup
    <2>2. ASSUME NEW c \in ContactRows
          PROVE  /\ c \in RowIDs /\ book'[c] \in ContactRow /\ book'[c] \notin {Null, Gone}
                 /\ book'[c].facts = book[c].facts /\ book'[c].groups = book[c].groups \ {g}
      <3>1. c \in RowIDs /\ book[c] \in ContactRow
        BY <1>t, ContactTyped
      <3>2. PICK row \in ContactRow : row = [book[c] EXCEPT !.groups = @ \ {g}]
        BY <3>1 DEF ContactRow
      <3>3. row.facts = book[c].facts /\ row.groups = book[c].groups \ {g}
        BY <3>1, <3>2 DEF ContactRow
      <3> QED
        BY <2>1, <3>1, <3>2, <3>3
    <2>3. book' \in [RowIDs -> ContactRow \cup {Null, Gone}] /\ ContactRows' = ContactRows
      <3>1. \A c \in RowIDs : c \notin ContactRows => book'[c] = book[c] /\ book[c] \in {Null, Gone}
        BY <2>1 DEF ContactRows
      <3>2. \A c \in RowIDs : book'[c] \in ContactRow \cup {Null, Gone}
        BY <2>2, <3>1
      <3> QED
        BY <2>1, <2>2, <3>1, <3>2 DEF ContactRows
    <2>4. \A c \in RowIDs : \A y : y # g => (Tells(c, y)' <=> Tells(c, y))
      BY <2>2, <2>3 DEF Tells
    <2>5. \A c \in RowIDs : ~Tells(c, g)'
      <3>1. \A c \in ContactRows : g \notin book[c].facts
        BY <1>t, ContactTyped
      <3> QED
        BY <2>2, <2>3, <3>1 DEF Tells
    <2>6. BookTypeOK'
      BY <1>t, <2>1, <2>3 DEF BookTypeOK
    <2>7. FillInv'
      <3>1. \A x \in Merged : Tells(OldRow, x)' <=> Tells(OldRow, x)
        BY <1>t, <2>4 DEF Facts
      <3> QED
        BY <1>t, <2>1, <2>3, <2>4, <2>5, <3>1 DEF FillInv
    <2>8. ASSUME NEW y \in Facts \cup ContactGroups
          PROVE  ShownInv(y)'
      <3>1. ShownInv(y) /\ (y # g => (Shown(y)' <=> Shown(y))) /\ ~Shown(g)'
        BY <2>4, <2>5 DEF BookInv, Shown
      <3> QED
        BY <2>1, <3>1 DEF ShownInv
    <2> QED
      BY <2>6, <2>7, <2>8 DEF BookInv
  <1>16. CASE mergeAndDropDuplicateContact
    <2>1. /\ fill.pc = "drop" /\ fill' = IdleFill
          /\ fill.facts \in SUBSET Merged /\ fill.groups \in SUBSET ContactGroups
          /\ UNCHANGED <<cGroups, adding, cCalls, mFaults, given, crossing>>
      BY <1>16, <1>t DEF mergeAndDropDuplicateContact, FillStep, FillInv, FillRec, bookGhosts
    <2>2. fill.canon = OldRow => fill.facts = {} /\ fill.groups = {}
      BY <1>t, <2>1 DEF FillInv
    <2>3. book'[OldRow] = Gone /\ \A d \in RowIDs \ {OldRow, fill.canon} : book'[d] = book[d]
      BY <1>16, <1>t DEF mergeAndDropDuplicateContact
    <2>4. ASSUME NEW c \in RowIDs, c = fill.canon, c # OldRow
          PROVE  /\ c \in ContactRows /\ book'[c] \in ContactRow
                 /\ book'[c].facts = book[c].facts \cup fill.facts
                 /\ book'[c].groups = book[c].groups \cup fill.groups
      <3>1. /\ c \in ContactRows /\ book[c] \in ContactRow
            /\ book[c].facts \in SUBSET Facts /\ book[c].groups \in SUBSET ContactGroups
        BY <1>t, <2>1, <2>4, ContactTyped DEF FillInv
      <3>2. PICK row \in ContactRow :
              row = [book[c] EXCEPT !.facts = @ \cup fill.facts, !.groups = @ \cup fill.groups]
        BY <2>1, <3>1 DEF ContactRow, Facts
      <3>3. row.facts = book[c].facts \cup fill.facts /\ row.groups = book[c].groups \cup fill.groups
        BY <3>1, <3>2 DEF ContactRow
      <3>4. book'[c] = row
        BY <1>16, <2>4, <3>2 DEF mergeAndDropDuplicateContact
      <3> QED
        BY <3>1, <3>3, <3>4
    <2>5. book' \in [RowIDs -> ContactRow \cup {Null, Gone}]
      <3>1. \A d \in RowIDs : book'[d] \in ContactRow \cup {Null, Gone}
        BY <1>t, <2>3, <2>4 DEF BookTypeOK
      <3>2. DOMAIN book' = RowIDs /\ book' = [d \in RowIDs |-> book'[d]]
        BY <1>16 DEF mergeAndDropDuplicateContact
      <3> QED
        BY <3>1, <3>2
    <2>6. OldRow \notin ContactRows' /\ \A d \in RowIDs \ {OldRow} : d \in ContactRows' <=> d \in ContactRows
      BY <2>3, <2>4 DEF ContactRows
    <2>7. /\ \A y : ~Tells(OldRow, y)'
          /\ \A y : \A d \in RowIDs \ {OldRow} :
               Tells(d, y)' <=> Tells(d, y) \/ (d = fill.canon /\ (y \in fill.facts \/ y \in fill.groups))
      BY <2>3, <2>4, <2>6 DEF Tells
    <2>8. /\ dropped \subseteq dropped' /\ dropped' \in SUBSET (Facts \cup ContactGroups)
          /\ \A y \in Facts : Tells(OldRow, y) =>
               y \in dropped' \/ y \in fill.facts \/ \E d \in RowIDs \ {OldRow} : Tells(d, y)
      <3>1. CASE OldRow \in ContactRows
        <4>1. /\ book[OldRow].facts \in SUBSET Facts /\ book[OldRow].groups \in SUBSET ContactGroups
              /\ dropped' = dropped \cup (book[OldRow].facts \ (fill.facts \cup AboutElsewhere(OldRow)))
          BY <1>16, <1>t, <3>1, ContactTyped DEF mergeAndDropDuplicateContact
        <4>2. dropped \in SUBSET (Facts \cup ContactGroups)
          BY <1>t DEF BookTypeOK
        <4>3. ASSUME NEW y \in Facts, Tells(OldRow, y)
              PROVE  y \in book[OldRow].facts
          BY <4>1, <4>3 DEF Tells
        <4> QED
          BY <1>o, <1>t, <4>1, <4>2, <4>3
      <3>2. CASE OldRow \notin ContactRows
        BY <1>16, <1>t, <3>2 DEF mergeAndDropDuplicateContact, Tells, BookTypeOK
      <3> QED
        BY <3>1, <3>2
    <2>9. BookTypeOK' /\ FillInv'
      BY <1>i, <1>t, <2>1, <2>5, <2>8 DEF BookTypeOK, FillRec, FillInv
    <2>10. ASSUME NEW y \in Facts \cup ContactGroups
           PROVE  ShownInv(y)'
      <3>1. SUFFICES ASSUME y \notin crossing
                     PROVE  (Shown(y)' => y \in given) /\ (y \in given /\ y \notin dropped' => Shown(y)')
        BY <2>1 DEF ShownInv
      <3>2. /\ Shown(y) => y \in given
            /\ y \in given /\ y \notin dropped => Shown(y)
        BY <3>1 DEF BookInv, ShownInv
      <3>3. y \in fill.facts \/ y \in fill.groups => fill.canon # OldRow /\ Tells(OldRow, y)
        BY <1>t, <2>1, <2>2, <3>1 DEF FillInv
      <3>4. Tells(OldRow, y) => \/ y \in fill.facts \/ y \in fill.groups \/ y \in dropped'
                                \/ \E d \in RowIDs \ {OldRow} : Tells(d, y)
        BY <1>t, <2>1, <2>8, <3>1 DEF FillInv
      <3>5. y \in fill.facts \/ y \in fill.groups => Shown(y)'
        <4>1. fill.canon \in RowIDs
          BY <1>t DEF FillRec
        <4> QED
          BY <2>7, <3>3, <4>1 DEF Shown
      <3>6. Shown(y)' => Shown(y)
        BY <1>t, <2>7, <3>3 DEF Shown
      <3>7. Shown(y) => Shown(y)' \/ y \in dropped'
        BY <2>7, <3>4, <3>5 DEF Shown
      <3> QED
        BY <2>8, <3>2, <3>6, <3>7
    <2> QED
      BY <2>9, <2>10 DEF BookInv
  <1> QED
    BY <1>1, <1>2, <1>3, <1>4, <1>k, <1>5, <1>6, <1>7, <1>8, <1>10, <1>11, <1>12, <1>13, <1>14, <1>15, <1>16 DEF BookNext

LEMMA BookKept == BookInv => BookTypeOK /\ ContactsKept
  <1> SUFFICES ASSUME BookInv
               PROVE  BookTypeOK /\ ContactsKept
    OBVIOUS
  <1>1. \A x : x \in UNION {About(c) : c \in ContactRows} <=> Shown(x)
    BY DEF About, Shown, Tells, ContactRows
  <1>2. \A x : Shown(x) => x \in Facts \cup ContactGroups
    BY ContactTyped DEF BookInv, Shown, Tells
  <1>3. given \subseteq Facts \cup ContactGroups
    BY DEF BookInv, BookTypeOK
  <1>4. \A x : x \notin crossing \cup dropped => (Shown(x) <=> x \in given)
    BY <1>2, <1>3 DEF BookInv, ShownInv
  <1>5. (UNION {About(c) : c \in ContactRows}) \ (crossing \cup dropped) = given \ (crossing \cup dropped)
    <2> DEFINE all == UNION {About(c) : c \in ContactRows}
    <2>1. \A x : x \in all <=> Shown(x)
      BY <1>1
    <2> HIDE DEF all
    <2>2. all \ (crossing \cup dropped) = given \ (crossing \cup dropped)
      BY <1>4, <2>1
    <2> QED
      BY <2>2 DEF all
  <1> QED
    BY <1>5 DEF BookInv, ContactsKept

(* RecordsHold.  For any number of guests, replies, rows and groups: the   *)
(* copies of a meeting show the organizer's answers, and reminders and     *)
(* cancellations they were told of (calendar_store.go), but for replies    *)
(* that overlap or fail, a rescheduling during the sending and an edit     *)
(* begun before the cancellation; the rows of a correspondent              *)
(* (contacts_store.go) show what the user entered, except what changed on  *)
(* the old row after the merge copied it and what the merge never copies.  *)
THEOREM RecordsTellTheTruth == StoresSpec => []RecordsHold
  <1>1. StoresInit => CalInv /\ BookInv
    BY CalStart, BookStart DEF StoresInit
  <1>2. CalInv /\ BookInv /\ [StoresNext]_storesVars => CalInv' /\ BookInv'
    BY CalPart, CalStep, BookPart, BookStep
  <1>3. CalInv /\ BookInv => RecordsHold
    BY CalTruthful, BookKept DEF RecordsHold
  <1> QED
    BY <1>1, <1>2, <1>3, PTL DEF StoresSpec

=============================================================================
