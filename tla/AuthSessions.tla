---------------------------- MODULE AuthSessions ----------------------------
(***************************************************************************)
(* Sessions and the backup address of an account: the sessions and         *)
(* user_settings tables of internal/storage/auth_store.go.                 *)
(* A refresh is two calls: the lookup by the hash of the presented token,  *)
(* then an update by session id with new hashes; requests run in parallel  *)
(* with logouts, recovery, the wipe of the account and the purge of        *)
(* expired rows.  Hashes are modelled by the tokens themselves, numbered   *)
(* in the order they are issued.                                           *)
(***************************************************************************)
EXTENDS Naturals, FiniteSets

CONSTANTS
    SessionIDs,     \* ids of sessions of one user; an id is never used again
    Requests,       \* refresh requests that may run at the same time
    NoSession,
    Emails,         \* candidate backup addresses
    NoEmail,
    Bearer,         \* validity of a bearer token, and of a refresh token,
    Refresh,        \*   from the moment it is issued
    MaxDay,         \* bound: clock
    MaxTokens       \* bound: tokens issued

ASSUME SessionsAssumption ==
    /\ {Bearer, Refresh, MaxDay, MaxTokens} \subseteq Nat
    /\ Bearer <= Refresh
    /\ NoSession \notin SessionIDs /\ NoEmail \notin Emails
    /\ NoSession \notin [refresh: Nat, expires: Nat, refreshExpires: Nat]

VARIABLES
    day,
    table,      \* sessions: id -> row or NoSession
    created,    \* ids used so far
    until,      \* end of the latest refresh window given to a session
    ended,      \* ids ended by the owner, by recovery or by the wipe
    issued,     \* number of tokens issued; a token is its number
    reqs,       \* refresh request -> the session id its lookup found
    backup,     \* the backup columns of user_settings
    mailed,     \* verification tokens sent: token -> the address it was sent to
    proven      \* addresses whose owner returned a token in time

sesVars == <<day, table, created, until, ended, issued, reqs, backup, mailed, proven>>

SessionRow == [refresh: 1..MaxTokens, expires: Nat, refreshExpires: Nat]

SesTypeOK ==
    /\ day \in 0..MaxDay
    /\ table \in [SessionIDs -> SessionRow \cup {NoSession}]
    /\ created \subseteq SessionIDs /\ ended \subseteq created
    /\ until \in [SessionIDs -> Nat]
    /\ issued \in 0..MaxTokens
    /\ reqs \in [Requests -> SessionIDs \cup {NoSession}]
    /\ backup \in [email: Emails \cup {NoEmail}, verified: BOOLEAN, token: 0..MaxTokens,
                   expires: Nat]
    /\ mailed \in [1..MaxTokens -> Emails \cup {NoEmail}]
    /\ proven \subseteq Emails

SesInit ==
    /\ day = 0
    /\ table = [s \in SessionIDs |-> NoSession]
    /\ created = {} /\ ended = {}
    /\ until = [s \in SessionIDs |-> 0]
    /\ issued = 0
    /\ reqs = [r \in Requests |-> NoSession]
    /\ backup = [email |-> NoEmail, verified |-> FALSE, token |-> 0, expires |-> 0]
    /\ mailed = [t \in 1..MaxTokens |-> NoEmail]
    /\ proven = {}

-----------------------------------------------------------------------------
LiveSessions == {s \in SessionIDs : table[s] # NoSession}
Issue == issued < MaxTokens /\ issued' = issued + 1
Fresh == [refresh |-> issued + 1, expires |-> day + Bearer, refreshExpires |-> day + Refresh]
SetFresh(s) ==
    /\ table' = [table EXCEPT ![s] = Fresh]
    /\ until' = [until EXCEPT ![s] = day + Refresh]
backupVars == <<backup, mailed, proven>>

NextDay ==
    /\ day < MaxDay /\ day' = day + 1
    /\ UNCHANGED <<table, created, until, ended, issued, reqs, backupVars>>

CreateSession(s) ==
    /\ s \notin created /\ Issue
    /\ SetFresh(s)
    /\ created' = created \cup {s}
    /\ UNCHANGED <<day, ended, reqs, backupVars>>

\* The sessions a presented refresh token t selects.
GetSessionByRefreshHash(t) ==
    {s \in LiveSessions : table[s].refresh = t /\ table[s].refreshExpires > day}

\* A client presents a refresh token it was once given.
LookupRefresh(r) ==
    /\ reqs[r] = NoSession
    /\ \E t \in 1..issued, s \in SessionIDs :
         /\ s \in GetSessionByRefreshHash(t)
         /\ reqs' = [reqs EXCEPT ![r] = s]
    /\ UNCHANGED <<day, table, created, until, ended, issued, backupVars>>

\* UPDATE ... WHERE session_id: no row, no session.
UpdateSessionRefreshAndToken(r) ==
    /\ reqs[r] # NoSession
    /\ reqs' = [reqs EXCEPT ![r] = NoSession]
    /\ IF reqs[r] \in LiveSessions
       THEN Issue /\ SetFresh(reqs[r])
       ELSE UNCHANGED <<table, until, issued>>
    /\ UNCHANGED <<day, created, ended, backupVars>>

Drop(S) == table' = [s \in SessionIDs |-> IF s \in S THEN NoSession ELSE table[s]]

EndSessions(S) ==
    /\ S # {} /\ Drop(S) /\ ended' = ended \cup S
    /\ UNCHANGED <<day, created, until, issued, reqs, backupVars>>

\* Logout of one device
DeleteSession(s) == s \in LiveSessions /\ EndSessions({s})
\* Logout of the other devices
DeleteSessionsExcept(s) == s \in LiveSessions /\ EndSessions(LiveSessions \ {s})
\* Recovery, DeleteUser, PurgeUser and TombstoneUser
DeleteAllSessions == EndSessions(LiveSessions)

(* mutant: a session goes as soon as its bearer token has expired *)
ExpiredBearers == {s \in LiveSessions : table[s].expires < day}

ExpiredSessions == {s \in LiveSessions : table[s].refreshExpires < day}

\* Two instances may try; the advisory lock lets one through, the other does nothing.
PurgeExpiredSessions ==
    /\ ExpiredSessions # {} /\ Drop(ExpiredSessions)
    /\ UNCHANGED <<day, created, until, ended, issued, reqs, backupVars>>

-----------------------------------------------------------------------------
SetBackupEmail(e) ==
    /\ Issue
    /\ backup' = [email |-> e, verified |-> FALSE, token |-> issued + 1, expires |-> day + 1]
    /\ mailed' = [mailed EXCEPT ![issued + 1] = e]
    /\ UNCHANGED <<day, table, created, until, ended, reqs, proven>>

\* The link of a mail is opened, at any later time and any number of times.
VerifyBackupEmail(t) ==
    /\ mailed[t] # NoEmail
    /\ backup.token = t /\ backup.expires > day
    /\ backup' = [backup EXCEPT !.verified = TRUE, !.token = 0, !.expires = 0]
    /\ proven' = proven \cup {mailed[t]}
    /\ UNCHANGED <<day, table, created, until, ended, issued, reqs, mailed>>

-----------------------------------------------------------------------------
SesNext ==
    \/ \E s \in SessionIDs : CreateSession(s) \/ DeleteSession(s) \/ DeleteSessionsExcept(s)
    \/ \E r \in Requests : LookupRefresh(r) \/ UpdateSessionRefreshAndToken(r)
    \/ \E e \in Emails : SetBackupEmail(e)
    \/ \E t \in 1..MaxTokens : VerifyBackupEmail(t)
    \/ NextDay \/ DeleteAllSessions \/ PurgeExpiredSessions

SesSpec == SesInit /\ [][SesNext]_sesVars

-----------------------------------------------------------------------------
\* A session that its owner, the recovery or the wipe has ended is not brought back, by
\* refresh requests in flight either; and nothing else ends one while its refresh token is
\* valid, although its bearer token expires much earlier (PurgeExpiredSessions).
EndedSessionsOnly ==
    \A s \in created :
        /\ s \in ended => table[s] = NoSession
        /\ s \notin ended /\ table[s] = NoSession => until[s] < day

\* The address that backup-email recovery may use was confirmed by its owner, whatever the
\* order in which addresses are changed and links of older mails are opened.
BackupEmailProven == backup.verified => backup.email \in proven

=============================================================================
