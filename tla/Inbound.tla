------------------------------- MODULE Inbound -------------------------------
(***************************************************************************)
(* The smtp-inbound enclave: SMTP sessions (internal/smtp/receiver.go), the *)
(* pipeline that files, answers and queues each message                    *)
(* (internal/smtp/pipeline.go) and the stores it reads and writes.  The    *)
(* sending mail server is external: it retries what was not answered.      *)
(* Every database or queue call of a session may fail, and its effect may  *)
(* have happened when it does.                                             *)
(***************************************************************************)
EXTENDS Integers, Sequences, FiniteSets, SequencesExt

CONSTANTS
  Users,        \* mailboxes, each named by its address
  Aliases,      \* addresses that fan out to mailboxes, or to nobody
  Groups,       \* end-to-end encrypted private groups
  Roles,        \* reserved addresses of a default domain
  Mails,        \* messages the outside world sends
  From,         \* [Mails -> sender]
  Rcpts,        \* [Mails -> Seq(address)]
  MembersOnly,  \* groups whose posting policy is 'members'
  Spam, Reject, \* messages the spam filter files as junk; DMARC p=reject
  Sessions,
  NoMail, NoUser,
  InitAlias, InitMembers, InitReply,  \* aliases, group members and auto-replies at the start
  CatchAlls,    \* catch-all mailboxes the domain may have, NoUser for none,
  InitCatchAll, \*   and the one at the start
  MaxTries,     \* attempts before the sender gives a message up
  MaxChanges,   \* changes others make
  MaxTrouble    \* those, failed calls, broken connections and crashes together

Addresses == Users \union Aliases \union Groups \union Roles
Senders == {From[m] : m \in Mails}
Folders == {"inbox", "junk"}
Rules == {"none", "delete", "move"}

ASSUME InboundAssumption ==
  /\ From \in [Mails -> Senders]
  /\ Rcpts \in [Mails -> Seq(Addresses)]
  /\ MembersOnly \subseteq Groups
  /\ Spam \subseteq Mails /\ Reject \subseteq Mails
  /\ InitAlias \in [Aliases -> SUBSET Users]
  /\ InitMembers \in [Groups -> SUBSET Users]
  /\ InitReply \subseteq Users /\ CatchAlls \subseteq Users \union {NoUser}
  /\ NoMail \notin Mails /\ NoUser \notin Users \union Groups
  /\ IsFiniteSet(Users)
  /\ MaxTries \in Nat \ {0}
  /\ MaxChanges \in Nat /\ MaxTrouble \in Nat

ASSUME CatchAllAssumption == InitCatchAll \in CatchAlls

VARIABLES
  pending,   \* [Mails -> SUBSET Addresses]: recipients the sender still owes
  tries,     \* [Mails -> Nat]: attempts the sender has started
  accepted,  \* what was answered 250: which targets it stood for, which were served
  sess,      \* [Sessions -> session]
  alias,     \* aliases table
  catchAll,  \* tenants.catch_all_user_id
  acct,      \* [Users -> status of the account as RCPT tells it apart]
  blocked, autoReply,            \* blocked senders, auto-replies on
  rule,      \* [Users -> Rules]: what the first matching rule does; archive is a move
  dedup,     \* auto_reply_dedup table: <<user, sender>> within the window
  members,   \* [Groups -> [Users -> joined_at_epoch, or -1]]
  epoch,     \* [Groups -> key_epoch]
  entitled,  \* <<group, user, epoch>>: user was a member while epoch was current
  roleBox,   \* role_messages: <<mail, role>>
  inbound,   \* mail.inbound stream: copies queued for each <<mail, user>>
  dropped,   \* <<mail, user>> deleted by a rule
  replies,   \* auto-replies published per <<user, sender>> since the window began
  mishaps,   \* failed calls, broken connections and crashes so far
  changes

mtaVars == <<pending, tries, accepted>>
dirVars == <<alias, catchAll, acct, blocked, autoReply, rule>>
grpVars == <<members, epoch, entitled>>
boxVars == <<dedup, roleBox, inbound, dropped, replies>>
budget  == <<mishaps, changes>>
vars    == <<mtaVars, sess, dirVars, grpVars, boxVars, budget>>

(* A queued copy: FolderAssignment, whether RuleMoveFolderID overrides it  *)
(* with the folder a rule names (any folder, the inbox included), the      *)
(* folder its receipt is signed over, the group and epoch of a group copy. *)
Copies == [folder : Folders, moved : BOOLEAN, receipt : Folders, group : Groups \union {NoUser},
           epoch : Nat, try : 1..MaxTries]

(* A session: the positions in Rcpts of the commands still to come (ask),  *)
(* the recipients it accepted (took, then split by kind), the targets of   *)
(* the one under way, those it was to deliver to and those whose delivery  *)
(* succeeded, the state of the message buffer and the delivery under way.  *)
Idle == [pc |-> "idle", mail |-> NoMail, try |-> 0, orphan |-> FALSE, late |-> FALSE,
         ask |-> {}, took |-> {}, recipients |-> <<>>, roleRecipients |-> <<>>,
         groupRecipients |-> <<>>, targets |-> <<>>, delivered |-> {}, got |-> {},
         raw |-> "whole", user |-> NoUser, folder |-> "inbox", moved |-> FALSE, epoch |-> 0,
         fan |-> {}, counted |-> FALSE]

Init ==
  /\ pending = [m \in Mails |-> ToSet(Rcpts[m])]
  /\ tries = [m \in Mails |-> 0]
  /\ accepted = {}
  /\ sess = [s \in Sessions |-> Idle]
  /\ alias = InitAlias
  /\ catchAll = InitCatchAll
  /\ acct = [u \in Users |-> "open"]
  /\ blocked = {} /\ autoReply = InitReply /\ rule = [u \in Users |-> "none"]
  /\ dedup = {}
  /\ members = [g \in Groups |-> [u \in Users |-> IF u \in InitMembers[g] THEN 0 ELSE -1]]
  /\ epoch = [g \in Groups |-> 0]
  /\ entitled = {t \in Groups \X Users \X {0} : t[2] \in InitMembers[t[1]]}
  /\ roleBox = {}
  /\ inbound = [p \in Mails \X Users |-> <<>>]
  /\ dropped = {}
  /\ replies = [p \in Users \X Senders |-> 0]
  /\ mishaps = 0 /\ changes = 0

-----------------------------------------------------------------------------
(* The targets of an alias, or the domain's catch-all.                     *)
Fallback(a) == IF a \in Aliases /\ alias[a] # {} THEN alias[a] ELSE {catchAll} \ {NoUser}

(* AuthStore.ResolveRecipient: the mailbox itself, or one of those.        *)
Resolve(a) == IF a \in Users THEN {a} ELSE Fallback(a)

(* What the lookup answers when it succeeds, when GetUserByAddress fails   *)
(* and is taken for "no such mailbox", and when it fails altogether.       *)
Lookup(a, ok, done) == IF ok THEN Resolve(a) ELSE IF done THEN Fallback(a) ELSE {}

(* session.senderIsGroupMember and the posting policy.                     *)
MayPost(m, g) ==
  g \in MembersOnly => From[m] \in Users /\ members[g][From[m]] >= 0

(* The mailboxes an address may resolve to at RCPT.                        *)
Found(a, down) == Lookup(a, down \notin {"mailbox", "resolve"}, down = "mailbox")

(* What session.Rcpt answers when the lookup named by down fails.          *)
Verdicts(m, a, down) ==
  CASE a \in Roles /\ down # "domain" -> {"role"}
    [] Found(a, down) # {} ->
         {IF acct[u] = "open" \/ (acct[u] = "full" /\ down = "quota") THEN "user" ELSE "no"
             : u \in Found(a, down)}
    [] a \in Groups /\ down # "group" ->
         {IF MayPost(m, a) /\ (a \in MembersOnly => down # "member") THEN "group" ELSE "no"}
    [] OTHER -> {"no"}

(* The order in which session.Data serves its recipients.                  *)
NextPc(r) ==
  CASE r.roleRecipients # <<>>  -> "role"
    [] r.targets # <<>>         -> "parse"
    [] r.recipients # <<>>      -> "expand"
    [] r.groupRecipients # <<>> -> "group"
    [] OTHER                    -> "answer"

Set(s, r) == sess' = [sess EXCEPT ![s] = r]
Go(s, pc) == Set(s, [sess[s] EXCEPT !.pc = pc])
Continue(s, r) == Set(s, [r EXCEPT !.pc = NextPc(r)])

(* Something goes wrong, and only so often.                                *)
Trouble == mishaps + changes < MaxTrouble
Mishap == Trouble /\ mishaps' = mishaps + 1 /\ UNCHANGED changes

(* A database or queue call of a session under way: it succeeds, fails     *)
(* because the context has expired, or fails by itself with or without     *)
(* its effect.                                                             *)
Call(s, ok, done) ==
  \/ ok /\ done /\ ~sess[s].late /\ UNCHANGED budget
  \/ ~ok /\ ~done /\ sess[s].late /\ UNCHANGED budget
  \/ ~ok /\ ~sess[s].late /\ Mishap

Processing(s) == sess[s].pc \notin {"idle", "rcpt"}

-----------------------------------------------------------------------------
(* The sending server starts an attempt for the recipients it still owes.  *)
Send(s, m) ==
  /\ sess[s].pc = "idle" /\ pending[m] # {} /\ tries[m] < MaxTries
  /\ \A t \in Sessions : sess[t].mail = m => sess[t].orphan
  /\ tries' = [tries EXCEPT ![m] = @ + 1]
  /\ Set(s, [Idle EXCEPT !.pc = "rcpt", !.mail = m, !.try = tries[m] + 1,
                         !.ask = {k \in DOMAIN Rcpts[m] : Rcpts[m][k] \in pending[m]}])
  /\ UNCHANGED <<pending, accepted, dirVars, grpVars, boxVars, budget>>

(* It gives up, and reports the failure to the author, after MaxTries.     *)
GiveUp(m) ==
  /\ pending[m] # {} /\ tries[m] = MaxTries
  /\ \A t \in Sessions : sess[t].mail = m => sess[t].orphan
  /\ pending' = [pending EXCEPT ![m] = {}]
  /\ UNCHANGED <<tries, accepted, sess, dirVars, grpVars, boxVars, budget>>

(* The connection breaks.  Before DATA is read nothing has happened; after *)
(* it the handler runs on and its answer reaches nobody.                   *)
Disconnect(s) ==
  /\ sess[s].pc # "idle" /\ ~sess[s].orphan /\ Mishap
  /\ Set(s, IF Processing(s) THEN [sess[s] EXCEPT !.orphan = TRUE] ELSE Idle)
  /\ UNCHANGED <<mtaVars, dirVars, grpVars, boxVars>>

(* session.Data begins, or the sender has no recipient left to send to.    *)
Data(r) == IF r.took = {} THEN Idle ELSE [r EXCEPT !.pc = NextPc(r)]

(* session.Rcpt: an address refused at RCPT is refused for good.           *)
Rcpt(s) ==
  /\ sess[s].pc = "rcpt"
  /\ \E down \in {"nothing", "domain", "mailbox", "resolve", "group", "member", "quota"},
        k \in sess[s].ask :
       LET m == sess[s].mail
           a == Rcpts[m][k]
       IN /\ \A l \in sess[s].ask : k <= l
          /\ IF down = "nothing" THEN UNCHANGED budget ELSE Mishap
          /\ \E v \in Verdicts(m, a, down) :
               LET r == [sess[s] EXCEPT !.ask = @ \ {k},
                          !.took = IF v = "no" THEN @ ELSE @ \union {a},
                          !.roleRecipients = IF v = "role" THEN Append(@, a) ELSE @,
                          !.recipients = IF v = "user" THEN Append(@, a) ELSE @,
                          !.groupRecipients = IF v = "group" THEN Append(@, a) ELSE @]
               IN /\ Set(s, IF r.ask = {} THEN Data(r) ELSE r)
                  /\ pending' = IF v = "no" THEN [pending EXCEPT ![m] = @ \ {a}] ELSE pending
  /\ UNCHANGED <<tries, accepted, dirVars, grpVars, boxVars>>

(* dataProcessTimeout: from here on every call of the session fails.       *)
Expire(s) ==
  /\ Processing(s) /\ ~sess[s].late /\ Mishap
  /\ Set(s, [sess[s] EXCEPT !.late = TRUE])
  /\ UNCHANGED <<mtaVars, dirVars, grpVars, boxVars>>

(* AdminStore.InsertRoleMessage for the next role recipient.               *)
InsertRole(s) ==
  /\ sess[s].pc = "role"
  /\ \E ok, done \in BOOLEAN :
       LET a == Head(sess[s].roleRecipients)
           r == [sess[s] EXCEPT !.roleRecipients = Tail(@), !.delivered = @ \union {a},
                                !.got = IF ok THEN @ \union {a} ELSE @]
       IN /\ Call(s, ok, done)
          /\ roleBox' = IF done THEN roleBox \union {<<sess[s].mail, a>>} ELSE roleBox
          /\ Continue(s, r)
  /\ UNCHANGED <<mtaVars, dirVars, grpVars, dedup, inbound, dropped, replies>>

(* ResolveRecipientAddresses for the next recipient: its targets that no   *)
(* earlier recipient had, in the order the rows come back.                 *)
Expand(s) ==
  /\ sess[s].pc = "expand"
  /\ \E ok, done \in BOOLEAN :
       LET a == Head(sess[s].recipients)
           R == Lookup(a, ok, done)
           T == (IF R # {} THEN R ELSE {a}) \ sess[s].delivered
       IN /\ Call(s, ok, done)
          /\ \E q \in SetToSeqs(T) :
               Continue(s, [sess[s] EXCEPT !.recipients = Tail(@), !.targets = q,
                                           !.delivered = @ \union T])
  /\ UNCHANGED <<mtaVars, dirVars, grpVars, boxVars>>

-----------------------------------------------------------------------------
(* mutant: a target that failed is tried again at once *)
ReturnRetries(s, ok) ==
  Continue(s, [sess[s] EXCEPT !.targets = IF ok THEN Tail(@) ELSE @, !.raw = "zeroed",
                  !.user = NoUser, !.folder = "inbox", !.moved = FALSE,
                  !.got = IF ok THEN @ \union {Head(sess[s].targets)} ELSE @])

(* Pipeline.ProcessMessage returns: its deferred ZeroBytes clears the      *)
(* buffer session.Data passes to every target.                             *)
Return(s, ok) ==
  Continue(s, [sess[s] EXCEPT !.targets = Tail(@), !.raw = "zeroed", !.user = NoUser,
                  !.folder = "inbox", !.moved = FALSE,
                  !.got = IF ok THEN @ \union {Head(sess[s].targets)} ELSE @])

(* The folder before the recipient's own settings are applied: DMARC       *)
(* p=reject overrides the spam filter.                                     *)
Filed(m) == IF m \in Spam \/ m \in Reject THEN "junk" ELSE "inbox"

(* Parse, check, resolve the target once more and encrypt.  A cleared      *)
(* buffer does not parse.                                                  *)
Parse(s) ==
  /\ sess[s].pc = "parse"
  /\ LET a == Head(sess[s].targets)
     IN \/ /\ sess[s].raw = "zeroed"
           /\ Return(s, FALSE)
           /\ UNCHANGED budget
        \/ /\ sess[s].raw = "whole"
           /\ \E ok, done \in BOOLEAN :
                /\ Call(s, ok, done)
                /\ \/ /\ Lookup(a, ok, done) = {}
                      /\ Return(s, FALSE)
                   \/ \E u \in Lookup(a, ok, done) :
                        Set(s, [sess[s] EXCEPT !.pc = "block", !.user = u,
                                               !.folder = Filed(sess[s].mail)])
  /\ UNCHANGED <<mtaVars, dirVars, grpVars, boxVars>>

(* applyPostReceive, one call after the other: the block list, *)
CheckBlock(s) ==
  /\ sess[s].pc = "block"
  /\ \E ok, done \in BOOLEAN :
       /\ Call(s, ok, done)
       /\ Set(s, [sess[s] EXCEPT !.pc = "rules",
            !.folder = IF ok /\ <<sess[s].user, From[sess[s].mail]>> \in blocked
                       THEN "junk" ELSE @])
  /\ UNCHANGED <<mtaVars, dirVars, grpVars, boxVars>>

(* the rules, the first match of which deletes the message or moves it;    *)
(* failing to list them, or to find the archive, leaves it where it was,   *)
EvalRules(s) ==
  /\ sess[s].pc = "rules"
  /\ \E ok, done \in BOOLEAN :
       LET act == IF ok THEN rule[sess[s].user] ELSE "none"
       IN /\ Call(s, ok, done)
          /\ \/ /\ act = "delete"
                /\ dropped' = dropped \union {<<sess[s].mail, sess[s].user>>}
                /\ Return(s, TRUE)
             \/ /\ act # "delete"
                /\ Set(s, [sess[s] EXCEPT !.pc = "reserve", !.moved = (act = "move")])
                /\ UNCHANGED dropped
  /\ UNCHANGED <<mtaVars, dirVars, grpVars, dedup, roleBox, inbound, replies>>

(* mutant: ON CONFLICT DO UPDATE without its WHERE *)
ReserveAlways(s) ==
  /\ sess[s].pc = "reserve"
  /\ \/ /\ sess[s].user \notin autoReply
        /\ Go(s, "queue")
        /\ UNCHANGED <<dedup, budget>>
     \/ /\ sess[s].user \in autoReply
        /\ \E ok, done \in BOOLEAN :
             /\ Call(s, ok, done)
             /\ dedup' = IF done THEN dedup \union {<<sess[s].user, From[sess[s].mail]>>} ELSE dedup
             /\ Go(s, IF ok THEN "reply" ELSE "queue")
  /\ UNCHANGED <<mtaVars, dirVars, grpVars, roleBox, inbound, dropped, replies>>

(* GetAutoReply and TryRecordAutoReply: one upsert decides who replies, *)
Reserve(s) ==
  /\ sess[s].pc = "reserve"
  /\ LET p == <<sess[s].user, From[sess[s].mail]>>
     IN \/ /\ sess[s].user \notin autoReply
           /\ Go(s, "queue")
           /\ UNCHANGED <<dedup, budget>>
        \/ /\ sess[s].user \in autoReply
           /\ \E ok, done \in BOOLEAN :
                /\ Call(s, ok, done)
                /\ dedup' = IF done THEN dedup \union {p} ELSE dedup
                /\ Go(s, IF ok /\ p \notin dedup THEN "reply" ELSE "queue")
  /\ UNCHANGED <<mtaVars, dirVars, grpVars, roleBox, inbound, dropped, replies>>

(* and the reply itself.  The contact book (AutoAdd) and the copy in the   *)
(* Sent folder, best-effort writes nothing here reads, are left out.       *)
SendReply(s) ==
  /\ sess[s].pc = "reply"
  /\ \E ok, done \in BOOLEAN :
       /\ Call(s, ok, done)
       /\ replies' = IF done THEN [replies EXCEPT ![<<sess[s].user, From[sess[s].mail]>>] = @ + 1]
                     ELSE replies
       /\ Go(s, "queue")
  /\ UNCHANGED <<mtaVars, dirVars, grpVars, dedup, roleBox, inbound, dropped>>

(* mutant: the receipt is signed before the block list is consulted *)
CopyEarlyReceipt(s) == [folder |-> sess[s].folder, moved |-> sess[s].moved,
                        receipt |-> Filed(sess[s].mail), group |-> NoUser, epoch |-> 0,
                        try |-> sess[s].try]

(* The receipt is signed over FolderAssignment, not over where a rule      *)
(* moves the message; then the copy is queued with both.                   *)
Copy(s) == [folder |-> sess[s].folder, moved |-> sess[s].moved, receipt |-> sess[s].folder,
            group |-> NoUser, epoch |-> 0, try |-> sess[s].try]

Queued(m, u, c) == [inbound EXCEPT ![<<m, u>>] = Append(@, c)]

(* mutant: a failed publish is logged and passed over *)
PublishSwallows(s) ==
  /\ sess[s].pc = "queue"
  /\ \E ok, done \in BOOLEAN :
       /\ Call(s, ok, done)
       /\ inbound' = IF done THEN Queued(sess[s].mail, sess[s].user, Copy(s)) ELSE inbound
       /\ Return(s, TRUE)
  /\ UNCHANGED <<mtaVars, dirVars, grpVars, dedup, roleBox, dropped, replies>>

Publish(s) ==
  /\ sess[s].pc = "queue"
  /\ \E ok, done \in BOOLEAN :
       /\ Call(s, ok, done)
       /\ inbound' = IF done THEN Queued(sess[s].mail, sess[s].user, Copy(s)) ELSE inbound
       /\ Return(s, ok)
  /\ UNCHANGED <<mtaVars, dirVars, grpVars, dedup, roleBox, dropped, replies>>

-----------------------------------------------------------------------------
(* ProcessGroupMessage returns.                                            *)
GroupReturn(s, r, ok) ==
  LET g == Head(r.groupRecipients)
  IN Continue(s, [r EXCEPT !.groupRecipients = Tail(@), !.delivered = @ \union {g},
                    !.got = IF ok THEN @ \union {g} ELSE @, !.fan = {}, !.counted = FALSE,
                    !.folder = "inbox", !.epoch = 0])

(* The group row is read again; the message is parsed and encrypted to the *)
(* key of the epoch that row names.                                        *)
GroupOpen(s) ==
  /\ sess[s].pc = "group"
  /\ \E ok, done \in BOOLEAN :
       LET g == Head(sess[s].groupRecipients)
       IN /\ Call(s, ok, done)
          /\ IF ok /\ sess[s].raw = "whole"
             THEN Set(s, [sess[s] EXCEPT !.pc = "members", !.epoch = epoch[g],
                                         !.folder = Filed(sess[s].mail), !.raw = "zeroed"])
             ELSE GroupReturn(s, IF ok THEN [sess[s] EXCEPT !.raw = "zeroed"] ELSE sess[s], FALSE)
  /\ UNCHANGED <<mtaVars, dirVars, grpVars, boxVars>>

(* mutant: no joined_at_epoch filter *)
EligibleAll(g, e) == {u \in Users : members[g][u] >= 0}

(* Members who had joined by that epoch.                                   *)
Eligible(g, e) == {u \in Users : members[g][u] >= 0 /\ members[g][u] <= e}

(* mutant: the fan-out starts although nobody is left *)
GroupMembersEmpty(s) ==
  /\ sess[s].pc = "members"
  /\ \E ok, done \in BOOLEAN :
       LET E == Eligible(Head(sess[s].groupRecipients), sess[s].epoch)
           fan == E \ (sess[s].took \union {From[sess[s].mail]})
       IN /\ Call(s, ok, done)
          /\ IF ok THEN Set(s, [sess[s] EXCEPT !.pc = "fan", !.fan = fan, !.counted = (fan # E)])
             ELSE GroupReturn(s, sess[s], FALSE)
  /\ UNCHANGED <<mtaVars, dirVars, grpVars, boxVars>>

(* ListMembers, without the sender and the direct recipients.              *)
GroupMembers(s) ==
  /\ sess[s].pc = "members"
  /\ \E ok, done \in BOOLEAN :
       LET g == Head(sess[s].groupRecipients)
           E == Eligible(g, sess[s].epoch)
           fan == E \ (sess[s].took \union {From[sess[s].mail]})
       IN /\ Call(s, ok, done)
          /\ IF ok /\ fan # {}
             THEN Set(s, [sess[s] EXCEPT !.pc = "fan", !.fan = fan, !.counted = (fan # E)])
             ELSE GroupReturn(s, sess[s], ok /\ E # {})
  /\ UNCHANGED <<mtaVars, dirVars, grpVars, boxVars>>

GroupCopy(s) == [folder |-> sess[s].folder, moved |-> FALSE, receipt |-> sess[s].folder,
                 group |-> Head(sess[s].groupRecipients), epoch |-> sess[s].epoch,
                 try |-> sess[s].try]

(* One member after the other; a failed publish is logged and passed over. *)
GroupFan(s) ==
  /\ sess[s].pc = "fan"
  /\ \E ok, done \in BOOLEAN, u \in sess[s].fan :
       LET r == [sess[s] EXCEPT !.fan = @ \ {u}, !.counted = @ \/ ok]
       IN /\ Call(s, ok, done)
          /\ inbound' = IF done THEN Queued(sess[s].mail, u, GroupCopy(s)) ELSE inbound
          /\ IF r.fan = {} THEN GroupReturn(s, r, r.counted) ELSE Set(s, r)
  /\ UNCHANGED <<mtaVars, dirVars, grpVars, dedup, roleBox, dropped, replies>>

(* mutant: 451 as soon as one target failed *)
SucceededAll(r) == r.got = r.delivered

(* One success makes the answer a 250 for every recipient; otherwise 451.  *)
Succeeded(r) == r.got # {}

Answer(s) ==
  /\ sess[s].pc = "answer"
  /\ LET r == sess[s]
     IN IF Succeeded(r) /\ ~r.orphan
        THEN /\ pending' = [pending EXCEPT ![r.mail] = @ \ r.took]
             /\ accepted' = accepted \union
                  {[mail |-> r.mail, owed |-> r.delivered, got |-> r.got]}
        ELSE UNCHANGED <<pending, accepted>>
  /\ Set(s, Idle)
  /\ UNCHANGED <<tries, dirVars, grpVars, boxVars, budget>>

(* The process dies, or a shutdown closes the listener and run returns:    *)
(* every session ends where it stands.                                     *)
ProcessEnds ==
  /\ Mishap
  /\ \E s \in Sessions : sess[s].pc # "idle"
  /\ sess' = [s \in Sessions |-> Idle]
  /\ UNCHANGED <<mtaVars, dirVars, grpVars, boxVars>>

-----------------------------------------------------------------------------
(* What users, administrators and time change meanwhile.                   *)
Change == Trouble /\ changes < MaxChanges /\ changes' = changes + 1
          /\ UNCHANGED <<mtaVars, sess, mishaps>>

(* Billing and lifecycle: the account stops receiving, or is over quota.   *)
CloseAccount(u) ==
  /\ Change /\ acct[u] = "open"
  /\ \E a \in {"closed", "full"} : acct' = [acct EXCEPT ![u] = a]
  /\ UNCHANGED <<alias, catchAll, blocked, autoReply, rule, grpVars, boxVars>>

(* An administrator edits the aliases and the catch-all of the domain.     *)
CreateAlias(a, u) ==
  /\ Change /\ u \notin alias[a]
  /\ alias' = [alias EXCEPT ![a] = @ \union {u}]
  /\ UNCHANGED <<catchAll, acct, blocked, autoReply, rule, grpVars, boxVars>>

DeleteAlias(a) ==
  /\ Change /\ alias[a] # {}
  /\ alias' = [alias EXCEPT ![a] = {}]
  /\ UNCHANGED <<catchAll, acct, blocked, autoReply, rule, grpVars, boxVars>>

SetCatchAll(c) ==
  /\ Change /\ catchAll # c
  /\ catchAll' = c
  /\ UNCHANGED <<alias, acct, blocked, autoReply, rule, grpVars, boxVars>>

(* A user blocks a sender, or creates a rule that deletes or moves mail.   *)
BlockSender(u, f) ==
  /\ Change /\ <<u, f>> \notin blocked
  /\ blocked' = blocked \union {<<u, f>>}
  /\ UNCHANGED <<alias, catchAll, acct, autoReply, rule, grpVars, boxVars>>

CreateRule(u, act) ==
  /\ Change /\ rule[u] = "none"
  /\ rule' = [rule EXCEPT ![u] = act]
  /\ UNCHANGED <<alias, catchAll, acct, blocked, autoReply, grpVars, boxVars>>

(* GroupStore.AddMember with the current epoch.                            *)
AddMember(g, u) ==
  /\ Change /\ members[g][u] < 0
  /\ members' = [members EXCEPT ![g][u] = epoch[g]]
  /\ entitled' = entitled \union {<<g, u, epoch[g]>>}
  /\ UNCHANGED <<epoch, dirVars, boxVars>>

RemoveMember(g, u) ==
  /\ Change /\ members[g][u] >= 0
  /\ members' = [members EXCEPT ![g][u] = -1]
  /\ UNCHANGED <<epoch, entitled, dirVars, boxVars>>

RotateGroupKey(g) ==
  /\ Change
  /\ epoch' = [epoch EXCEPT ![g] = @ + 1]
  /\ entitled' = entitled \union {<<g, u, epoch[g] + 1>> : u \in {v \in Users : members[g][v] >= 0}}
  /\ UNCHANGED <<members, dirVars, boxVars>>

(* A day passes, far longer than any session lasts: every recorded reply   *)
(* is older than the window.                                               *)
NextDay ==
  /\ Change /\ \A s \in Sessions : sess[s].pc = "idle"
  /\ dedup' = {}
  /\ replies' = [p \in DOMAIN replies |-> 0]
  /\ UNCHANGED <<dirVars, grpVars, roleBox, inbound, dropped>>

-----------------------------------------------------------------------------
Deliver(s) ==
  \/ InsertRole(s) \/ Expand(s) \/ Parse(s) \/ CheckBlock(s) \/ EvalRules(s)
  \/ Reserve(s) \/ SendReply(s) \/ Publish(s)
  \/ GroupOpen(s) \/ GroupMembers(s) \/ GroupFan(s) \/ Answer(s)

Environment ==
  \/ ProcessEnds \/ NextDay
  \/ \E s \in Sessions : Disconnect(s) \/ Expire(s)
  \/ \E u \in Users : CloseAccount(u) \/ \E act \in Rules \ {"none"} : CreateRule(u, act)
  \/ \E a \in Aliases : DeleteAlias(a) \/ \E u \in Users : CreateAlias(a, u)
  \/ \E c \in CatchAlls : SetCatchAll(c)
  \/ \E u \in Users, f \in Senders : BlockSender(u, f)
  \/ \E g \in Groups : RotateGroupKey(g) \/ \E u \in Users : AddMember(g, u) \/ RemoveMember(g, u)

Next ==
  \/ \E s \in Sessions : Rcpt(s) \/ Deliver(s)
  \/ \E m \in Mails : GiveUp(m) \/ \E s \in Sessions : Send(s, m)
  \/ Environment

(* A session's goroutine runs on, and a sending server retries what it     *)
(* still owes until it gives up.                                           *)
Fairness ==
  /\ \A s \in Sessions : WF_vars(Rcpt(s) \/ Deliver(s))
  /\ \A m \in Mails : WF_vars(GiveUp(m) \/ \E s \in Sessions : Send(s, m))

Spec == Init /\ [][Next]_vars
FairSpec == Spec /\ Fairness

-----------------------------------------------------------------------------
Pcs == {"idle", "rcpt", "role", "expand", "parse", "block", "rules",
        "reserve", "reply", "queue", "group", "members", "fan", "answer"}

Session ==
  [pc : Pcs, mail : Mails \union {NoMail}, try : 0..MaxTries, orphan : BOOLEAN, late : BOOLEAN,
   ask : SUBSET Nat, took : SUBSET Addresses, recipients : Seq(Addresses),
   roleRecipients : Seq(Roles), groupRecipients : Seq(Groups), targets : Seq(Addresses),
   delivered : SUBSET Addresses, got : SUBSET Addresses, raw : {"whole", "zeroed"},
   user : Users \union {NoUser}, folder : Folders, moved : BOOLEAN, epoch : Nat, fan : SUBSET Users,
   counted : BOOLEAN]

Serving == {"block", "rules", "reserve", "reply", "queue"}

(* Sessions, tables and queues hold what the code stores in them; a        *)
(* session works for a user exactly between parsing and queueing.          *)
TypeOK ==
  /\ pending \in [Mails -> SUBSET Addresses]
  /\ tries \in [Mails -> 0..MaxTries]
  /\ sess \in [Sessions -> Session]
  /\ \A s \in Sessions :
       LET r == sess[s] IN
       /\ r.got \subseteq r.delivered
       /\ (r.user # NoUser) <=> r.pc \in Serving
       /\ (r.mail = NoMail) <=> (r.pc = "idle")
       /\ (r.pc = "fan") <=> (r.fan # {})
  /\ alias \in [Aliases -> SUBSET Users] /\ catchAll \in Users \union {NoUser}
  /\ acct \in [Users -> {"open", "closed", "full"}] /\ rule \in [Users -> Rules]
  /\ members \in [Groups -> [Users -> Int]] /\ epoch \in [Groups -> Nat]
  /\ roleBox \subseteq Mails \X Roles /\ dropped \subseteq Mails \X Users
  /\ inbound \in [Mails \X Users -> Seq(Copies)]
  /\ replies \in [Users \X Senders -> Nat] /\ dedup \subseteq Users \X Senders
  /\ mishaps \in Nat /\ changes \in Nat

Copied(m) == \/ \E u \in Users : inbound[<<m, u>>] # <<>> \/ <<m, u>> \in dropped
             \/ \E a \in Roles : <<m, a>> \in roleBox

(* session.Data answers 250 only if something was really done: a message   *)
(* taken for mailboxes and roles has been queued, stored or deleted by a   *)
(* rule, whatever calls failed meanwhile.                                  *)
AcceptedLeavesTrace ==
  \A a \in accepted : a.owed \intersect Groups = {} => Copied(a.mail)

(* TryRecordAutoReply lets one reply through per correspondent and day,    *)
(* for concurrent sessions, repeated attempts and lost answers alike.      *)
OneReplyPerDay == \A p \in DOMAIN replies : replies[p] <= 1

(* A mailbox holds a second copy of a message only if a call failed, a     *)
(* connection broke or the process ended: answering 250 on partial success *)
(* is what keeps the sender from repeating what was done.                  *)
NoNeedlessDuplicate ==
  \A p \in Mails \X Users : Len(inbound[p]) <= 1 + mishaps

(* A receipt certifies the folder the enclave assigned, junk for what      *)
(* DMARC rejects, whatever fails, is retried or changes meanwhile; a copy  *)
(* is stored elsewhere, perhaps in the inbox, only where a rule of its own *)
(* recipient moves it, and a group's copy never.                           *)
ReceiptTruthful ==
  \A p \in Mails \X Users : \A i \in DOMAIN inbound[p] :
     LET c == inbound[p][i]
     IN /\ c.receipt = c.folder
        /\ p[1] \in Reject => c.receipt = "junk"
        /\ c.moved => c.group = NoUser /\ rule[p[2]] = "move"

(* Types, and a receipt certifies the folder the enclave assigned, junk    *)
(* for what DMARC rejects: only a rule of the recipient's own stores the   *)
(* message in another folder than its receipt says.                        *)
InboundInv == TypeOK /\ ReceiptTruthful

(* A group copy goes to members of the epoch it is encrypted for, although *)
(* the key is rotated and members join and leave between reading the group *)
(* and listing its members.                                                *)
NoPreJoinHistory ==
  \A p \in Mails \X Users : \A i \in DOMAIN inbound[p] :
     LET c == inbound[p][i]
     IN c.group \in Groups => <<c.group, p[2], c.epoch>> \in entitled

(* Whoever an accepted message was meant for is served: session.Data says  *)
(* each target is delivered individually and failures bounce.              *)
AcceptedIsDelivered == \A a \in accepted : a.owed \subseteq a.got

(* The sender of every message is told its fate: every recipient is        *)
(* accepted, refused or given up, and no session hangs.                    *)
EveryMailSettled == \A m \in Mails : <>[](pending[m] = {})
=============================================================================
