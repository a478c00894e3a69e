--------------------------- MODULE InboundProofs ---------------------------
(* What the smtp-inbound enclave never gets wrong, for every directory of  *)
(* mailboxes, aliases and groups, every set of messages and sessions, and  *)
(* every number of failed calls, broken connections and crashes.           *)
EXTENDS Inbound, FiniteSetTheorems, SequenceTheorems, TLAPS

USE InboundAssumption

-----------------------------------------------------------------------------
(* The invariants.                                                         *)

(* What a session is working on exists; the buffer is whole until the      *)
(* first delivery returns; what DMARC rejects is filed as junk.            *)
SessionOK(r) ==
    /\ r.pc = "role" => r.roleRecipients # <<>>
    /\ r.pc = "expand" => r.recipients # <<>>
    /\ r.pc \in Serving \union {"parse"} => r.targets # <<>>
    /\ r.pc \in {"group", "members", "fan"} => r.groupRecipients # <<>>
    /\ r.pc \in Serving => r.raw = "whole"
    /\ r.pc \in {"members", "fan"} => r.raw = "zeroed"
    /\ r.pc # "idle" => r.try # 0
    /\ r.pc \in {"idle", "rcpt"} => ~r.orphan /\ r.got = {}
    /\ r.counted => r.pc = "fan"
    /\ r.pc \in Serving \union {"members", "fan"} /\ r.mail \in Reject => r.folder = "junk"
    /\ r.pc = "rcpt" => r.ask \subseteq DOMAIN Rcpts[r.mail]
    /\ \A k \in DOMAIN r.targets : r.targets[k] \in r.delivered

SessionInv == \A s \in Sessions : SessionOK(sess[s])

(* A message is marked as moved after the rules, for a user whose rule     *)
(* moves it, until it is queued.                                           *)
MovedOK(r) == r.moved => r.pc \in {"reserve", "reply", "queue"} /\ rule[r.user] = "move"
MovedInv == \A s \in Sessions : MovedOK(sess[s])

(* Delivered to a mailbox or a role, a message has left a trace.           *)
TraceInv ==
    /\ \A s \in Sessions : sess[s].got \ Groups # {} => Copied(sess[s].mail)
    /\ \A a \in accepted : a.mail \in Mails
    /\ AcceptedLeavesTrace

(* Whose reply a session has reserved.                                     *)
ReplyOf(r) == <<r.user, From[r.mail]>>
Replying(r) == r.pc = "reply"

(* The dedup row is there before the reply, and one session holds it.      *)
ReplyInv ==
    /\ \A p \in Users \X Senders : p \notin dedup => replies[p] = 0
    /\ \A s \in Sessions : Replying(sess[s]) =>
         ReplyOf(sess[s]) \in dedup /\ replies[ReplyOf(sess[s])] = 0
    /\ \A s, t \in Sessions :
         Replying(sess[s]) /\ Replying(sess[t]) /\ ReplyOf(sess[s]) = ReplyOf(sess[t]) => s = t
    /\ OneReplyPerDay

(* A member is entitled to every epoch since it joined; a session reads    *)
(* an epoch that has been current, and fans out to those entitled to it.   *)
Entitled ==
    \A g \in Groups, u \in Users : members[g][u] >= 0 =>
         /\ members[g][u] <= epoch[g]
         /\ \A e \in Nat : members[g][u] <= e /\ e <= epoch[g] => <<g, u, e>> \in entitled
EpochInv ==
    /\ Entitled
    /\ \A s \in Sessions : sess[s].pc = "members" => sess[s].epoch <= epoch[Head(sess[s].groupRecipients)]
    /\ \A s \in Sessions : \A u \in sess[s].fan :
         <<Head(sess[s].groupRecipients), u, sess[s].epoch>> \in entitled
    /\ NoPreJoinHistory

(* A sender runs one attempt at a time, for all it still owes.             *)
Running(r, m) == r.mail = m /\ ~r.orphan
Asking(r, m, a) == a \in r.took \/ (r.pc = "rcpt" /\ \E k \in r.ask : Rcpts[m][k] = a)
Attempts(S, P) ==
    /\ \A m \in Mails : P[m] \subseteq ToSet(Rcpts[m])
    /\ \A m \in Mails, s, t \in Sessions : Running(S[s], m) /\ Running(S[t], m) => s = t
    /\ \A m \in Mails, s \in Sessions : Running(S[s], m) => \A a \in P[m] : Asking(S[s], m, a)
AttemptInv == Attempts(sess, pending)

(* A session may still queue a copy for u; its answer will be a 250.       *)
Able(r, u) == r.raw = "whole" \/ r.pc = "members" \/ (r.pc = "fan" /\ u \in r.fan)
Sure(r) == r.got # {} \/ r.counted

(* The attempts of S whose sender is gone and that may still queue a copy  *)
(* of message m for mailbox u.                                             *)
Loose(S, m, u) == {s \in Sessions : S[s].orphan /\ S[s].mail = m /\ Able(S[s], u)}
(* Nothing more will be sent, or the attempt that will settle it is past   *)
(* its copy.                                                               *)
Closed(S, P, m, u) ==
    \/ P = {} /\ \A s \in Sessions : ~Running(S[s], m)
    \/ \E s \in Sessions : Running(S[s], m) /\ Sure(S[s]) /\ ~Able(S[s], u)

(* Of n copies queued and those still to come, every one but one is paid   *)
(* for by one of k mishaps.                                                *)
Paid(S, P, m, u, n, k) ==
    /\ IsFiniteSet(Loose(S, m, u))
    /\ n + Cardinality(Loose(S, m, u)) <= k + (IF Closed(S, P, m, u) THEN 1 ELSE 0)
CopyInv ==
    \A m \in Mails, u \in Users : Paid(sess, pending[m], m, u, Len(inbound[<<m, u>>]), mishaps)

-----------------------------------------------------------------------------
(* What the steps of session.Data do to the session's record.              *)

(* A session's record has its types and is what its control point needs.   *)
Sound(r) ==
    /\ r \in Session
    /\ r.got \subseteq r.delivered
    /\ (r.user # NoUser) <=> r.pc \in Serving
    /\ (r.mail = NoMail) <=> (r.pc = "idle")
    /\ (r.pc = "fan") <=> (r.fan # {})
    /\ SessionOK(r)

(* What no step of a delivery changes, and what it only adds to.           *)
Kept(r, q) ==
    /\ q.mail = r.mail /\ q.try = r.try /\ q.orphan = r.orphan /\ q.took = r.took
    /\ r.got \subseteq q.got
Nexts == {"role", "parse", "expand", "group", "answer"}

LEMMA SeqFacts ==
    ASSUME NEW S, NEW t \in Seq(S)
    PROVE  /\ \A k \in DOMAIN t : t[k] \in S
           /\ t # <<>> => /\ Head(t) \in S /\ Tail(t) \in Seq(S) /\ 1 \in DOMAIN t /\ Head(t) = t[1]
                          /\ \A k \in DOMAIN Tail(t) : k + 1 \in DOMAIN t /\ Tail(t)[k] = t[k + 1]
  OBVIOUS

LEMMA SeqAppend ==
    ASSUME NEW S, NEW t \in Seq(S), NEW x \in S
    PROVE  /\ Append(t, x) \in Seq(S) /\ Append(t, x) # <<>> /\ Len(Append(t, x)) = Len(t) + 1 /\ Len(t) \in Nat
           /\ \A k \in DOMAIN Append(t, x) : Append(t, x)[k] = x \/ (k \in DOMAIN t /\ Append(t, x)[k] = t[k])
  <1>1. Append(t, x) \in Seq(S) /\ Len(Append(t, x)) = Len(t) + 1 /\ Len(t) \in Nat
    OBVIOUS
  <1>2. ASSUME NEW k \in DOMAIN Append(t, x)
        PROVE  Append(t, x)[k] = x \/ (k \in DOMAIN t /\ Append(t, x)[k] = t[k])
    <2>1. k \in 1..(Len(t) + 1)
      BY <1>1
    <2>2. CASE k = Len(t) + 1
      BY <2>2
    <2>3. CASE k \in 1..Len(t)
      BY <2>3
    <2> QED
      BY <2>1, <2>2, <2>3
  <1>3. Append(t, x) # <<>>
    BY AppendProperties
  <1> QED
    BY <1>1, <1>2, <1>3

(* The control point after a recipient, a target or a group is served.     *)
LEMMA Continued ==
    ASSUME NEW X \in Session, X.mail # NoMail, X.try # 0, X.user = NoUser, X.fan = {}, ~X.counted,
           X.got \subseteq X.delivered, \A k \in DOMAIN X.targets : X.targets[k] \in X.delivered,
           NEW q, q = [X EXCEPT !.pc = NextPc(X)]
    PROVE  /\ Sound(q) /\ q.pc \in Nexts
           /\ q.mail = X.mail /\ q.try = X.try /\ q.orphan = X.orphan /\ q.took = X.took /\ q.got = X.got
           /\ q.raw = X.raw /\ q.user = NoUser /\ q.fan = {} /\ ~q.counted /\ q.moved = X.moved
  <1>1. NextPc(X) \in Nexts
    BY DEF NextPc, Nexts
  <1>2. PICK pc : pc = NextPc(X)
    OBVIOUS
  <1>3. q \in Session
    BY <1>1, <1>2, ZenonT(40) DEF Session, Pcs, Nexts
  <1>4. /\ q.pc = pc /\ q.mail = X.mail /\ q.try = X.try /\ q.orphan = X.orphan /\ q.took = X.took
        /\ q.got = X.got /\ q.raw = X.raw /\ q.user = NoUser /\ q.fan = {} /\ ~q.counted
        /\ q.roleRecipients = X.roleRecipients /\ q.recipients = X.recipients /\ q.targets = X.targets
        /\ q.groupRecipients = X.groupRecipients /\ q.delivered = X.delivered /\ q.moved = X.moved
    BY <1>2 DEF Session
  <1>5. /\ pc = "role" => X.roleRecipients # <<>>
        /\ pc = "expand" => X.recipients # <<>>
        /\ pc = "parse" => X.targets # <<>>
        /\ pc = "group" => X.groupRecipients # <<>>
    BY <1>2 DEF NextPc
  <1>6. pc \notin Serving \union {"members", "fan", "idle", "rcpt"}
    BY <1>1, <1>2 DEF Nexts, Serving
  <1> QED
    BY <1>1, <1>2, <1>3, <1>4, <1>5, <1>6 DEF Sound, SessionOK

(* A record in the middle of a delivery, as far as Continue needs it.      *)
LEMMA Delivering ==
    ASSUME NEW r, Sound(r), r.pc \notin {"idle", "rcpt"}
    PROVE  /\ r.mail \in Mails /\ r.try # 0 /\ r.try \in 1..MaxTries
           /\ r.pc # "fan" => r.fan = {} /\ ~r.counted
           /\ r.pc \notin Serving => r.user = NoUser
           /\ r.pc \in Serving => r.user \in Users
           /\ r.got \subseteq r.delivered /\ r.delivered \subseteq Addresses
           /\ \A k \in DOMAIN r.targets : r.targets[k] \in r.delivered
  BY DEF Sound, SessionOK, Session

Returned(r, ok) ==
    LET X == [r EXCEPT !.targets = Tail(@), !.raw = "zeroed", !.user = NoUser, !.folder = "inbox",
                       !.moved = FALSE, !.got = IF ok THEN @ \union {Head(r.targets)} ELSE @]
    IN  [X EXCEPT !.pc = NextPc(X)]

LEMMA ReturnedFacts ==
    ASSUME NEW r, Sound(r), r.pc \in Serving \union {"parse"}, NEW ok \in BOOLEAN, NEW q, q = Returned(r, ok)
    PROVE  /\ Sound(q) /\ Kept(r, q) /\ q.pc \in Nexts /\ q.raw = "zeroed" /\ q.fan = {} /\ ~q.counted
           /\ q.got = IF ok THEN r.got \union {Head(r.targets)} ELSE r.got
  <1>0. r \in Session /\ r.targets \in Seq(Addresses) /\ r.targets # <<>> /\ r.pc \notin {"idle", "rcpt", "fan"}
    BY DEF Sound, SessionOK, Session, Serving
  <1>1. PICK t : t = Tail(r.targets)
    OBVIOUS
  <1>2. PICK g : g = IF ok THEN r.got \union {Head(r.targets)} ELSE r.got
    OBVIOUS
  <1>3. PICK X : X = [r EXCEPT !.targets = t, !.raw = "zeroed", !.user = NoUser, !.folder = "inbox",
                               !.moved = FALSE, !.got = g]
    OBVIOUS
  <1>4. q = [X EXCEPT !.pc = NextPc(X)]
    BY <1>1, <1>2, <1>3 DEF Returned
  <1>5. /\ t \in Seq(Addresses) /\ \A k \in DOMAIN t : t[k] \in r.delivered
        /\ g \in SUBSET Addresses /\ g \subseteq r.delivered /\ r.got \subseteq g
    <2>1. Head(r.targets) \in r.delivered
      BY <1>0, SeqFacts, Delivering
    <2>2. t \in Seq(Addresses) /\ \A k \in DOMAIN t : t[k] \in r.delivered
      BY <1>0, <1>1, SeqFacts, Delivering
    <2> QED
      BY <1>0, <1>2, <2>1, <2>2, Delivering
  <1>6. X \in Session
    BY <1>0, <1>3, <1>5 DEF Session, Folders
  <1>7. /\ X.targets = t /\ X.raw = "zeroed" /\ X.user = NoUser /\ X.got = g /\ X.delivered = r.delivered
        /\ X.mail = r.mail /\ X.try = r.try /\ X.orphan = r.orphan /\ X.took = r.took
        /\ X.fan = r.fan /\ X.counted = r.counted
    BY <1>0, <1>3 DEF Session
  <1>8. X.mail # NoMail /\ X.try # 0 /\ X.fan = {} /\ ~X.counted
    BY <1>0, <1>7, Delivering
  <1> QED
    BY <1>2, <1>4, <1>5, <1>6, <1>7, <1>8, Continued, ZenonT(40) DEF Kept

GroupReturned(r, ok) ==
    LET g == Head(r.groupRecipients)
        X == [r EXCEPT !.groupRecipients = Tail(@), !.delivered = @ \union {g},
                !.got = IF ok THEN @ \union {g} ELSE @, !.fan = {}, !.counted = FALSE,
                !.folder = "inbox", !.epoch = 0]
    IN  [X EXCEPT !.pc = NextPc(X)]

LEMMA GroupReturnedFacts ==
    ASSUME NEW r \in Session, r.mail # NoMail, r.try # 0, r.user = NoUser, r.got \subseteq r.delivered,
           \A k \in DOMAIN r.targets : r.targets[k] \in r.delivered,
           r.groupRecipients # <<>>, NEW ok \in BOOLEAN, NEW q, q = GroupReturned(r, ok)
    PROVE  /\ Sound(q) /\ Kept(r, q) /\ q.pc \in Nexts /\ q.raw = r.raw /\ q.fan = {} /\ ~q.counted
           /\ q.got = IF ok THEN r.got \union {Head(r.groupRecipients)} ELSE r.got
           /\ Head(r.groupRecipients) \in Groups
  <1>0. r.groupRecipients \in Seq(Groups) /\ r.delivered \in SUBSET Addresses /\ r.got \in SUBSET Addresses
    BY DEF Session
  <1>1. PICK t : t = Tail(r.groupRecipients)
    OBVIOUS
  <1>2. PICK h : h = Head(r.groupRecipients)
    OBVIOUS
  <1>3. PICK g : g = IF ok THEN r.got \union {h} ELSE r.got
    OBVIOUS
  <1>4. PICK d : d = r.delivered \union {h}
    OBVIOUS
  <1>5. PICK X : X = [r EXCEPT !.groupRecipients = t, !.delivered = d, !.got = g, !.fan = {}, !.counted = FALSE,
                               !.folder = "inbox", !.epoch = 0]
    OBVIOUS
  <1>6. q = [X EXCEPT !.pc = NextPc(X)]
    BY <1>1, <1>2, <1>3, <1>4, <1>5 DEF GroupReturned
  <1>7. t \in Seq(Groups) /\ h \in Groups
    BY <1>0, <1>1, <1>2, SeqFacts
  <1>8. d \in SUBSET Addresses /\ g \in SUBSET Addresses /\ g \subseteq d /\ r.got \subseteq g /\ r.delivered \subseteq d
    BY <1>0, <1>3, <1>4, <1>7 DEF Addresses
  <1>9. X \in Session
    BY <1>5, <1>7, <1>8 DEF Session, Folders
  <1>10. /\ X.targets = r.targets /\ X.raw = r.raw /\ X.user = r.user /\ X.got = g /\ X.delivered = d
         /\ X.mail = r.mail /\ X.try = r.try /\ X.orphan = r.orphan /\ X.took = r.took
         /\ X.fan = {} /\ ~X.counted
    BY <1>5 DEF Session
  <1>11. \A k \in DOMAIN X.targets : X.targets[k] \in X.delivered
    BY <1>8, <1>10
  <1> QED
    BY <1>2, <1>3, <1>6, <1>7, <1>8, <1>9, <1>10, <1>11, Continued, ZenonT(40) DEF Kept

(* From one step of ProcessMessage to the next.                            *)
Moved(r, l, u, f) == [r EXCEPT !.pc = l, !.user = u, !.folder = f]

LEMMA Served ==
    ASSUME NEW r, Sound(r), r.pc \in Serving \union {"parse"}, r.raw = "whole",
           NEW l \in Serving, NEW u \in Users, NEW f \in Folders, r.mail \in Reject => f = "junk",
           NEW q, q = Moved(r, l, u, f)
    PROVE  /\ Sound(q) /\ Kept(r, q) /\ q.pc = l /\ q.user = u /\ q.folder = f /\ q.raw = "whole"
           /\ q.fan = {} /\ ~q.counted /\ q.got = r.got
  <1>0. r \in Session /\ r.targets # <<>> /\ r.pc \notin {"idle", "rcpt", "fan"}
    BY DEF Sound, SessionOK, Serving
  <1>1. /\ r.mail \in Mails /\ r.try # 0 /\ r.fan = {} /\ ~r.counted /\ r.got \subseteq r.delivered
        /\ \A k \in DOMAIN r.targets : r.targets[k] \in r.delivered
    BY <1>0, Delivering
  <1>2. l \in Pcs /\ l \notin {"idle", "rcpt", "role", "expand", "group", "members", "fan"} /\ NoUser \notin Users
    BY DEF Pcs, Serving
  <1>3. q \in Session
    BY <1>0, <1>2 DEF Session, Moved
  <1>4. /\ q.pc = l /\ q.user = u /\ q.folder = f /\ q.raw = r.raw /\ q.fan = r.fan /\ q.counted = r.counted
        /\ q.got = r.got /\ q.delivered = r.delivered /\ q.targets = r.targets
        /\ q.mail = r.mail /\ q.try = r.try /\ q.orphan = r.orphan /\ q.took = r.took
    BY <1>0 DEF Session, Moved
  <1> QED
    BY <1>0, <1>1, <1>2, <1>3, <1>4 DEF Sound, SessionOK, Kept

-----------------------------------------------------------------------------
(* The steps of a session, one lemma each.                                 *)

Good == TypeOK /\ SessionInv

LEMMA GoodSession ==
    ASSUME Good
    PROVE  sess \in [Sessions -> Session] /\ \A s \in Sessions : Sound(sess[s])
  BY DEF Good, TypeOK, SessionInv, Sound

LEMMA SetFacts ==
    ASSUME Good, NEW s \in Sessions, NEW X, Set(s, X)
    PROVE  sess'[s] = X /\ \A t \in Sessions \ {s} : sess'[t] = sess[t]
  BY GoodSession DEF Set

LEMMA CallFacts ==
    ASSUME Good, NEW s, NEW ok \in BOOLEAN, NEW done \in BOOLEAN, Call(s, ok, done)
    PROVE  /\ ok => done
           /\ (UNCHANGED mishaps /\ (done => ok)) \/ (mishaps' = mishaps + 1 /\ ~ok)
           /\ UNCHANGED changes
  BY DEF Call, Mishap, budget, Good, TypeOK

LEMMA ResolveFacts ==
    ASSUME TypeOK, NEW a
    PROVE  Resolve(a) \subseteq Users /\ IsFiniteSet(Resolve(a))
  <1>1. Resolve(a) \in SUBSET Users
    BY DEF Resolve, Fallback, TypeOK
  <1> QED
    BY <1>1, FS_Subset

LEMMA LookupFacts ==
    ASSUME TypeOK, NEW a, NEW ok, NEW done
    PROVE  Lookup(a, ok, done) \subseteq Users /\ IsFiniteSet(Lookup(a, ok, done))
  <1>1. Lookup(a, ok, done) \in SUBSET Users
    BY DEF Lookup, Resolve, Fallback, TypeOK
  <1> QED
    BY <1>1, FS_Subset

RoleStored(r, q) ==
    /\ r.pc = "role" /\ Sound(q) /\ Kept(r, q) /\ q.pc \in Nexts
    /\ q.raw = r.raw /\ q.fan = {} /\ ~q.counted
    /\ UNCHANGED mishaps \/ mishaps' = mishaps + 1
    /\ roleBox \subseteq roleBox' /\ roleBox' \subseteq Mails \X Roles
    /\ q.got = r.got \/ \E a \in Roles : <<r.mail, a>> \in roleBox'

LEMMA InsertRoleFacts ==
    ASSUME Good, NEW s \in Sessions, InsertRole(s), NEW r, r = sess[s], NEW q, q = sess'[s]
    PROVE  RoleStored(r, q)
  <1>0. r.pc = "role" /\ Sound(r) /\ r \in Session /\ r.roleRecipients # <<>> /\ r.roleRecipients \in Seq(Roles)
    BY GoodSession DEF InsertRole, Sound, SessionOK, Session
  <1>1. PICK ok \in BOOLEAN, done \in BOOLEAN :
          /\ Call(s, ok, done)
          /\ roleBox' = IF done THEN roleBox \union {<<r.mail, Head(r.roleRecipients)>>} ELSE roleBox
          /\ Continue(s, [r EXCEPT !.roleRecipients = Tail(@), !.delivered = @ \union {Head(r.roleRecipients)},
                                   !.got = IF ok THEN @ \union {Head(r.roleRecipients)} ELSE @])
    BY DEF InsertRole
  <1>2. PICK a : a = Head(r.roleRecipients)
    OBVIOUS
  <1>3. PICK t : t = Tail(r.roleRecipients)
    OBVIOUS
  <1>4. PICK d : d = r.delivered \union {a}
    OBVIOUS
  <1>5. PICK g : g = IF ok THEN r.got \union {a} ELSE r.got
    OBVIOUS
  <1>6. PICK X : X = [r EXCEPT !.roleRecipients = t, !.delivered = d, !.got = g]
    OBVIOUS
  <1>7. q = [X EXCEPT !.pc = NextPc(X)]
    BY <1>1, <1>2, <1>3, <1>4, <1>5, <1>6, SetFacts DEF Continue
  <1>8. /\ r.mail \in Mails /\ r.try # 0 /\ r.fan = {} /\ ~r.counted /\ r.user = NoUser /\ r.got \subseteq r.delivered
        /\ r.delivered \subseteq Addresses /\ \A k \in DOMAIN r.targets : r.targets[k] \in r.delivered
    BY <1>0, Delivering DEF Serving
  <1>9. a \in Roles /\ t \in Seq(Roles) /\ d \in SUBSET Addresses /\ g \in SUBSET Addresses /\ g \subseteq d
        /\ r.delivered \subseteq d /\ r.got \subseteq g
    <2>1. a \in Roles /\ t \in Seq(Roles)
      BY <1>0, <1>2, <1>3, SeqFacts
    <2> QED
      BY <1>4, <1>5, <1>8, <2>1 DEF Addresses
  <1>10. X \in Session
    BY <1>0, <1>6, <1>9 DEF Session
  <1>11. /\ X.targets = r.targets /\ X.raw = r.raw /\ X.user = r.user /\ X.got = g /\ X.delivered = d
         /\ X.mail = r.mail /\ X.try = r.try /\ X.orphan = r.orphan /\ X.took = r.took
         /\ X.fan = r.fan /\ X.counted = r.counted
    BY <1>0, <1>6 DEF Session
  <1>12. \A k \in DOMAIN X.targets : X.targets[k] \in X.delivered
    BY <1>8, <1>9, <1>11
  <1>b. X.mail # NoMail /\ X.try # 0 /\ X.fan = {} /\ ~X.counted /\ X.user = NoUser /\ X.got \subseteq X.delivered
    BY <1>8, <1>9, <1>11
  <1>13. Sound(q) /\ Kept(r, q) /\ q.pc \in Nexts /\ q.raw = r.raw /\ q.fan = {} /\ ~q.counted /\ q.got = g
    BY <1>7, <1>9, <1>10, <1>11, <1>12, <1>b, Continued, ZenonT(40) DEF Kept
  <1>14. q.got = r.got \/ <<r.mail, a>> \in roleBox'
    BY <1>1, <1>2, <1>5, <1>13, CallFacts
  <1>15. roleBox \subseteq roleBox' /\ roleBox' \subseteq Mails \X Roles
    BY <1>1, <1>2, <1>8, <1>9 DEF Good, TypeOK
  <1>16. UNCHANGED mishaps \/ mishaps' = mishaps + 1
    BY <1>1, CallFacts
  <1> QED
    BY <1>0, <1>9, <1>13, <1>14, <1>15, <1>16 DEF RoleStored

Expanded(r, q) ==
    /\ r.pc = "expand" /\ Sound(q) /\ Kept(r, q) /\ q.pc \in Nexts
    /\ q.raw = r.raw /\ q.fan = {} /\ ~q.counted /\ q.got = r.got
    /\ UNCHANGED mishaps \/ mishaps' = mishaps + 1

LEMMA ExpandFacts ==
    ASSUME Good, NEW s \in Sessions, Expand(s), NEW r, r = sess[s], NEW q, q = sess'[s]
    PROVE  Expanded(r, q)
  <1>0. r.pc = "expand" /\ Sound(r) /\ r \in Session /\ r.recipients # <<>> /\ r.recipients \in Seq(Addresses)
    BY GoodSession DEF Expand, Sound, SessionOK, Session
  <1>1. PICK a : a = Head(r.recipients)
    OBVIOUS
  <1> DEFINE R(ok, done) == (IF Lookup(a, ok, done) # {} THEN Lookup(a, ok, done) ELSE {a}) \ r.delivered
  <1>b. PICK ok \in BOOLEAN, done \in BOOLEAN :
          /\ Call(s, ok, done)
          /\ \E z \in SetToSeqs(R(ok, done)) : Continue(s, [r EXCEPT !.recipients = Tail(@), !.targets = z,
                                                               !.delivered = @ \union R(ok, done)])
    <2>1. PICK ok \in BOOLEAN, done \in BOOLEAN :
            /\ Call(s, ok, done)
            /\ \E z \in SetToSeqs((IF Lookup(Head(sess[s].recipients), ok, done) # {}
                                  THEN Lookup(Head(sess[s].recipients), ok, done)
                                  ELSE {Head(sess[s].recipients)}) \ sess[s].delivered) :
                 Continue(s, [sess[s] EXCEPT !.recipients = Tail(@), !.targets = z,
                   !.delivered = @ \union ((IF Lookup(Head(sess[s].recipients), ok, done) # {}
                                  THEN Lookup(Head(sess[s].recipients), ok, done)
                                  ELSE {Head(sess[s].recipients)}) \ sess[s].delivered)])
      BY ONLY Expand(s), ZenonT(40) DEF Expand
    <2>2. Head(sess[s].recipients) = a /\ sess[s] = r
      BY <1>1
    <2> QED
      BY <2>1, <2>2
  <1>2. PICK T : T = R(ok, done)
    OBVIOUS
  <1>3. PICK z \in SetToSeqs(T) : Continue(s, [r EXCEPT !.recipients = Tail(@), !.targets = z,
                                                        !.delivered = @ \union T])
    BY <1>2, <1>b
  <1>4. PICK t : t = Tail(r.recipients)
    OBVIOUS
  <1>5. PICK d : d = r.delivered \union T
    OBVIOUS
  <1>6. PICK X : X = [r EXCEPT !.recipients = t, !.targets = z, !.delivered = d]
    OBVIOUS
  <1>7. q = [X EXCEPT !.pc = NextPc(X)]
    BY <1>3, <1>4, <1>5, <1>6, SetFacts DEF Continue
  <1>8. /\ r.mail \in Mails /\ r.try # 0 /\ r.fan = {} /\ ~r.counted /\ r.user = NoUser /\ r.got \subseteq r.delivered
        /\ r.delivered \subseteq Addresses
    BY <1>0, Delivering DEF Serving
  <1>9. a \in Addresses /\ t \in Seq(Addresses)
    BY <1>0, <1>1, <1>4, SeqFacts
  <1>10. T \subseteq Addresses /\ IsFiniteSet(T)
    <2>1. PICK U : U = IF Lookup(a, ok, done) # {} THEN Lookup(a, ok, done) ELSE {a}
      OBVIOUS
    <2>2. U \subseteq Addresses /\ IsFiniteSet(U)
      BY <1>9, <2>1, LookupFacts, FS_Singleton DEF Addresses, Good
    <2>3. T \in SUBSET U
      BY <1>2, <2>1
    <2> QED
      BY <2>2, <2>3, FS_Subset
  <1>11. z \in Seq(T) /\ \A k \in DOMAIN z : z[k] \in T
    <2>1. Cardinality(T) \in Nat
      BY <1>10, FS_CardinalityType
    <2>2. z \in [1..Cardinality(T) -> T]
      BY DEF SetToSeqs
    <2>3. PICK n \in Nat : z \in [1..n -> T]
      BY <2>1, <2>2
    <2>4. z \in Seq(T)
      BY <2>3, SeqDef
    <2> QED
      BY <2>3, <2>4
  <1>12. z \in Seq(Addresses) /\ d \in SUBSET Addresses /\ r.delivered \subseteq d
    BY <1>5, <1>8, <1>10, <1>11
  <1>13. X \in Session
    BY <1>0, <1>6, <1>9, <1>12 DEF Session
  <1>14. /\ X.targets = z /\ X.raw = r.raw /\ X.user = r.user /\ X.got = r.got /\ X.delivered = d
         /\ X.mail = r.mail /\ X.try = r.try /\ X.orphan = r.orphan /\ X.took = r.took
         /\ X.fan = r.fan /\ X.counted = r.counted
    BY <1>0, <1>6 DEF Session
  <1>15. \A k \in DOMAIN X.targets : X.targets[k] \in X.delivered
    BY <1>5, <1>11, <1>14
  <1>c. X.mail # NoMail /\ X.try # 0 /\ X.fan = {} /\ ~X.counted /\ X.user = NoUser /\ X.got \subseteq X.delivered
    BY <1>8, <1>12, <1>14
  <1>16. Sound(q) /\ Kept(r, q) /\ q.pc \in Nexts /\ q.raw = r.raw /\ q.fan = {} /\ ~q.counted /\ q.got = r.got
    BY <1>7, <1>13, <1>14, <1>15, <1>c, Continued, ZenonT(40) DEF Kept
  <1>17. UNCHANGED mishaps \/ mishaps' = mishaps + 1
    BY <1>b, CallFacts
  <1> QED
    BY <1>0, <1>16, <1>17 DEF Expanded

Parsed(r, q) ==
    /\ r.pc = "parse" /\ Sound(q) /\ Kept(r, q) /\ q.got = r.got /\ q.fan = {} /\ ~q.counted
    /\ \/ q.pc \in Nexts /\ q.raw = "zeroed"
       \/ q.pc = "block" /\ q.raw = r.raw
    /\ UNCHANGED mishaps \/ mishaps' = mishaps + 1

LEMMA ParseFacts ==
    ASSUME Good, NEW s \in Sessions, Parse(s), NEW r, r = sess[s], NEW q, q = sess'[s]
    PROVE  Parsed(r, q)
  <1>0. r.pc = "parse" /\ Sound(r) /\ r \in Session /\ r.pc \in Serving \union {"parse"}
    BY GoodSession DEF Parse, Sound
  <1>1. CASE Return(s, FALSE)
    <2>1. q = Returned(r, FALSE)
      BY <1>1, SetFacts DEF Return, Returned, Continue
    <2>2. /\ Sound(q) /\ Kept(r, q) /\ q.pc \in Nexts /\ q.raw = "zeroed" /\ q.fan = {} /\ ~q.counted /\ q.got = r.got
      BY <1>0, <2>1, ReturnedFacts
    <2>3. UNCHANGED mishaps \/ mishaps' = mishaps + 1
      BY CallFacts, ZenonT(40) DEF Parse, budget
    <2> QED
      BY <1>0, <2>2, <2>3 DEF Parsed
  <1>2. ASSUME r.raw = "whole", NEW ok \in BOOLEAN, NEW done \in BOOLEAN, Call(s, ok, done),
               NEW u \in Lookup(Head(r.targets), ok, done),
               Set(s, [r EXCEPT !.pc = "block", !.user = u, !.folder = Filed(r.mail)])
        PROVE  /\ Sound(q) /\ Kept(r, q) /\ q.got = r.got /\ q.fan = {} /\ ~q.counted
               /\ q.pc = "block" /\ q.raw = r.raw
               /\ UNCHANGED mishaps \/ mishaps' = mishaps + 1
    <2>1. PICK f : f = Filed(r.mail)
      OBVIOUS
    <2>2. f \in Folders /\ (r.mail \in Reject => f = "junk")
      BY <2>1 DEF Filed, Folders
    <2>3. q = Moved(r, "block", u, f)
      BY <1>2, <2>1, SetFacts DEF Moved
    <2>4. u \in Users /\ "block" \in Serving
      BY LookupFacts DEF Good, Serving
    <2>5. /\ Sound(q) /\ Kept(r, q) /\ q.got = r.got /\ q.fan = {} /\ ~q.counted /\ q.pc = "block" /\ q.raw = r.raw
      BY <1>0, <1>2, <2>2, <2>3, <2>4, Served
    <2> QED
      BY <1>2, <2>5, CallFacts
  <1> QED
    BY <1>0, <1>1, <1>2 DEF Parse, Parsed

(* The steps of applyPostReceive that go on with the delivery.             *)
Stepped(r, l, f) == [r EXCEPT !.pc = l, !.folder = f]

LEMMA ServingFacts ==
    ASSUME NEW r, Sound(r), r.pc \in Serving, NEW l \in Serving, NEW f \in Folders,
           r.mail \in Reject => f = "junk", NEW q, q = Stepped(r, l, f)
    PROVE  /\ Sound(q) /\ Kept(r, q) /\ q.got = r.got /\ q.fan = {} /\ ~q.counted
           /\ q.pc = l /\ q.user = r.user /\ q.raw = "whole" /\ r.raw = "whole" /\ r.user \in Users /\ r.mail \in Mails
  <1>0. /\ r \in Session /\ r.raw = "whole" /\ r.user \in Users /\ r.mail \in Mails
        /\ r.pc \in Serving \union {"parse"}
    <2>1. r \in Session /\ r.raw = "whole"
      BY DEF Sound, SessionOK
    <2> QED
      BY <2>1, Delivering DEF Serving
  <1>1. PICK u \in Users : u = r.user
    BY <1>0
  <1>2. q = Moved(r, l, u, f)
    BY <1>0, <1>1 DEF Session, Moved, Stepped
  <1> QED
    BY <1>0, <1>1, <1>2, Served

LEMMA CheckBlockFacts ==
    ASSUME Good, NEW s \in Sessions, CheckBlock(s), NEW r, r = sess[s], NEW q, q = sess'[s]
    PROVE  /\ r.pc = "block" /\ Sound(q) /\ Kept(r, q) /\ q.got = r.got /\ q.fan = {} /\ ~q.counted
           /\ q.pc = "rules" /\ q.raw = "whole" /\ r.raw = "whole"
           /\ UNCHANGED mishaps \/ mishaps' = mishaps + 1
  <1>0. r.pc = "block" /\ Sound(r) /\ r \in Session
    BY GoodSession DEF CheckBlock, Sound
  <1>1. PICK ok \in BOOLEAN, done \in BOOLEAN :
          /\ Call(s, ok, done)
          /\ Set(s, [r EXCEPT !.pc = "rules",
               !.folder = IF ok /\ <<r.user, From[r.mail]>> \in blocked THEN "junk" ELSE @])
    BY DEF CheckBlock
  <1>2. PICK f : f = IF ok /\ <<r.user, From[r.mail]>> \in blocked THEN "junk" ELSE r.folder
    OBVIOUS
  <1>3. f \in Folders /\ (r.mail \in Reject => f = "junk")
    BY <1>0, <1>2 DEF Session, Folders, Sound, SessionOK, Serving
  <1>4. q = Stepped(r, "rules", f)
    BY <1>1, <1>2, SetFacts DEF Stepped
  <1>5. "rules" \in Serving /\ r.pc \in Serving
    BY <1>0 DEF Serving
  <1>6. /\ Sound(q) /\ Kept(r, q) /\ q.got = r.got /\ q.fan = {} /\ ~q.counted
        /\ q.pc = "rules" /\ q.raw = "whole" /\ r.raw = "whole"
    BY <1>0, <1>3, <1>4, <1>5, ServingFacts
  <1> QED
    BY <1>0, <1>1, <1>6, CallFacts

Gone(r, l) == [r EXCEPT !.pc = l]

LEMMA GoFacts ==
    ASSUME NEW r, Sound(r), r.pc \in Serving, NEW l \in Serving, NEW q, q = Gone(r, l)
    PROVE  /\ Sound(q) /\ Kept(r, q) /\ q.got = r.got /\ q.fan = {} /\ ~q.counted
           /\ q.pc = l /\ q.user = r.user /\ q.raw = "whole" /\ r.raw = "whole" /\ r.user \in Users /\ r.mail \in Mails
  <1>0. r \in Session
    BY DEF Sound
  <1>1. PICK f : f = r.folder
    OBVIOUS
  <1>2. f \in Folders /\ (r.mail \in Reject => f = "junk")
    BY <1>0, <1>1 DEF Session, Folders, Sound, SessionOK, Serving
  <1>3. q = Stepped(r, l, f)
    BY <1>0, <1>1 DEF Session, Stepped, Gone
  <1> QED
    BY <1>2, <1>3, ServingFacts

LEMMA MarkedFacts ==
    ASSUME NEW r, Sound(r), NEW b \in BOOLEAN, NEW x, x = [r EXCEPT !.moved = b]
    PROVE  Sound(x) /\ Kept(r, x) /\ x.pc = r.pc /\ x.got = r.got
  <1>1. r \in Session
    BY DEF Sound
  <1>2. x \in Session
    BY <1>1 DEF Session
  <1>3. /\ x.pc = r.pc /\ x.mail = r.mail /\ x.try = r.try /\ x.orphan = r.orphan /\ x.ask = r.ask /\ x.took = r.took
        /\ x.recipients = r.recipients /\ x.roleRecipients = r.roleRecipients /\ x.groupRecipients = r.groupRecipients
        /\ x.targets = r.targets /\ x.delivered = r.delivered /\ x.got = r.got /\ x.raw = r.raw /\ x.user = r.user
        /\ x.folder = r.folder /\ x.fan = r.fan /\ x.counted = r.counted
    BY <1>1 DEF Session
  <1> QED
    BY <1>2, <1>3 DEF Sound, SessionOK, Kept

RulesApplied(r, q) ==
    /\ r.pc = "rules" /\ Sound(q) /\ Kept(r, q) /\ q.fan = {} /\ ~q.counted /\ r.raw = "whole"
    /\ \/ q.pc \in Nexts /\ q.raw = "zeroed" /\ \E u \in Users : <<r.mail, u>> \in dropped'
       \/ q.pc = "reserve" /\ q.raw = "whole" /\ q.got = r.got
    /\ dropped \subseteq dropped' /\ dropped' \subseteq Mails \X Users
    /\ UNCHANGED mishaps \/ mishaps' = mishaps + 1

LEMMA EvalRulesFacts ==
    ASSUME Good, NEW s \in Sessions, EvalRules(s), NEW r, r = sess[s], NEW q, q = sess'[s]
    PROVE  RulesApplied(r, q)
  <1>0. /\ r.pc = "rules" /\ Sound(r) /\ r \in Session /\ r.pc \in Serving /\ r.raw = "whole"
        /\ r.pc \in Serving \union {"parse"}
    BY GoodSession DEF EvalRules, Sound, SessionOK, Serving
  <1>1. r.mail \in Mails /\ r.user \in Users
    BY <1>0, Delivering
  <1>2. UNCHANGED mishaps \/ mishaps' = mishaps + 1
    BY CallFacts DEF EvalRules
  <1>a. PICK act :
          \/ dropped' = dropped \union {<<r.mail, r.user>>} /\ Return(s, TRUE)
          \/ Set(s, [r EXCEPT !.pc = "reserve", !.moved = (act = "move")]) /\ UNCHANGED dropped
    BY DEF EvalRules
  <1>3. CASE dropped' = dropped \union {<<r.mail, r.user>>} /\ Return(s, TRUE)
    <2>1. q = Returned(r, TRUE)
      BY <1>3, SetFacts DEF Return, Returned, Continue
    <2>a. Sound(r) /\ r.pc \in Serving \union {"parse"}
      BY <1>0
    <2>2. /\ Sound(q) /\ Kept(r, q) /\ q.pc \in Nexts /\ q.raw = "zeroed" /\ q.fan = {} /\ ~q.counted
      BY <2>a, <2>1, ReturnedFacts
    <2>3. dropped \subseteq dropped' /\ dropped' \subseteq Mails \X Users /\ <<r.mail, r.user>> \in dropped'
      BY <1>1, <1>3 DEF Good, TypeOK
    <2> QED
      BY <1>0, <1>1, <1>2, <2>2, <2>3 DEF RulesApplied
  <1>4. CASE Set(s, [r EXCEPT !.pc = "reserve", !.moved = (act = "move")]) /\ UNCHANGED dropped
    <2>a. PICK b \in BOOLEAN : b = (act = "move")
      OBVIOUS
    <2>b. PICK x : x = [r EXCEPT !.moved = b]
      OBVIOUS
    <2>c. Sound(x) /\ Kept(r, x) /\ x.pc \in Serving /\ x.got = r.got
      BY <1>0, <2>b, MarkedFacts
    <2>e. q = [r EXCEPT !.pc = "reserve", !.moved = b]
      BY <1>4, <2>a, SetFacts
    <2>1. "reserve" \in Serving /\ q = Gone(x, "reserve")
      BY <1>0, <2>b, <2>e DEF Serving, Gone, Session
    <2>d. /\ Sound(q) /\ Kept(x, q) /\ q.got = x.got /\ q.fan = {} /\ ~q.counted /\ q.pc = "reserve" /\ q.raw = "whole"
      BY <2>c, <2>1, GoFacts
    <2>2. /\ Sound(q) /\ Kept(r, q) /\ q.got = r.got /\ q.fan = {} /\ ~q.counted /\ q.pc = "reserve" /\ q.raw = "whole"
      BY <2>c, <2>d DEF Kept
    <2>3. dropped' \subseteq Mails \X Users
      BY <1>4 DEF Good, TypeOK
    <2> QED
      BY <1>0, <1>2, <1>4, <2>2, <2>3 DEF RulesApplied
  <1> QED
    BY <1>a, <1>3, <1>4

Reserved(r, q, p) ==
    /\ r.pc = "reserve" /\ Sound(q) /\ Kept(r, q) /\ q.got = r.got /\ q.fan = {} /\ ~q.counted
    /\ q.raw = "whole" /\ r.raw = "whole" /\ q.user = r.user /\ p \in Users \X Senders
    /\ \/ q.pc = "queue" /\ dedup \subseteq dedup' /\ dedup' \subseteq dedup \union {p}
       \/ q.pc = "reply" /\ p \notin dedup /\ dedup' = dedup \union {p}
    /\ UNCHANGED mishaps \/ mishaps' = mishaps + 1

LEMMA ReserveFacts ==
    ASSUME Good, NEW s \in Sessions, Reserve(s), NEW r, r = sess[s], NEW q, q = sess'[s],
           NEW p, p = <<r.user, From[r.mail]>>
    PROVE  Reserved(r, q, p)
  <1>0. r.pc = "reserve" /\ Sound(r) /\ r.pc \in Serving
    BY GoodSession DEF Reserve, Serving
  <1>1. PICK l \in {"queue", "reply"} :
          /\ Go(s, l)
          /\ \/ l = "queue" /\ dedup \subseteq dedup' /\ dedup' \subseteq dedup \union {p}
             \/ l = "reply" /\ p \notin dedup /\ dedup' = dedup \union {p}
          /\ UNCHANGED mishaps \/ mishaps' = mishaps + 1
    <2>1. CASE Go(s, "queue") /\ UNCHANGED <<dedup, budget>>
      BY <2>1 DEF budget
    <2>2. ASSUME NEW ok \in BOOLEAN, NEW done \in BOOLEAN, Call(s, ok, done),
                 dedup' = IF done THEN dedup \union {p} ELSE dedup,
                 Go(s, IF ok /\ p \notin dedup THEN "reply" ELSE "queue")
          PROVE  \E l \in {"queue", "reply"} :
          /\ Go(s, l)
          /\ \/ l = "queue" /\ dedup \subseteq dedup' /\ dedup' \subseteq dedup \union {p}
             \/ l = "reply" /\ p \notin dedup /\ dedup' = dedup \union {p}
          /\ UNCHANGED mishaps \/ mishaps' = mishaps + 1
      <3>1. (ok => done) /\ (UNCHANGED mishaps \/ mishaps' = mishaps + 1)
        BY <2>2, CallFacts
      <3>2. CASE ok /\ p \notin dedup
        BY <2>2, <3>1, <3>2
      <3>3. CASE ~(ok /\ p \notin dedup)
        BY <2>2, <3>1, <3>3
      <3> QED
        BY <3>2, <3>3
    <2> QED
      BY <2>1, <2>2 DEF Reserve
  <1>2. l \in Serving /\ q = Gone(r, l)
    BY <1>1, SetFacts DEF Serving, Gone, Go
  <1>3. /\ Sound(q) /\ Kept(r, q) /\ q.got = r.got /\ q.fan = {} /\ ~q.counted
        /\ q.pc = l /\ q.user = r.user /\ q.raw = "whole" /\ r.raw = "whole" /\ r.user \in Users /\ r.mail \in Mails
    BY <1>0, <1>2, GoFacts
  <1>4. p \in Users \X Senders
    BY <1>3 DEF Senders
  <1> QED
    BY <1>0, <1>1, <1>3, <1>4 DEF Reserved

ReplySent(r, q, p) ==
    /\ r.pc = "reply" /\ Sound(q) /\ Kept(r, q) /\ q.got = r.got /\ q.fan = {} /\ ~q.counted
    /\ q.raw = "whole" /\ r.raw = "whole" /\ q.user = r.user /\ p \in Users \X Senders /\ q.pc = "queue"
    /\ replies' = replies \/ replies' = [replies EXCEPT ![p] = @ + 1]
    /\ UNCHANGED mishaps \/ mishaps' = mishaps + 1

LEMMA SendReplyFacts ==
    ASSUME Good, NEW s \in Sessions, SendReply(s), NEW r, r = sess[s], NEW q, q = sess'[s],
           NEW p, p = <<r.user, From[r.mail]>>
    PROVE  ReplySent(r, q, p)
  <1>0. r.pc = "reply" /\ Sound(r) /\ r.pc \in Serving
    BY GoodSession DEF SendReply, Serving
  <1>1. PICK ok \in BOOLEAN, done \in BOOLEAN :
          /\ Call(s, ok, done)
          /\ replies' = IF done THEN [replies EXCEPT ![p] = @ + 1] ELSE replies
          /\ Go(s, "queue")
    BY DEF SendReply
  <1>2. "queue" \in Serving /\ q = Gone(r, "queue")
    BY <1>1, SetFacts DEF Serving, Gone, Go
  <1>3. /\ Sound(q) /\ Kept(r, q) /\ q.got = r.got /\ q.fan = {} /\ ~q.counted
        /\ q.pc = "queue" /\ q.user = r.user /\ q.raw = "whole" /\ r.raw = "whole" /\ r.user \in Users /\ r.mail \in Mails
    BY <1>0, <1>2, GoFacts
  <1>4. p \in Users \X Senders
    BY <1>3 DEF Senders
  <1>5. UNCHANGED mishaps \/ mishaps' = mishaps + 1
    BY <1>1, CallFacts
  <1> QED
    BY <1>0, <1>1, <1>3, <1>4, <1>5 DEF ReplySent

(* A copy is filed as its receipt says, and where DMARC puts it.           *)
Truthful(c, m) == c \in Copies /\ c.receipt = c.folder /\ (m \in Reject => c.folder = "junk")

Published(r, q) ==
    /\ r.pc = "queue" /\ Sound(q) /\ Kept(r, q) /\ q.pc \in Nexts /\ q.raw = "zeroed" /\ q.fan = {} /\ ~q.counted
    /\ r.raw = "whole" /\ r.mail \in Mails /\ r.user \in Users
    /\ UNCHANGED mishaps \/ mishaps' = mishaps + 1
    /\ \E c : /\ Truthful(c, r.mail) /\ c.group = NoUser /\ c.moved = r.moved
              /\ \/ inbound' = Queued(r.mail, r.user, c) /\ (q.got # {} \/ mishaps' = mishaps + 1)
                 \/ inbound' = inbound /\ q.got = r.got

LEMMA PublishFacts ==
    ASSUME Good, NEW s \in Sessions, Publish(s), NEW r, r = sess[s], NEW q, q = sess'[s]
    PROVE  Published(r, q)
  <1>0. /\ r.pc = "queue" /\ Sound(r) /\ r \in Session /\ r.pc \in Serving /\ r.raw = "whole"
    BY GoodSession DEF Publish, Sound, SessionOK, Serving
  <1>1. r.mail \in Mails /\ r.user \in Users /\ r.try \in 1..MaxTries
    BY <1>0, Delivering
  <1>2. PICK ok \in BOOLEAN, done \in BOOLEAN :
          /\ Call(s, ok, done)
          /\ inbound' = IF done THEN Queued(r.mail, r.user, Copy(s)) ELSE inbound
          /\ Return(s, ok)
    BY DEF Publish
  <1>3. q = Returned(r, ok)
    BY <1>2, SetFacts DEF Return, Returned, Continue
  <1>a. Sound(r) /\ r.pc \in Serving \union {"parse"}
    BY <1>0
  <1>4. /\ Sound(q) /\ Kept(r, q) /\ q.pc \in Nexts /\ q.raw = "zeroed" /\ q.fan = {} /\ ~q.counted
        /\ q.got = IF ok THEN r.got \union {Head(r.targets)} ELSE r.got
    <2>1. CASE ok = TRUE
      <3>1. q = Returned(r, TRUE)
        BY <1>3, <2>1
      <3>2. /\ Sound(q) /\ Kept(r, q) /\ q.pc \in Nexts /\ q.raw = "zeroed" /\ q.fan = {} /\ ~q.counted
            /\ q.got = r.got \union {Head(r.targets)}
        BY <1>a, <3>1, ReturnedFacts
      <3> QED
        BY <2>1, <3>2
    <2>2. CASE ok = FALSE
      <3>1. q = Returned(r, FALSE)
        BY <1>3, <2>2
      <3>2. /\ Sound(q) /\ Kept(r, q) /\ q.pc \in Nexts /\ q.raw = "zeroed" /\ q.fan = {} /\ ~q.counted
            /\ q.got = r.got
        BY <1>a, <3>1, ReturnedFacts
      <3> QED
        BY <2>2, <3>2
    <2> QED
      BY <2>1, <2>2
  <1>5. (ok => done) /\ (UNCHANGED mishaps \/ mishaps' = mishaps + 1) /\ (done /\ ~ok => mishaps' = mishaps + 1)
    BY <1>2, CallFacts
  <1>6. PICK c : c = Copy(s)
    OBVIOUS
  <1>7. c = [folder |-> r.folder, moved |-> r.moved, receipt |-> r.folder, group |-> NoUser, epoch |-> 0,
             try |-> r.try]
    BY <1>6 DEF Copy
  <1>8. r.folder \in Folders /\ (r.mail \in Reject => r.folder = "junk") /\ r.moved \in BOOLEAN
    BY <1>0 DEF Sound, SessionOK, Session
  <1>9. Truthful(c, r.mail) /\ c.group = NoUser /\ c.moved = r.moved
    BY <1>1, <1>7, <1>8 DEF Truthful, Copies
  <1>10. \/ inbound' = Queued(r.mail, r.user, c) /\ (q.got # {} \/ mishaps' = mishaps + 1)
         \/ inbound' = inbound /\ q.got = r.got
    <2>1. CASE done
      BY <1>2, <1>4, <1>5, <1>6, <2>1
    <2>2. CASE ~done
      BY <1>2, <1>4, <1>5, <2>2
    <2> QED
      BY <2>1, <2>2
  <1> QED
    BY <1>0, <1>1, <1>4, <1>5, <1>9, <1>10 DEF Published

(* A record that serves a group, as far as GroupReturn needs it.           *)
Posting(r) ==
    /\ r \in Session /\ r.mail # NoMail /\ r.try # 0 /\ r.user = NoUser /\ r.got \subseteq r.delivered
    /\ \A k \in DOMAIN r.targets : r.targets[k] \in r.delivered
    /\ r.groupRecipients # <<>>

LEMMA PostingFacts ==
    ASSUME NEW r, Sound(r), r.pc \in {"group", "members", "fan"}
    PROVE  /\ Posting(r) /\ r.mail \in Mails /\ r.try \in 1..MaxTries /\ Head(r.groupRecipients) \in Groups
           /\ r.groupRecipients \in Seq(Groups) /\ (r.pc # "fan" => r.fan = {} /\ ~r.counted)
  <1>0. r \in Session /\ r.groupRecipients # <<>> /\ r.groupRecipients \in Seq(Groups) /\ r.pc \notin Serving
        /\ r.pc \notin {"idle", "rcpt"}
    BY DEF Sound, SessionOK, Session, Serving
  <1>1. Head(r.groupRecipients) \in Groups
    BY <1>0, SeqFacts
  <1> QED
    BY <1>0, <1>1, Delivering DEF Posting

LEMMA PostedFacts ==
    ASSUME NEW r, Posting(r), NEW ok \in BOOLEAN, NEW q, q = GroupReturned(r, ok)
    PROVE  /\ Sound(q) /\ Kept(r, q) /\ q.pc \in Nexts /\ q.raw = r.raw /\ q.fan = {} /\ ~q.counted
           /\ ok => q.got # {}
           /\ q.got \ Groups = r.got \ Groups
  <1>1. /\ r \in Session /\ r.mail # NoMail /\ r.try # 0 /\ r.user = NoUser /\ r.got \subseteq r.delivered
        /\ \A k \in DOMAIN r.targets : r.targets[k] \in r.delivered
        /\ r.groupRecipients # <<>>
    BY DEF Posting
  <1>2. CASE ok = TRUE
    <2>1. q = GroupReturned(r, TRUE)
      BY <1>2
    <2>2. /\ Sound(q) /\ Kept(r, q) /\ q.pc \in Nexts /\ q.raw = r.raw /\ q.fan = {} /\ ~q.counted
          /\ q.got = r.got \union {Head(r.groupRecipients)} /\ Head(r.groupRecipients) \in Groups
      BY <1>1, <2>1, GroupReturnedFacts
    <2> QED
      BY <2>2
  <1>3. CASE ok = FALSE
    <2>1. q = GroupReturned(r, FALSE)
      BY <1>3
    <2>2. /\ Sound(q) /\ Kept(r, q) /\ q.pc \in Nexts /\ q.raw = r.raw /\ q.fan = {} /\ ~q.counted
          /\ q.got = r.got
      BY <1>1, <2>1, GroupReturnedFacts
    <2> QED
      BY <1>3, <2>2
  <1> QED
    BY <1>2, <1>3

Opened(r, e, f) == [r EXCEPT !.pc = "members", !.epoch = e, !.folder = f, !.raw = "zeroed"]
Zeroed(r) == [r EXCEPT !.raw = "zeroed"]

LEMMA OpenedFacts ==
    ASSUME NEW r, Sound(r), r.pc = "group", NEW e \in Nat, NEW f \in Folders, r.mail \in Reject => f = "junk",
           NEW q, q = Opened(r, e, f)
    PROVE  /\ Sound(q) /\ Kept(r, q) /\ q.pc = "members" /\ q.epoch = e /\ q.raw = "zeroed" /\ q.fan = {} /\ ~q.counted
           /\ q.got = r.got /\ q.groupRecipients = r.groupRecipients
  <1>0. Posting(r) /\ r.mail \in Mails /\ r.fan = {} /\ ~r.counted
    BY PostingFacts
  <1>1. r \in Session
    BY <1>0 DEF Posting
  <1>2. q \in Session
    BY <1>1 DEF Session, Opened, Pcs
  <1>3. /\ q.pc = "members" /\ q.epoch = e /\ q.folder = f /\ q.raw = "zeroed" /\ q.fan = r.fan /\ q.counted = r.counted
        /\ q.got = r.got /\ q.delivered = r.delivered /\ q.targets = r.targets /\ q.groupRecipients = r.groupRecipients
        /\ q.mail = r.mail /\ q.try = r.try /\ q.orphan = r.orphan /\ q.took = r.took /\ q.user = r.user
    BY <1>1 DEF Session, Opened
  <1> QED
    BY <1>0, <1>2, <1>3 DEF Sound, SessionOK, Kept, Posting, Serving

LEMMA ZeroedFacts ==
    ASSUME NEW r, Posting(r), NEW q, q = Zeroed(r)
    PROVE  /\ Posting(q) /\ Kept(r, q) /\ q.raw = "zeroed" /\ q.got = r.got
  <1>1. r \in Session
    BY DEF Posting
  <1>2. q \in Session
    BY <1>1 DEF Session, Zeroed
  <1>3. /\ q.raw = "zeroed" /\ q.groupRecipients = r.groupRecipients
        /\ q.got = r.got /\ q.delivered = r.delivered /\ q.targets = r.targets
        /\ q.mail = r.mail /\ q.try = r.try /\ q.orphan = r.orphan /\ q.took = r.took /\ q.user = r.user
    BY <1>1 DEF Session, Zeroed
  <1> QED
    BY <1>2, <1>3 DEF Kept, Posting

GroupOpened(r, q) ==
    /\ r.pc = "group" /\ Sound(q) /\ Kept(r, q) /\ q.fan = {} /\ ~q.counted /\ q.got \ Groups = r.got \ Groups
    /\ \/ /\ q.pc = "members" /\ q.raw = "zeroed" /\ r.raw = "whole" /\ Head(q.groupRecipients) \in Groups
          /\ q.epoch = epoch[Head(q.groupRecipients)]
       \/ q.pc \in Nexts /\ (q.raw = "zeroed" \/ q.raw = r.raw)
    /\ UNCHANGED mishaps \/ mishaps' = mishaps + 1

LEMMA GroupOpenFacts ==
    ASSUME Good, NEW s \in Sessions, GroupOpen(s), NEW r, r = sess[s], NEW q, q = sess'[s]
    PROVE  GroupOpened(r, q)
  <1>0. r.pc = "group" /\ Sound(r)
    BY GoodSession DEF GroupOpen
  <1>1. Posting(r) /\ r.mail \in Mails /\ Head(r.groupRecipients) \in Groups
    BY <1>0, PostingFacts
  <1>2. PICK ok \in BOOLEAN, done \in BOOLEAN :
          /\ Call(s, ok, done)
          /\ IF ok /\ r.raw = "whole"
             THEN Set(s, [r EXCEPT !.pc = "members", !.epoch = epoch[Head(r.groupRecipients)],
                                   !.folder = Filed(r.mail), !.raw = "zeroed"])
             ELSE GroupReturn(s, IF ok THEN [r EXCEPT !.raw = "zeroed"] ELSE r, FALSE)
    BY DEF GroupOpen
  <1>3. UNCHANGED mishaps \/ mishaps' = mishaps + 1
    BY <1>2, CallFacts
  <1>4. CASE ok /\ r.raw = "whole"
    <2>1. PICK e : e = epoch[Head(r.groupRecipients)]
      OBVIOUS
    <2>2. PICK f : f = Filed(r.mail)
      OBVIOUS
    <2>3. f \in Folders /\ (r.mail \in Reject => f = "junk") /\ e \in Nat
      BY <1>1, <2>1, <2>2 DEF Filed, Folders, Good, TypeOK
    <2>4. q = Opened(r, e, f)
      BY <1>2, <1>4, <2>1, <2>2, SetFacts DEF Opened
    <2>5. /\ Sound(q) /\ Kept(r, q) /\ q.pc = "members" /\ q.epoch = e /\ q.raw = "zeroed" /\ q.fan = {} /\ ~q.counted
          /\ q.got = r.got /\ q.groupRecipients = r.groupRecipients
      BY <1>0, <2>3, <2>4, OpenedFacts
    <2> QED
      BY <1>0, <1>1, <1>3, <1>4, <2>1, <2>5 DEF GroupOpened
  <1>5. CASE ~(ok /\ r.raw = "whole")
    <2>1. PICK x : x = (IF ok THEN Zeroed(r) ELSE r)
      OBVIOUS
    <2>2. Posting(x) /\ Kept(r, x) /\ (x.raw = "zeroed" \/ x.raw = r.raw) /\ x.got = r.got
      <3>1. CASE ok
        BY <1>1, <2>1, <3>1, ZeroedFacts
      <3>2. CASE ~ok
        BY <1>1, <2>1, <3>2 DEF Kept
      <3> QED
        BY <3>1, <3>2
    <2>3. GroupReturn(s, x, FALSE)
      BY <1>2, <1>5, <2>1 DEF Zeroed
    <2>4. q = GroupReturned(x, FALSE)
      BY <2>3, SetFacts DEF GroupReturn, GroupReturned, Continue
    <2>5. /\ Sound(q) /\ Kept(x, q) /\ q.pc \in Nexts /\ q.raw = x.raw /\ q.fan = {} /\ ~q.counted
          /\ q.got \ Groups = x.got \ Groups
      BY <2>2, <2>4, PostedFacts
    <2>6. Kept(r, q)
      BY <2>2, <2>5 DEF Kept
    <2> QED
      BY <1>0, <1>3, <2>2, <2>5, <2>6 DEF GroupOpened
  <1> QED
    BY <1>4, <1>5 DEF GroupOpened

Fanned(r, F, c) == [r EXCEPT !.pc = "fan", !.fan = F, !.counted = c]

LEMMA FannedFacts ==
    ASSUME NEW r, Sound(r), r.pc = "members", NEW F \in SUBSET Users, F # {}, NEW c \in BOOLEAN,
           NEW q, q = Fanned(r, F, c)
    PROVE  /\ Sound(q) /\ Kept(r, q) /\ q.pc = "fan" /\ q.fan = F /\ q.raw = "zeroed" /\ q.epoch = r.epoch
           /\ q.got = r.got /\ q.groupRecipients = r.groupRecipients
  <1>0. Posting(r) /\ r.mail \in Mails
    BY PostingFacts
  <1>1. r \in Session /\ r.raw = "zeroed" /\ (r.mail \in Reject => r.folder = "junk")
    BY <1>0 DEF Posting, Sound, SessionOK
  <1>2. q \in Session
    BY <1>1 DEF Session, Fanned, Pcs
  <1>3. /\ q.pc = "fan" /\ q.fan = F /\ q.counted = c /\ q.epoch = r.epoch /\ q.folder = r.folder /\ q.raw = r.raw
        /\ q.got = r.got /\ q.delivered = r.delivered /\ q.targets = r.targets /\ q.groupRecipients = r.groupRecipients
        /\ q.mail = r.mail /\ q.try = r.try /\ q.orphan = r.orphan /\ q.took = r.took /\ q.user = r.user
    BY <1>1 DEF Session, Fanned
  <1> QED
    BY <1>0, <1>1, <1>2, <1>3 DEF Sound, SessionOK, Kept, Posting, Serving

GroupListed(r, q) ==
    /\ r.pc = "members" /\ Sound(q) /\ Kept(r, q) /\ q.got \ Groups = r.got \ Groups /\ q.raw = "zeroed"
    /\ \/ /\ q.pc = "fan" /\ q.fan \subseteq Eligible(Head(r.groupRecipients), r.epoch)
          /\ q.groupRecipients = r.groupRecipients /\ q.epoch = r.epoch
       \/ q.pc \in Nexts /\ q.fan = {} /\ ~q.counted
    /\ UNCHANGED mishaps \/ mishaps' = mishaps + 1

LEMMA GroupMembersFacts ==
    ASSUME Good, NEW s \in Sessions, GroupMembers(s), NEW r, r = sess[s], NEW q, q = sess'[s]
    PROVE  GroupListed(r, q)
  <1>0. r.pc = "members" /\ Sound(r) /\ r.raw = "zeroed"
    BY GoodSession DEF GroupMembers, Sound, SessionOK
  <1>1. Posting(r)
    BY <1>0, PostingFacts
  <1>2. PICK E : E = Eligible(Head(r.groupRecipients), r.epoch)
    OBVIOUS
  <1>3. PICK F : F = E \ (r.took \union {From[r.mail]})
    OBVIOUS
  <1>4. PICK ok \in BOOLEAN, done \in BOOLEAN :
          /\ Call(s, ok, done)
          /\ IF ok /\ F # {}
             THEN Set(s, [r EXCEPT !.pc = "fan", !.fan = F, !.counted = (F # E)])
             ELSE GroupReturn(s, r, ok /\ E # {})
    BY <1>2, <1>3 DEF GroupMembers
  <1>5. UNCHANGED mishaps \/ mishaps' = mishaps + 1
    BY <1>4, CallFacts
  <1>6. F \in SUBSET Users /\ F \subseteq E
    BY <1>2, <1>3 DEF Eligible
  <1>7. CASE ok /\ F # {}
    <2>1. PICK c \in BOOLEAN : c = (F # E)
      OBVIOUS
    <2>2. q = Fanned(r, F, c)
      BY <1>4, <1>7, <2>1, SetFacts DEF Fanned
    <2>3. /\ Sound(q) /\ Kept(r, q) /\ q.pc = "fan" /\ q.fan = F /\ q.raw = "zeroed" /\ q.epoch = r.epoch
          /\ q.got = r.got /\ q.groupRecipients = r.groupRecipients
      BY <1>0, <1>6, <1>7, <2>2, FannedFacts
    <2> QED
      BY <1>0, <1>2, <1>5, <1>6, <2>3 DEF GroupListed
  <1>8. CASE ~(ok /\ F # {})
    <2>1. PICK b \in BOOLEAN : b = (ok /\ E # {})
      OBVIOUS
    <2>2. q = GroupReturned(r, b)
      BY <1>4, <1>8, <2>1, SetFacts DEF GroupReturn, GroupReturned, Continue
    <2>3. /\ Sound(q) /\ Kept(r, q) /\ q.pc \in Nexts /\ q.raw = r.raw /\ q.fan = {} /\ ~q.counted
          /\ q.got \ Groups = r.got \ Groups
      BY <1>1, <2>2, PostedFacts
    <2> QED
      BY <1>0, <1>5, <2>3 DEF GroupListed
  <1> QED
    BY <1>7, <1>8 DEF GroupListed

Fed(r, F, c) == [r EXCEPT !.fan = F, !.counted = c]

LEMMA FedFacts ==
    ASSUME NEW r, Sound(r), r.pc = "fan", NEW F \in SUBSET r.fan, NEW c \in BOOLEAN, NEW q, q = Fed(r, F, c)
    PROVE  /\ Posting(q) /\ Kept(r, q) /\ q.pc = "fan" /\ q.fan = F /\ q.counted = c /\ q.raw = "zeroed"
           /\ q.epoch = r.epoch /\ q.got = r.got /\ q.groupRecipients = r.groupRecipients
           /\ F # {} => Sound(q)
  <1>0. Posting(r) /\ r.mail \in Mails
    BY PostingFacts
  <1>1. r \in Session /\ r.raw = "zeroed" /\ (r.mail \in Reject => r.folder = "junk") /\ F \in SUBSET Users
    BY <1>0 DEF Posting, Sound, SessionOK, Session
  <1>2. q \in Session
    BY <1>1 DEF Session, Fed
  <1>3. /\ q.pc = r.pc /\ q.fan = F /\ q.counted = c /\ q.epoch = r.epoch /\ q.folder = r.folder /\ q.raw = r.raw
        /\ q.got = r.got /\ q.delivered = r.delivered /\ q.targets = r.targets /\ q.groupRecipients = r.groupRecipients
        /\ q.mail = r.mail /\ q.try = r.try /\ q.orphan = r.orphan /\ q.took = r.took /\ q.user = r.user
    BY <1>1 DEF Session, Fed
  <1> QED
    BY <1>0, <1>1, <1>2, <1>3 DEF Sound, SessionOK, Kept, Posting, Serving

GroupFanned(r, q) ==
    /\ r.pc = "fan" /\ Sound(q) /\ Kept(r, q) /\ q.raw = "zeroed" /\ q.got \ Groups = r.got \ Groups
    /\ r.mail \in Mails
    /\ \/ q.pc = "fan" /\ q.groupRecipients = r.groupRecipients /\ q.epoch = r.epoch
       \/ q.pc \in Nexts /\ q.fan = {} /\ ~q.counted
    /\ r.counted => q.got # {} \/ q.counted
    /\ UNCHANGED mishaps \/ mishaps' = mishaps + 1
    /\ \E u \in Users : \E c :
         /\ u \in r.fan /\ q.fan \subseteq r.fan \ {u}
         /\ Truthful(c, r.mail) /\ c.group = Head(r.groupRecipients) /\ c.epoch = r.epoch /\ ~c.moved
         /\ \/ inbound' = Queued(r.mail, u, c) /\ (q.got # {} \/ q.counted \/ mishaps' = mishaps + 1)
            \/ inbound' = inbound

LEMMA GroupFanFacts ==
    ASSUME Good, NEW s \in Sessions, GroupFan(s), NEW r, r = sess[s], NEW q, q = sess'[s]
    PROVE  GroupFanned(r, q)
  <1>0. r.pc = "fan" /\ Sound(r) /\ r \in Session /\ r.fan \in SUBSET Users /\ r.epoch \in Nat
        /\ r.counted \in BOOLEAN /\ r.folder \in Folders /\ (r.mail \in Reject => r.folder = "junk")
    BY GoodSession DEF GroupFan, Sound, SessionOK, Session
  <1>1. Posting(r) /\ r.mail \in Mails /\ r.try \in 1..MaxTries /\ Head(r.groupRecipients) \in Groups
    BY <1>0, PostingFacts
  <1>2. PICK ok \in BOOLEAN, done \in BOOLEAN, u \in r.fan :
          LET x == [r EXCEPT !.fan = @ \ {u}, !.counted = @ \/ ok]
          IN  /\ Call(s, ok, done)
              /\ inbound' = IF done THEN Queued(r.mail, u, GroupCopy(s)) ELSE inbound
              /\ IF x.fan = {} THEN GroupReturn(s, x, x.counted) ELSE Set(s, x)
    BY ONLY GroupFan(s), r = sess[s], ZenonT(40) DEF GroupFan
  <1>3. PICK F : F = r.fan \ {u}
    OBVIOUS
  <1>4. PICK c \in BOOLEAN : c = (r.counted \/ ok)
    OBVIOUS
  <1>5. PICK x : x = Fed(r, F, c)
    OBVIOUS
  <1>6. x = [r EXCEPT !.fan = @ \ {u}, !.counted = @ \/ ok]
    BY <1>3, <1>4, <1>5 DEF Fed
  <1>7. F \in SUBSET r.fan
    BY <1>3
  <1>8. /\ Posting(x) /\ Kept(r, x) /\ x.pc = "fan" /\ x.fan = F /\ x.counted = c /\ x.raw = "zeroed"
        /\ x.epoch = r.epoch /\ x.got = r.got /\ x.groupRecipients = r.groupRecipients
        /\ F # {} => Sound(x)
    BY <1>0, <1>5, <1>7, FedFacts
  <1>9. (ok => done) /\ (UNCHANGED mishaps \/ mishaps' = mishaps + 1) /\ (done /\ ~ok => mishaps' = mishaps + 1)
    BY <1>2, CallFacts
  <1>10. PICK y : y = GroupCopy(s)
    OBVIOUS
  <1>11. y = [folder |-> r.folder, moved |-> FALSE, receipt |-> r.folder, group |-> Head(r.groupRecipients),
              epoch |-> r.epoch, try |-> r.try]
    BY <1>10 DEF GroupCopy
  <1>12. Truthful(y, r.mail) /\ y.group = Head(r.groupRecipients) /\ y.epoch = r.epoch /\ ~y.moved
    BY <1>0, <1>1, <1>11 DEF Truthful, Copies
  <1>13. /\ Sound(q) /\ Kept(r, q) /\ q.raw = "zeroed" /\ q.got \ Groups = r.got \ Groups /\ q.fan \subseteq F
         /\ \/ q.pc = "fan" /\ q.groupRecipients = r.groupRecipients /\ q.epoch = r.epoch
            \/ q.pc \in Nexts /\ q.fan = {} /\ ~q.counted
         /\ c => q.got # {} \/ q.counted
    <2>1. CASE F = {}
      <3>1. GroupReturn(s, x, c)
        BY <1>2, <1>6, <1>8, <2>1
      <3>2. q = GroupReturned(x, c)
        BY <3>1, SetFacts DEF GroupReturn, GroupReturned, Continue
      <3>3. /\ Sound(q) /\ Kept(x, q) /\ q.pc \in Nexts /\ q.raw = x.raw /\ q.fan = {} /\ ~q.counted
            /\ c => q.got # {}
            /\ q.got \ Groups = x.got \ Groups
        BY <1>8, <3>2, PostedFacts
      <3>4. Kept(r, q)
        BY <1>8, <3>3 DEF Kept
      <3> QED
        BY <1>8, <3>3, <3>4
    <2>2. CASE F # {}
      <3>1. q = x
        BY <1>2, <1>6, <1>8, <2>2, SetFacts
      <3> QED
        BY <1>8, <2>2, <3>1
    <2> QED
      BY <2>1, <2>2
  <1>14. \/ inbound' = Queued(r.mail, u, y) /\ (q.got # {} \/ q.counted \/ mishaps' = mishaps + 1)
         \/ inbound' = inbound
    <2>1. CASE done
      BY <1>2, <1>4, <1>9, <1>10, <1>13, <2>1
    <2>2. CASE ~done
      BY <1>2, <2>2
    <2> QED
      BY <2>1, <2>2
  <1>15. u \in Users /\ u \in r.fan /\ q.fan \subseteq r.fan \ {u}
    BY <1>0, <1>3, <1>13
  <1>16. r.counted => q.got # {} \/ q.counted
    BY <1>4, <1>13
  <1>17. r.pc = "fan" /\ r.mail \in Mails /\ (UNCHANGED mishaps \/ mishaps' = mishaps + 1)
    BY <1>0, <1>1, <1>9
  <1>18. \E v \in Users : \E z :
                /\ v \in r.fan /\ q.fan \subseteq r.fan \ {v}
                /\ Truthful(z, r.mail) /\ z.group = Head(r.groupRecipients) /\ z.epoch = r.epoch /\ ~z.moved
                /\ \/ inbound' = Queued(r.mail, v, z) /\ (q.got # {} \/ q.counted \/ mishaps' = mishaps + 1)
                   \/ inbound' = inbound
    BY <1>12, <1>14, <1>15
  <1> QED
    BY <1>13, <1>16, <1>17, <1>18 DEF GroupFanned

-----------------------------------------------------------------------------
(* The steps of the SMTP dialogue.                                         *)

LEMMA IdleFacts ==
    /\ Sound(Idle) /\ Idle.pc = "idle" /\ Idle.mail = NoMail /\ Idle.mail \notin Mails /\ ~Idle.orphan /\ Idle.got = {}
    /\ Idle.took = {} /\ Idle.fan = {} /\ ~Idle.counted /\ Idle.targets = <<>> /\ Idle.delivered = {}
    /\ Idle.user = NoUser /\ Idle \in Session /\ ~Idle.moved
  <1>1. Idle \in Session
    BY DEF Idle, Session, Pcs, Folders
  <1>2. /\ Idle.pc = "idle" /\ Idle.mail = NoMail /\ ~Idle.orphan /\ Idle.got = {} /\ Idle.user = NoUser /\ ~Idle.moved
        /\ Idle.took = {} /\ Idle.fan = {} /\ ~Idle.counted /\ Idle.targets = <<>> /\ Idle.delivered = {}
    BY DEF Idle
  <1>3. Sound(Idle)
    BY <1>1, <1>2 DEF Sound, SessionOK, Serving
  <1> QED
    BY <1>1, <1>2, <1>3

LEMMA VerdictFacts ==
    ASSUME NEW m, NEW a, NEW down, NEW v \in Verdicts(m, a, down)
    PROVE  (v = "role" => a \in Roles) /\ (v = "group" => a \in Groups)
  <1>1. CASE a \in Roles /\ down # "domain"
    BY <1>1 DEF Verdicts
  <1>2. CASE ~(a \in Roles /\ down # "domain") /\ Found(a, down) # {}
    BY <1>2 DEF Verdicts
  <1>3. CASE /\ ~(a \in Roles /\ down # "domain") /\ Found(a, down) = {}
             /\ a \in Groups /\ down # "group"
    BY <1>3 DEF Verdicts
  <1>4. CASE /\ ~(a \in Roles /\ down # "domain") /\ Found(a, down) = {}
             /\ ~(a \in Groups /\ down # "group")
    BY <1>4 DEF Verdicts
  <1> QED
    BY <1>1, <1>2, <1>3, <1>4

Taken(r, A, T, ro, re, gr) ==
    [r EXCEPT !.ask = A, !.took = T, !.roleRecipients = ro, !.recipients = re, !.groupRecipients = gr]

Takes(r, A, T, ro, re, gr) ==
    /\ Sound(r) /\ r.pc = "rcpt" /\ A \in SUBSET r.ask /\ T \in SUBSET Addresses
    /\ ro \in Seq(Roles) /\ re \in Seq(Addresses) /\ gr \in Seq(Groups)

LEMMA TakenFacts ==
    ASSUME NEW r, NEW A, NEW T, NEW ro, NEW re, NEW gr, Takes(r, A, T, ro, re, gr),
           NEW X, X = Taken(r, A, T, ro, re, gr)
    PROVE  /\ Sound(X) /\ X.pc = "rcpt" /\ X.mail = r.mail /\ ~X.orphan /\ X.got = {} /\ X.fan = {} /\ ~X.counted
           /\ X.user = NoUser /\ X.ask = A /\ X.took = T /\ X.try = r.try /\ X.moved = r.moved
  <1> USE DEF Takes
  <1>0. /\ r \in Session /\ r.ask \subseteq DOMAIN Rcpts[r.mail] /\ r.try # 0 /\ ~r.orphan /\ r.got = {} /\ ~r.counted
        /\ r.fan = {} /\ r.user = NoUser /\ r.mail # NoMail
        /\ \A k \in DOMAIN r.targets : r.targets[k] \in r.delivered
    BY DEF Sound, SessionOK, Serving
  <1>1. A \in SUBSET Nat
    BY <1>0 DEF Session
  <1>2. X \in Session
    BY <1>0, <1>1 DEF Session, Taken
  <1>3. /\ X.pc = r.pc /\ X.mail = r.mail /\ X.orphan = r.orphan /\ X.got = r.got /\ X.fan = r.fan /\ X.counted = r.counted
        /\ X.user = r.user /\ X.ask = A /\ X.took = T /\ X.try = r.try /\ X.targets = r.targets
        /\ X.delivered = r.delivered /\ X.moved = r.moved
    BY <1>0 DEF Session, Taken
  <1> QED
    BY <1>0, <1>2, <1>3 DEF Sound, SessionOK, Serving

Begun(X) == [X EXCEPT !.pc = NextPc(X)]

LEMMA BegunFacts ==
    ASSUME NEW X, Sound(X), X.pc = "rcpt", X.fan = {}, ~X.counted, X.user = NoUser, NEW q, q = Begun(X)
    PROVE  /\ Sound(q) /\ q.pc \in Nexts /\ q.mail = X.mail /\ q.orphan = X.orphan /\ q.took = X.took
           /\ q.got = X.got /\ q.fan = {} /\ ~q.counted /\ q.moved = X.moved
  <1>1. /\ X \in Session /\ X.mail # NoMail /\ X.try # 0 /\ X.got \subseteq X.delivered
        /\ \A k \in DOMAIN X.targets : X.targets[k] \in X.delivered
    BY DEF Sound, SessionOK
  <1>2. q = [X EXCEPT !.pc = NextPc(X)]
    BY DEF Begun
  <1> QED
    BY <1>1, <1>2, Continued

Replied(s, k, a, v) ==
    LET r == [sess[s] EXCEPT !.ask = @ \ {k},
               !.took = IF v = "no" THEN @ ELSE @ \union {a},
               !.roleRecipients = IF v = "role" THEN Append(@, a) ELSE @,
               !.recipients = IF v = "user" THEN Append(@, a) ELSE @,
               !.groupRecipients = IF v = "group" THEN Append(@, a) ELSE @]
    IN /\ Set(s, IF r.ask = {} THEN Data(r) ELSE r)
       /\ pending' = IF v = "no" THEN [pending EXCEPT ![sess[s].mail] = @ \ {a}] ELSE pending

OneSession(s) == \E X : Set(s, X)

Arrived(s, r, q) ==
    /\ OneSession(s)
    /\ r.pc = "rcpt" /\ Sound(r) /\ Sound(q) /\ ~q.orphan /\ r.mail \in Mails /\ q.got = {} /\ q.fan = {} /\ ~q.counted
    /\ q.pc \in Nexts \union {"rcpt", "idle"}
    /\ UNCHANGED mishaps \/ mishaps' = mishaps + 1
    /\ q = Idle \/ q.mail = r.mail
    /\ ~r.moved => ~q.moved
    /\ \E k \in r.ask :
         /\ Rcpts[r.mail][k] \in Addresses
         /\ q = Idle \/ /\ r.took \subseteq q.took
                        /\ q.pc = "rcpt" => q.ask = r.ask \ {k}
                        /\ q.pc # "rcpt" => r.ask = {k}
         /\ \/ pending' = pending /\ (q = Idle \/ Rcpts[r.mail][k] \in q.took)
            \/ pending' = [pending EXCEPT ![r.mail] = @ \ {Rcpts[r.mail][k]}]

LEMMA RcptFacts ==
    ASSUME Good, NEW s \in Sessions, Rcpt(s), NEW r, r = sess[s], NEW q, q = sess'[s]
    PROVE  Arrived(s, r, q)
  <1>0. /\ r.pc = "rcpt" /\ Sound(r) /\ r \in Session /\ r.mail \in Mails /\ r.ask \subseteq DOMAIN Rcpts[r.mail]
        /\ r.took \in SUBSET Addresses /\ r.roleRecipients \in Seq(Roles) /\ r.recipients \in Seq(Addresses)
        /\ r.groupRecipients \in Seq(Groups)
    BY GoodSession DEF Rcpt, Sound, SessionOK, Session
  <1>1. PICK down \in {"nothing", "domain", "mailbox", "resolve", "group", "member", "quota"}, k \in sess[s].ask :
       LET m == sess[s].mail
           a == Rcpts[m][k]
       IN /\ \A l \in sess[s].ask : k <= l
          /\ IF down = "nothing" THEN UNCHANGED budget ELSE Mishap
          /\ \E v \in Verdicts(m, a, down) :
               LET x == [sess[s] EXCEPT !.ask = @ \ {k},
                          !.took = IF v = "no" THEN @ ELSE @ \union {a},
                          !.roleRecipients = IF v = "role" THEN Append(@, a) ELSE @,
                          !.recipients = IF v = "user" THEN Append(@, a) ELSE @,
                          !.groupRecipients = IF v = "group" THEN Append(@, a) ELSE @]
               IN /\ Set(s, IF x.ask = {} THEN Data(x) ELSE x)
                  /\ pending' = IF v = "no" THEN [pending EXCEPT ![m] = @ \ {a}] ELSE pending
    BY Zenon DEF Rcpt
  <1>2. PICK a : a = Rcpts[r.mail][k]
    OBVIOUS
  <1>3. PICK v \in Verdicts(r.mail, a, down) : Replied(s, k, a, v)
    <2>1. PICK v \in Verdicts(sess[s].mail, Rcpts[sess[s].mail][k], down) :
            LET x == [sess[s] EXCEPT !.ask = @ \ {k},
                          !.took = IF v = "no" THEN @ ELSE @ \union {Rcpts[sess[s].mail][k]},
                          !.roleRecipients = IF v = "role" THEN Append(@, Rcpts[sess[s].mail][k]) ELSE @,
                          !.recipients = IF v = "user" THEN Append(@, Rcpts[sess[s].mail][k]) ELSE @,
                          !.groupRecipients = IF v = "group" THEN Append(@, Rcpts[sess[s].mail][k]) ELSE @]
               IN /\ Set(s, IF x.ask = {} THEN Data(x) ELSE x)
                  /\ pending' = IF v = "no" THEN [pending EXCEPT ![sess[s].mail] = @ \ {Rcpts[sess[s].mail][k]}]
                                ELSE pending
      BY <1>1, Zenon
    <2>2. Replied(s, k, Rcpts[sess[s].mail][k], v)
      BY <2>1 DEF Replied
    <2> QED
      BY <1>2, <2>2
  <1>4. PICK A : A = r.ask \ {k}
    OBVIOUS
  <1>5. PICK T : T = IF v = "no" THEN r.took ELSE r.took \union {a}
    OBVIOUS
  <1>6. PICK ro : ro = IF v = "role" THEN Append(r.roleRecipients, a) ELSE r.roleRecipients
    OBVIOUS
  <1>7. PICK re : re = IF v = "user" THEN Append(r.recipients, a) ELSE r.recipients
    OBVIOUS
  <1>8. PICK gr : gr = IF v = "group" THEN Append(r.groupRecipients, a) ELSE r.groupRecipients
    OBVIOUS
  <1>9. PICK X : X = Taken(r, A, T, ro, re, gr)
    OBVIOUS
  <1>10. /\ Set(s, IF X.ask = {} THEN Data(X) ELSE X)
         /\ pending' = IF v = "no" THEN [pending EXCEPT ![r.mail] = @ \ {a}] ELSE pending
    <2>1. X = [sess[s] EXCEPT !.ask = @ \ {k},
               !.took = IF v = "no" THEN @ ELSE @ \union {a},
               !.roleRecipients = IF v = "role" THEN Append(@, a) ELSE @,
               !.recipients = IF v = "user" THEN Append(@, a) ELSE @,
               !.groupRecipients = IF v = "group" THEN Append(@, a) ELSE @]
      BY <1>4, <1>5, <1>6, <1>7, <1>8, <1>9 DEF Taken
    <2> QED
      BY <1>3, <2>1 DEF Replied
  <1>11. a \in Addresses
    <2>1. Rcpts[r.mail] \in Seq(Addresses)
      BY <1>0
    <2>2. k \in DOMAIN Rcpts[r.mail]
      BY <1>0, <1>1
    <2> QED
      BY <1>2, <2>1, <2>2, SeqFacts
  <1>12. /\ A \in SUBSET r.ask /\ T \in SUBSET Addresses /\ ro \in Seq(Roles) /\ re \in Seq(Addresses)
         /\ gr \in Seq(Groups)
    <2>1. (v = "role" => a \in Roles) /\ (v = "group" => a \in Groups)
      BY <1>3, VerdictFacts
    <2>2. ro \in Seq(Roles)
      BY <1>0, <1>6, <2>1, SeqAppend
    <2>3. re \in Seq(Addresses)
      BY <1>0, <1>7, <1>11, SeqAppend
    <2>4. gr \in Seq(Groups)
      BY <1>0, <1>8, <2>1, SeqAppend
    <2> QED
      BY <1>0, <1>4, <1>5, <1>11, <2>2, <2>3, <2>4
  <1>13. /\ Sound(X) /\ X.pc = "rcpt" /\ X.mail = r.mail /\ ~X.orphan /\ X.got = {} /\ X.fan = {} /\ ~X.counted
         /\ X.user = NoUser /\ X.ask = A /\ X.took = T /\ X.moved = r.moved
    <2>1. Takes(r, A, T, ro, re, gr)
      BY <1>0, <1>12 DEF Takes
    <2> QED
      BY <2>1, <1>9, TakenFacts
  <1>14. /\ Sound(q) /\ ~q.orphan /\ q.got = {} /\ q.fan = {} /\ ~q.counted
         /\ q.pc \in Nexts \union {"rcpt", "idle"} /\ (~r.moved => ~q.moved)
         /\ \/ q = Idle
            \/ q.mail = r.mail /\ q.took = T /\ (q.pc = "rcpt" => q.ask = A) /\ (q.pc # "rcpt" => A = {})
    <2>1. CASE A # {}
      <3>1. q = X
        BY <1>10, <1>13, <2>1, SetFacts
      <3> QED
        BY <1>13, <2>1, <3>1
    <2>2. CASE A = {} /\ T = {}
      <3>1. q = Idle
        BY <1>10, <1>13, <2>2, SetFacts DEF Data
      <3> QED
        BY <3>1, IdleFacts
    <2>3. CASE A = {} /\ T # {}
      <3>1. q = Begun(X)
        BY <1>10, <1>13, <2>3, SetFacts DEF Data, Begun
      <3>2. /\ Sound(q) /\ q.pc \in Nexts /\ q.mail = X.mail /\ q.orphan = X.orphan /\ q.took = X.took
            /\ q.got = X.got /\ q.fan = {} /\ ~q.counted /\ q.moved = X.moved
        BY <1>13, <3>1, BegunFacts
      <3> QED
        BY <1>13, <2>3, <3>2 DEF Nexts
    <2> QED
      BY <2>1, <2>2, <2>3
  <1>15. UNCHANGED mishaps \/ mishaps' = mishaps + 1
    BY <1>1 DEF Mishap, budget
  <1>16. \/ pending' = pending /\ (q = Idle \/ a \in q.took)
         \/ pending' = [pending EXCEPT ![r.mail] = @ \ {a}]
    BY <1>5, <1>10, <1>14
  <1>17. q = Idle \/ (r.took \subseteq q.took /\ (q.pc = "rcpt" => q.ask = r.ask \ {k}) /\ (q.pc # "rcpt" => r.ask = {k}))
    BY <1>4, <1>5, <1>14
  <1>18. OneSession(s)
    BY <1>10 DEF OneSession
  <1> QED
    BY <1>0, <1>2, <1>11, <1>14, <1>15, <1>16, <1>17, <1>18 DEF Arrived

-----------------------------------------------------------------------------
(* What every step of session.Data between the dialogue and the answer     *)
(* has in common, said once for all the invariants.                        *)

(* The mailboxes, the role inbox and the rules only ever gain messages;    *)
(* whoever is counted as served has left a trace.                          *)
TraceStep(r, q) ==
    /\ roleBox \subseteq roleBox' /\ roleBox' \subseteq Mails \X Roles
    /\ dropped \subseteq dropped' /\ dropped' \subseteq Mails \X Users
    /\ \/ q.got \ Groups = r.got \ Groups
       \/ \E u \in Users : inbound'[<<r.mail, u>>] # <<>> \/ <<r.mail, u>> \in dropped'
       \/ \E a \in Roles : <<r.mail, a>> \in roleBox'

ReplyStep(s, q) == (q.pc # "reply" /\ UNCHANGED <<dedup, replies>>) \/ Reserve(s) \/ SendReply(s)

EpochStep(r, q) ==
    /\ q.pc = "members" => q.epoch = epoch[Head(q.groupRecipients)] /\ Head(q.groupRecipients) \in Groups
    /\ q.fan # {} => /\ q.groupRecipients = r.groupRecipients /\ q.epoch = r.epoch
                     /\ \/ q.fan \subseteq r.fan
                        \/ r.pc = "members" /\ q.fan \subseteq Eligible(Head(r.groupRecipients), r.epoch)

Quieter(r, q) == (\A u \in Users : Able(q, u) => Able(r, u)) /\ (Sure(r) => Sure(q))

(* At most one copy is queued, for a mailbox that will get no more of this *)
(* attempt.                                                                *)
CopyFor(r, q, u, c) ==
    /\ inbound' = Queued(r.mail, u, c) /\ Truthful(c, r.mail)
    /\ c.group = NoUser \/ (c.group = Head(r.groupRecipients) /\ c.epoch = r.epoch /\ u \in r.fan)
    /\ c.moved => c.group = NoUser /\ r.moved /\ u = r.user
    /\ Able(r, u) /\ ~Able(q, u) /\ (Sure(q) \/ mishaps' = mishaps + 1)
CopyStep(r, q) ==
    /\ Quieter(r, q)
    /\ inbound' = inbound \/ \E u \in Users : \E c : CopyFor(r, q, u, c)

Advanced(s, r, q) ==
    /\ OneSession(s) /\ UNCHANGED <<mtaVars, dirVars, grpVars>>
    /\ Sound(r) /\ Sound(q) /\ Kept(r, q) /\ r.pc \notin {"idle", "rcpt"} /\ q.pc \notin {"idle", "rcpt"}
    /\ UNCHANGED mishaps \/ mishaps' = mishaps + 1
    /\ UNCHANGED changes
    /\ TraceStep(r, q) /\ ReplyStep(s, q) /\ EpochStep(r, q) /\ CopyStep(r, q)

LEMMA NextsFacts ==
    \A l \in Nexts \union Serving : l \notin {"idle", "rcpt", "members", "fan"}
  BY DEF Nexts, Serving

(* A step that only moves the delivery on.                                 *)
LEMMA Moves ==
    ASSUME NEW r, NEW q, Sound(r), Kept(r, q), q.pc \in Nexts \union Serving, q.fan = {}, r.pc # "fan",
           q.raw = "zeroed" \/ q.raw = r.raw
    PROVE  EpochStep(r, q) /\ Quieter(r, q) /\ q.pc \notin {"idle", "rcpt"}
  <1>1. q.pc \notin {"idle", "rcpt", "members", "fan"} /\ ~r.counted
    BY NextsFacts DEF Sound, SessionOK
  <1>2. EpochStep(r, q)
    BY <1>1 DEF EpochStep
  <1>3. Quieter(r, q)
    BY <1>1 DEF Quieter, Able, Sure, Kept
  <1> QED
    BY <1>1, <1>2, <1>3

LEMMA ReadOnly ==
    ASSUME Good, NEW r, NEW q, UNCHANGED boxVars, q.got \ Groups = r.got \ Groups
    PROVE  TraceStep(r, q) /\ UNCHANGED <<dedup, replies, inbound>>
  BY DEF TraceStep, boxVars, Good, TypeOK

LEMMA InsertRoleAdvances ==
    ASSUME Good, NEW s \in Sessions, InsertRole(s), NEW r, r = sess[s], NEW q, q = sess'[s]
    PROVE  Advanced(s, r, q)
  <1>0. RoleStored(r, q)
    BY InsertRoleFacts
  <1>1. /\ r.pc = "role" /\ Sound(q) /\ Kept(r, q) /\ q.pc \in Nexts
        /\ q.raw = r.raw /\ q.fan = {} /\ ~q.counted
        /\ UNCHANGED mishaps \/ mishaps' = mishaps + 1
        /\ roleBox \subseteq roleBox' /\ roleBox' \subseteq Mails \X Roles
        /\ q.got = r.got \/ \E a \in Roles : <<r.mail, a>> \in roleBox'
    BY <1>0 DEF RoleStored
  <1>2. Sound(r)
    BY GoodSession
  <1>3. EpochStep(r, q) /\ Quieter(r, q) /\ q.pc \notin {"idle", "rcpt"}
    BY <1>1, <1>2, Moves
  <1>4. /\ UNCHANGED <<mtaVars, dirVars, grpVars, dedup, inbound, dropped, replies>> /\ UNCHANGED changes
        /\ OneSession(s)
    BY CallFacts DEF InsertRole, OneSession, Continue
  <1>5. TraceStep(r, q)
    <2>1. dropped' \subseteq Mails \X Users /\ dropped \subseteq dropped'
      BY <1>4 DEF Good, TypeOK
    <2> QED
      BY <1>1, <2>1 DEF TraceStep
  <1>6. ReplyStep(s, q)
    BY <1>1, <1>4 DEF ReplyStep, Nexts
  <1>7. CopyStep(r, q)
    BY <1>3, <1>4 DEF CopyStep
  <1> QED
    BY <1>1, <1>2, <1>3, <1>4, <1>5, <1>6, <1>7 DEF Advanced

LEMMA ExpandAdvances ==
    ASSUME Good, NEW s \in Sessions, Expand(s), NEW r, r = sess[s], NEW q, q = sess'[s]
    PROVE  Advanced(s, r, q)
  <1>0. Expanded(r, q)
    BY ExpandFacts
  <1>1. /\ r.pc = "expand" /\ Sound(q) /\ Kept(r, q) /\ q.pc \in Nexts
        /\ q.raw = r.raw /\ q.fan = {} /\ ~q.counted /\ q.got = r.got
        /\ UNCHANGED mishaps \/ mishaps' = mishaps + 1
    BY <1>0 DEF Expanded
  <1>2. Sound(r)
    BY GoodSession
  <1>3. EpochStep(r, q) /\ Quieter(r, q) /\ q.pc \notin {"idle", "rcpt"}
    BY <1>1, <1>2, Moves
  <1>4. /\ UNCHANGED <<mtaVars, dirVars, grpVars, boxVars>> /\ UNCHANGED changes
        /\ OneSession(s)
    BY CallFacts DEF Expand, OneSession, Continue
  <1>5. TraceStep(r, q) /\ UNCHANGED <<dedup, replies, inbound>>
    BY <1>1, <1>4, ReadOnly
  <1>6. ReplyStep(s, q)
    BY <1>1, <1>5 DEF ReplyStep, Nexts
  <1>7. CopyStep(r, q)
    BY <1>3, <1>5 DEF CopyStep
  <1> QED
    BY <1>1, <1>2, <1>3, <1>4, <1>5, <1>6, <1>7 DEF Advanced

LEMMA ParseAdvances ==
    ASSUME Good, NEW s \in Sessions, Parse(s), NEW r, r = sess[s], NEW q, q = sess'[s]
    PROVE  Advanced(s, r, q)
  <1>0. Parsed(r, q)
    BY ParseFacts
  <1>1. /\ r.pc = "parse" /\ Sound(q) /\ Kept(r, q) /\ q.got = r.got /\ q.fan = {} /\ ~q.counted
        /\ \/ q.pc \in Nexts /\ q.raw = "zeroed"
           \/ q.pc = "block" /\ q.raw = r.raw
        /\ UNCHANGED mishaps \/ mishaps' = mishaps + 1
    BY <1>0 DEF Parsed
  <1>2. Sound(r) /\ q.pc \in Nexts \union Serving /\ q.pc # "reply"
    BY <1>1, GoodSession DEF Nexts, Serving
  <1>3. EpochStep(r, q) /\ Quieter(r, q) /\ q.pc \notin {"idle", "rcpt"}
    BY <1>1, <1>2, Moves
  <1>4. /\ UNCHANGED <<mtaVars, dirVars, grpVars, boxVars>> /\ UNCHANGED changes
        /\ OneSession(s)
    BY CallFacts, ZenonT(40) DEF Parse, OneSession, Continue, Return, budget
  <1>5. TraceStep(r, q) /\ UNCHANGED <<dedup, replies, inbound>>
    BY <1>1, <1>4, ReadOnly
  <1>6. ReplyStep(s, q)
    BY <1>2, <1>5 DEF ReplyStep
  <1>7. CopyStep(r, q)
    BY <1>3, <1>5 DEF CopyStep
  <1> QED
    BY <1>1, <1>2, <1>3, <1>4, <1>5, <1>6, <1>7 DEF Advanced

LEMMA CheckBlockAdvances ==
    ASSUME Good, NEW s \in Sessions, CheckBlock(s), NEW r, r = sess[s], NEW q, q = sess'[s]
    PROVE  Advanced(s, r, q)
  <1>1. /\ r.pc = "block" /\ Sound(q) /\ Kept(r, q) /\ q.got = r.got /\ q.fan = {} /\ ~q.counted
        /\ q.pc = "rules" /\ q.raw = "whole" /\ r.raw = "whole"
        /\ UNCHANGED mishaps \/ mishaps' = mishaps + 1
    BY CheckBlockFacts
  <1>2. Sound(r) /\ q.pc \in Nexts \union Serving /\ q.pc # "reply"
    BY <1>1, GoodSession DEF Nexts, Serving
  <1>3. EpochStep(r, q) /\ Quieter(r, q) /\ q.pc \notin {"idle", "rcpt"}
    BY <1>1, <1>2, Moves
  <1>4. /\ UNCHANGED <<mtaVars, dirVars, grpVars, boxVars>> /\ UNCHANGED changes
        /\ OneSession(s)
    BY CallFacts DEF CheckBlock, OneSession
  <1>5. TraceStep(r, q) /\ UNCHANGED <<dedup, replies, inbound>>
    BY <1>1, <1>4, ReadOnly
  <1>6. ReplyStep(s, q)
    BY <1>2, <1>5 DEF ReplyStep
  <1>7. CopyStep(r, q)
    BY <1>3, <1>5 DEF CopyStep
  <1> QED
    BY <1>1, <1>2, <1>3, <1>4, <1>5, <1>6, <1>7 DEF Advanced

LEMMA EvalRulesAdvances ==
    ASSUME Good, NEW s \in Sessions, EvalRules(s), NEW r, r = sess[s], NEW q, q = sess'[s]
    PROVE  Advanced(s, r, q)
  <1>0. RulesApplied(r, q)
    BY EvalRulesFacts
  <1>1. /\ r.pc = "rules" /\ Sound(q) /\ Kept(r, q) /\ q.fan = {} /\ ~q.counted /\ r.raw = "whole"
        /\ \/ q.pc \in Nexts /\ q.raw = "zeroed" /\ \E u \in Users : <<r.mail, u>> \in dropped'
           \/ q.pc = "reserve" /\ q.raw = "whole" /\ q.got = r.got
        /\ dropped \subseteq dropped' /\ dropped' \subseteq Mails \X Users
        /\ UNCHANGED mishaps \/ mishaps' = mishaps + 1
    BY <1>0 DEF RulesApplied
  <1>2. Sound(r) /\ q.pc \in Nexts \union Serving /\ q.pc # "reply"
    BY <1>1, GoodSession DEF Nexts, Serving
  <1>3. EpochStep(r, q) /\ Quieter(r, q) /\ q.pc \notin {"idle", "rcpt"}
    BY <1>1, <1>2, Moves
  <1>4. /\ UNCHANGED <<mtaVars, dirVars, grpVars, dedup, roleBox, inbound, replies>> /\ UNCHANGED changes
        /\ OneSession(s)
    BY CallFacts DEF EvalRules, OneSession, Continue, Return, Go
  <1>5. TraceStep(r, q)
    <2>1. roleBox' \subseteq Mails \X Roles /\ roleBox \subseteq roleBox'
      BY <1>4 DEF Good, TypeOK
    <2> QED
      BY <1>1, <2>1 DEF TraceStep
  <1>6. ReplyStep(s, q)
    BY <1>2, <1>4 DEF ReplyStep
  <1>7. CopyStep(r, q)
    BY <1>3, <1>4 DEF CopyStep
  <1> QED
    BY <1>1, <1>2, <1>3, <1>4, <1>5, <1>6, <1>7 DEF Advanced

LEMMA ReserveAdvances ==
    ASSUME Good, NEW s \in Sessions, Reserve(s), NEW r, r = sess[s], NEW q, q = sess'[s]
    PROVE  Advanced(s, r, q)
  <1>a. PICK p : p = <<r.user, From[r.mail]>>
    OBVIOUS
  <1>0. Reserved(r, q, p)
    BY <1>a, ReserveFacts
  <1>1. /\ r.pc # "fan" /\ r.pc \notin {"idle", "rcpt"} /\ Sound(q) /\ Kept(r, q) /\ q.got = r.got /\ q.fan = {} /\ ~q.counted
        /\ q.raw = "whole" /\ r.raw = "whole" /\ q.pc \in {"queue", "reply"}
        /\ UNCHANGED mishaps \/ mishaps' = mishaps + 1
    BY <1>0 DEF Reserved
  <1>2. Sound(r) /\ q.pc \in Nexts \union Serving
    BY <1>1, GoodSession DEF Nexts, Serving
  <1>3. EpochStep(r, q) /\ Quieter(r, q) /\ q.pc \notin {"idle", "rcpt"}
    BY <1>1, <1>2, Moves
  <1>4. /\ UNCHANGED <<mtaVars, dirVars, grpVars, replies, roleBox, inbound, dropped>> /\ UNCHANGED changes
        /\ OneSession(s)
    BY CallFacts, ZenonT(40) DEF Reserve, OneSession, Go, budget
  <1>5. TraceStep(r, q)
    BY <1>1, <1>4 DEF TraceStep, Good, TypeOK
  <1>6. ReplyStep(s, q)
    BY DEF ReplyStep
  <1>7. CopyStep(r, q)
    BY <1>3, <1>4 DEF CopyStep
  <1> QED
    BY <1>1, <1>2, <1>3, <1>4, <1>5, <1>6, <1>7 DEF Advanced

LEMMA SendReplyAdvances ==
    ASSUME Good, NEW s \in Sessions, SendReply(s), NEW r, r = sess[s], NEW q, q = sess'[s]
    PROVE  Advanced(s, r, q)
  <1>a. PICK p : p = <<r.user, From[r.mail]>>
    OBVIOUS
  <1>0. ReplySent(r, q, p)
    BY <1>a, SendReplyFacts
  <1>1. /\ r.pc # "fan" /\ r.pc \notin {"idle", "rcpt"} /\ Sound(q) /\ Kept(r, q) /\ q.got = r.got /\ q.fan = {} /\ ~q.counted
        /\ q.raw = "whole" /\ r.raw = "whole" /\ q.pc \in {"queue", "reply"}
        /\ UNCHANGED mishaps \/ mishaps' = mishaps + 1
    BY <1>0 DEF ReplySent
  <1>2. Sound(r) /\ q.pc \in Nexts \union Serving
    BY <1>1, GoodSession DEF Nexts, Serving
  <1>3. EpochStep(r, q) /\ Quieter(r, q) /\ q.pc \notin {"idle", "rcpt"}
    BY <1>1, <1>2, Moves
  <1>4. /\ UNCHANGED <<mtaVars, dirVars, grpVars, dedup, roleBox, inbound, dropped>> /\ UNCHANGED changes
        /\ OneSession(s)
    BY CallFacts DEF SendReply, OneSession, Go, budget
  <1>5. TraceStep(r, q)
    BY <1>1, <1>4 DEF TraceStep, Good, TypeOK
  <1>6. ReplyStep(s, q)
    BY DEF ReplyStep
  <1>7. CopyStep(r, q)
    BY <1>3, <1>4 DEF CopyStep
  <1> QED
    BY <1>1, <1>2, <1>3, <1>4, <1>5, <1>6, <1>7 DEF Advanced

LEMMA PublishAdvances ==
    ASSUME Good, NEW s \in Sessions, Publish(s), NEW r, r = sess[s], NEW q, q = sess'[s]
    PROVE  Advanced(s, r, q)
  <1>0. Published(r, q)
    BY PublishFacts
  <1>1. /\ r.pc = "queue" /\ Sound(q) /\ Kept(r, q) /\ q.pc \in Nexts /\ q.raw = "zeroed" /\ q.fan = {} /\ ~q.counted
        /\ r.raw = "whole" /\ r.mail \in Mails /\ r.user \in Users
        /\ UNCHANGED mishaps \/ mishaps' = mishaps + 1
    BY <1>0 DEF Published
  <1>2. Sound(r) /\ q.pc \notin {"reply", "members", "fan"}
    BY <1>1, GoodSession DEF Nexts
  <1>3. EpochStep(r, q) /\ Quieter(r, q) /\ q.pc \notin {"idle", "rcpt"}
    BY <1>1, <1>2, Moves
  <1>4. /\ UNCHANGED <<mtaVars, dirVars, grpVars, dedup, roleBox, dropped, replies>> /\ UNCHANGED changes
        /\ OneSession(s)
    BY CallFacts DEF Publish, OneSession, Return, Continue
  <1>b. PICK c : /\ Truthful(c, r.mail) /\ c.group = NoUser /\ c.moved = r.moved
                 /\ \/ inbound' = Queued(r.mail, r.user, c) /\ (q.got # {} \/ mishaps' = mishaps + 1)
                    \/ inbound' = inbound /\ q.got = r.got
    BY <1>0 DEF Published
  <1>5. TraceStep(r, q)
    <2>1. /\ roleBox' \subseteq Mails \X Roles /\ roleBox \subseteq roleBox'
          /\ dropped' \subseteq Mails \X Users /\ dropped \subseteq dropped'
      BY <1>4 DEF Good, TypeOK
    <2>2. CASE inbound' = Queued(r.mail, r.user, c)
      <3>1. inbound \in [Mails \X Users -> Seq(Copies)] /\ c \in Copies /\ <<r.mail, r.user>> \in Mails \X Users
        BY <1>1, <1>b DEF Truthful, Good, TypeOK
      <3>2. inbound'[<<r.mail, r.user>>] = Append(inbound[<<r.mail, r.user>>], c)
        BY <2>2, <3>1 DEF Queued
      <3>3. PICK z \in Seq(Copies) : z = inbound[<<r.mail, r.user>>]
        BY <3>1
      <3>4. Append(z, c) # <<>>
        BY <3>1, SeqAppend
      <3>5. inbound'[<<r.mail, r.user>>] # <<>>
        BY <3>2, <3>3, <3>4
      <3> QED
        BY <1>1, <2>1, <3>5 DEF TraceStep
    <2> QED
      BY <1>b, <2>1, <2>2 DEF TraceStep
  <1>6. ReplyStep(s, q)
    BY <1>2, <1>4 DEF ReplyStep
  <1>7. CopyStep(r, q)
    <2>1. CASE inbound' = Queued(r.mail, r.user, c) /\ (q.got # {} \/ mishaps' = mishaps + 1)
      <3>1. Able(r, r.user) /\ ~Able(q, r.user) /\ (Sure(q) \/ mishaps' = mishaps + 1)
        BY <1>1, <1>2, <2>1 DEF Able, Sure
      <3>2. CopyFor(r, q, r.user, c)
        BY <1>b, <2>1, <3>1 DEF CopyFor
      <3> QED
        BY <1>1, <1>3, <3>2 DEF CopyStep
    <2>2. CASE inbound' = inbound
      BY <1>3, <2>2 DEF CopyStep
    <2> QED
      BY <1>b, <2>1, <2>2
  <1> QED
    BY <1>1, <1>2, <1>3, <1>4, <1>5, <1>6, <1>7 DEF Advanced

LEMMA GroupOpenAdvances ==
    ASSUME Good, NEW s \in Sessions, GroupOpen(s), NEW r, r = sess[s], NEW q, q = sess'[s]
    PROVE  Advanced(s, r, q)
  <1>0. GroupOpened(r, q)
    BY GroupOpenFacts
  <1>1. /\ r.pc = "group" /\ Sound(q) /\ Kept(r, q) /\ q.fan = {} /\ ~q.counted /\ q.got \ Groups = r.got \ Groups
        /\ \/ /\ q.pc = "members" /\ q.raw = "zeroed" /\ r.raw = "whole" /\ Head(q.groupRecipients) \in Groups
              /\ q.epoch = epoch[Head(q.groupRecipients)]
           \/ q.pc \in Nexts /\ (q.raw = "zeroed" \/ q.raw = r.raw)
        /\ UNCHANGED mishaps \/ mishaps' = mishaps + 1
    BY <1>0 DEF GroupOpened
  <1>2. Sound(r) /\ q.pc # "reply"
    BY <1>1, GoodSession DEF Nexts
  <1>3. EpochStep(r, q) /\ Quieter(r, q) /\ q.pc \notin {"idle", "rcpt"}
    <2>1. CASE q.pc = "members"
      <3>1. EpochStep(r, q)
        BY <1>1, <2>1 DEF EpochStep, Nexts
      <3>2. r.raw = "whole" /\ ~r.counted
        BY <1>1, <1>2, <2>1 DEF Nexts, Sound, SessionOK
      <3>3. Quieter(r, q)
        BY <1>1, <3>2 DEF Quieter, Able, Sure, Kept
      <3> QED
        BY <2>1, <3>1, <3>3
    <2>2. CASE q.pc \in Nexts /\ (q.raw = "zeroed" \/ q.raw = r.raw)
      BY <1>1, <1>2, <2>2, Moves
    <2> QED
      BY <1>1, <2>1, <2>2
  <1>4. /\ UNCHANGED <<mtaVars, dirVars, grpVars, boxVars>> /\ UNCHANGED changes
        /\ OneSession(s)
    BY CallFacts DEF GroupOpen, OneSession, GroupReturn, Continue
  <1>5. TraceStep(r, q) /\ UNCHANGED <<dedup, replies, inbound>>
    BY <1>1, <1>4, ReadOnly
  <1>6. ReplyStep(s, q)
    BY <1>2, <1>5 DEF ReplyStep
  <1>7. CopyStep(r, q)
    BY <1>3, <1>5 DEF CopyStep
  <1> QED
    BY <1>1, <1>2, <1>3, <1>4, <1>5, <1>6, <1>7 DEF Advanced

LEMMA GroupMembersAdvances ==
    ASSUME Good, NEW s \in Sessions, GroupMembers(s), NEW r, r = sess[s], NEW q, q = sess'[s]
    PROVE  Advanced(s, r, q)
  <1>0. GroupListed(r, q)
    BY GroupMembersFacts
  <1>1. /\ r.pc = "members" /\ Sound(q) /\ Kept(r, q) /\ q.got \ Groups = r.got \ Groups /\ q.raw = "zeroed"
        /\ \/ /\ q.pc = "fan" /\ q.fan \subseteq Eligible(Head(r.groupRecipients), r.epoch)
              /\ q.groupRecipients = r.groupRecipients /\ q.epoch = r.epoch
           \/ q.pc \in Nexts /\ q.fan = {} /\ ~q.counted
        /\ UNCHANGED mishaps \/ mishaps' = mishaps + 1
    BY <1>0 DEF GroupListed
  <1>2. Sound(r) /\ q.pc # "reply" /\ q.pc # "members" /\ q.pc \notin {"idle", "rcpt"} /\ ~r.counted
    BY <1>1, GoodSession DEF Nexts, Sound, SessionOK
  <1>3. EpochStep(r, q) /\ Quieter(r, q)
    <2>1. EpochStep(r, q)
      BY <1>1, <1>2 DEF EpochStep
    <2>2. Quieter(r, q)
      BY <1>1, <1>2 DEF Quieter, Able, Sure, Kept
    <2> QED
      BY <2>1, <2>2
  <1>4. /\ UNCHANGED <<mtaVars, dirVars, grpVars, boxVars>> /\ UNCHANGED changes
        /\ OneSession(s)
    BY CallFacts DEF GroupMembers, OneSession, GroupReturn, Continue
  <1>5. TraceStep(r, q) /\ UNCHANGED <<dedup, replies, inbound>>
    BY <1>1, <1>4, ReadOnly
  <1>6. ReplyStep(s, q)
    BY <1>2, <1>5 DEF ReplyStep
  <1>7. CopyStep(r, q)
    BY <1>3, <1>5 DEF CopyStep
  <1> QED
    BY <1>1, <1>2, <1>3, <1>4, <1>5, <1>6, <1>7 DEF Advanced

LEMMA GroupFanAdvances ==
    ASSUME Good, NEW s \in Sessions, GroupFan(s), NEW r, r = sess[s], NEW q, q = sess'[s]
    PROVE  Advanced(s, r, q)
  <1>0. GroupFanned(r, q)
    BY GroupFanFacts
  <1>1. /\ r.pc = "fan" /\ Sound(q) /\ Kept(r, q) /\ q.raw = "zeroed" /\ q.got \ Groups = r.got \ Groups
        /\ r.mail \in Mails
        /\ \/ q.pc = "fan" /\ q.groupRecipients = r.groupRecipients /\ q.epoch = r.epoch
           \/ q.pc \in Nexts /\ q.fan = {} /\ ~q.counted
        /\ r.counted => q.got # {} \/ q.counted
        /\ UNCHANGED mishaps \/ mishaps' = mishaps + 1
    BY <1>0 DEF GroupFanned
  <1>a. PICK u \in Users : \E c :
                /\ u \in r.fan /\ q.fan \subseteq r.fan \ {u}
                /\ Truthful(c, r.mail) /\ c.group = Head(r.groupRecipients) /\ c.epoch = r.epoch /\ ~c.moved
                /\ \/ inbound' = Queued(r.mail, u, c) /\ (q.got # {} \/ q.counted \/ mishaps' = mishaps + 1)
                   \/ inbound' = inbound
    BY <1>0 DEF GroupFanned
  <1>b. PICK c :
                /\ u \in r.fan /\ q.fan \subseteq r.fan \ {u}
                /\ Truthful(c, r.mail) /\ c.group = Head(r.groupRecipients) /\ c.epoch = r.epoch /\ ~c.moved
                /\ \/ inbound' = Queued(r.mail, u, c) /\ (q.got # {} \/ q.counted \/ mishaps' = mishaps + 1)
                   \/ inbound' = inbound
    BY <1>a
  <1>2. Sound(r) /\ q.pc # "reply" /\ q.pc # "members" /\ q.pc \notin {"idle", "rcpt"}
    BY <1>1, GoodSession DEF Nexts
  <1>3. EpochStep(r, q) /\ Quieter(r, q)
    <2>1. EpochStep(r, q)
      BY <1>1, <1>2, <1>b DEF EpochStep
    <2>2. Quieter(r, q)
      BY <1>1, <1>2, <1>b DEF Quieter, Able, Sure, Kept
    <2> QED
      BY <2>1, <2>2
  <1>4. /\ UNCHANGED <<mtaVars, dirVars, grpVars, dedup, roleBox, dropped, replies>> /\ UNCHANGED changes
        /\ OneSession(s)
    BY CallFacts DEF GroupFan, OneSession, GroupReturn, Continue
  <1>5. TraceStep(r, q)
    BY <1>1, <1>4 DEF TraceStep, Good, TypeOK
  <1>6. ReplyStep(s, q)
    BY <1>2, <1>4 DEF ReplyStep
  <1>7. CopyStep(r, q)
    <2>1. CASE inbound' = Queued(r.mail, u, c) /\ (q.got # {} \/ q.counted \/ mishaps' = mishaps + 1)
      <3>1. Able(r, u) /\ ~Able(q, u) /\ (Sure(q) \/ mishaps' = mishaps + 1)
        BY <1>1, <1>2, <1>b, <2>1 DEF Able, Sure
      <3>2. CopyFor(r, q, u, c)
        BY <1>b, <2>1, <3>1 DEF CopyFor
      <3> QED
        BY <1>3, <3>2 DEF CopyStep
    <2>2. CASE inbound' = inbound
      BY <1>3, <2>2 DEF CopyStep
    <2> QED
      BY <1>b, <2>1, <2>2
  <1> QED
    BY <1>1, <1>2, <1>3, <1>4, <1>5, <1>6, <1>7 DEF Advanced

LEMMA DeliverAdvances ==
    ASSUME Good, NEW s \in Sessions, Deliver(s), ~Answer(s), NEW r, r = sess[s], NEW q, q = sess'[s]
    PROVE  Advanced(s, r, q)
  <1>1. \/ InsertRole(s) \/ Expand(s) \/ Parse(s) \/ CheckBlock(s) \/ EvalRules(s)
        \/ Reserve(s) \/ SendReply(s) \/ Publish(s)
        \/ GroupOpen(s) \/ GroupMembers(s) \/ GroupFan(s)
    BY DEF Deliver
  <1>2. CASE InsertRole(s)
    BY <1>2, InsertRoleAdvances
  <1>3. CASE Expand(s)
    BY <1>3, ExpandAdvances
  <1>4. CASE Parse(s)
    BY <1>4, ParseAdvances
  <1>5. CASE CheckBlock(s)
    BY <1>5, CheckBlockAdvances
  <1>6. CASE EvalRules(s)
    BY <1>6, EvalRulesAdvances
  <1>7. CASE Reserve(s)
    BY <1>7, ReserveAdvances
  <1>8. CASE SendReply(s)
    BY <1>8, SendReplyAdvances
  <1>9. CASE Publish(s)
    BY <1>9, PublishAdvances
  <1>10. CASE GroupOpen(s)
    BY <1>10, GroupOpenAdvances
  <1>11. CASE GroupMembers(s)
    BY <1>11, GroupMembersAdvances
  <1>12. CASE GroupFan(s)
    BY <1>12, GroupFanAdvances
  <1> QED
    BY <1>1, <1>2, <1>3, <1>4, <1>5, <1>6, <1>7, <1>8, <1>9, <1>10, <1>11, <1>12

(* The other steps of a session: what they change of its record.           *)
Same(r, q) ==
    /\ q.pc = r.pc /\ q.mail = r.mail /\ q.took = r.took /\ q.got = r.got /\ q.raw = r.raw /\ q.user = r.user
    /\ q.fan = r.fan /\ q.counted = r.counted /\ q.epoch = r.epoch /\ q.groupRecipients = r.groupRecipients
    /\ q.ask = r.ask /\ q.moved = r.moved

Orphaned(r) == [r EXCEPT !.orphan = TRUE]
Expired(r) == [r EXCEPT !.late = TRUE]

LEMMA OrphanedFacts ==
    ASSUME NEW r, Sound(r), r.pc \notin {"idle", "rcpt"}, NEW q, q = Orphaned(r)
    PROVE  Sound(q) /\ Same(r, q) /\ q.orphan
  <1>1. r \in Session
    BY DEF Sound
  <1>2. q \in Session
    BY <1>1 DEF Session, Orphaned
  <1>3. Same(r, q) /\ q.orphan
    BY <1>1 DEF Session, Orphaned, Same
  <1>4. /\ q.roleRecipients = r.roleRecipients /\ q.recipients = r.recipients /\ q.targets = r.targets /\ q.try = r.try
        /\ q.folder = r.folder /\ q.delivered = r.delivered
    BY <1>1 DEF Session, Orphaned
  <1> QED
    BY <1>2, <1>3, <1>4 DEF Sound, SessionOK, Same

LEMMA ExpiredFacts ==
    ASSUME NEW r, Sound(r), NEW q, q = Expired(r)
    PROVE  Sound(q) /\ Same(r, q) /\ q.orphan = r.orphan
  <1>1. r \in Session
    BY DEF Sound
  <1>2. q \in Session
    BY <1>1 DEF Session, Expired
  <1>3. Same(r, q) /\ q.orphan = r.orphan
    BY <1>1 DEF Session, Expired, Same
  <1>4. /\ q.roleRecipients = r.roleRecipients /\ q.recipients = r.recipients /\ q.targets = r.targets /\ q.try = r.try
        /\ q.folder = r.folder /\ q.delivered = r.delivered
    BY <1>1 DEF Session, Expired
  <1> QED
    BY <1>2, <1>3, <1>4 DEF Sound, SessionOK, Same

Sent(m, n, A) == [Idle EXCEPT !.pc = "rcpt", !.mail = m, !.try = n, !.ask = A]

LEMMA SentFacts ==
    ASSUME NEW m \in Mails, NEW n \in 1..MaxTries, NEW A \in SUBSET DOMAIN Rcpts[m], NEW q, q = Sent(m, n, A)
    PROVE  /\ Sound(q) /\ q.pc = "rcpt" /\ q.mail = m /\ q.ask = A /\ ~q.orphan /\ q.got = {} /\ q.fan = {} /\ ~q.counted
           /\ ~q.moved
  <1>0. /\ Idle.got = {} /\ Idle.fan = {} /\ ~Idle.counted /\ ~Idle.orphan /\ Idle.targets = <<>> /\ Idle.user = NoUser
        /\ Idle.delivered = {} /\ Idle \in Session /\ ~Idle.moved
    BY IdleFacts
  <1>1. PICK i : i = Idle
    OBVIOUS
  <1>2. A \in SUBSET Nat /\ n \in 0..MaxTries /\ n # 0 /\ "rcpt" \in Pcs
    BY DEF Pcs
  <1>3. q \in Session
    BY <1>0, <1>1, <1>2 DEF Session, Sent
  <1>4. /\ q.pc = "rcpt" /\ q.mail = m /\ q.try = n /\ q.ask = A /\ q.orphan = i.orphan /\ q.got = i.got /\ q.fan = i.fan
        /\ q.counted = i.counted /\ q.targets = i.targets /\ q.user = i.user /\ q.delivered = i.delivered
        /\ q.moved = i.moved
    BY <1>0, <1>1 DEF Session, Sent
  <1> QED
    BY <1>0, <1>1, <1>2, <1>3, <1>4 DEF Sound, SessionOK, Serving

(* The sender starts an attempt; the sender is gone; the time is up.       *)
SentOff(s, m, q) ==
    /\ OneSession(s) /\ sess[s].pc = "idle" /\ pending[m] # {}
    /\ \A t \in Sessions : sess[t].mail = m => sess[t].orphan
    /\ Sound(q) /\ q.pc = "rcpt" /\ q.mail = m /\ ~q.orphan /\ q.got = {} /\ q.fan = {} /\ ~q.counted /\ ~q.moved
    /\ q.ask = {k \in DOMAIN Rcpts[m] : Rcpts[m][k] \in pending[m]}
    /\ tries' \in [Mails -> 0..MaxTries]
    /\ UNCHANGED <<pending, accepted, dirVars, grpVars, boxVars, budget>>

LEMMA SendFacts ==
    ASSUME Good, NEW s \in Sessions, NEW m \in Mails, Send(s, m), NEW q, q = sess'[s]
    PROVE  SentOff(s, m, q)
  <1>1. PICK n : n = tries[m] + 1
    OBVIOUS
  <1>2. PICK A : A = {k \in DOMAIN Rcpts[m] : Rcpts[m][k] \in pending[m]}
    OBVIOUS
  <1>3. n \in 1..MaxTries /\ tries' \in [Mails -> 0..MaxTries]
    BY <1>1 DEF Send, Good, TypeOK
  <1>4. q = Sent(m, n, A)
    BY <1>1, <1>2, SetFacts DEF Send, Sent
  <1>5. A \in SUBSET DOMAIN Rcpts[m]
    BY <1>2
  <1>6. /\ Sound(q) /\ q.pc = "rcpt" /\ q.mail = m /\ q.ask = A /\ ~q.orphan /\ q.got = {} /\ q.fan = {} /\ ~q.counted
        /\ ~q.moved
    BY <1>3, <1>4, <1>5, SentFacts
  <1>7. /\ sess[s].pc = "idle" /\ pending[m] # {} /\ \A t \in Sessions : sess[t].mail = m => sess[t].orphan
        /\ OneSession(s) /\ UNCHANGED <<pending, accepted, dirVars, grpVars, boxVars, budget>>
    BY DEF Send, OneSession
  <1> QED
    BY <1>2, <1>3, <1>6, <1>7 DEF SentOff

CutOff(s, r, q) ==
    /\ OneSession(s) /\ Sound(r) /\ Sound(q) /\ ~r.orphan /\ r.mail \in Mails /\ mishaps' = mishaps + 1
    /\ \/ r.pc \notin {"idle", "rcpt"} /\ Same(r, q) /\ q.orphan
       \/ r.pc = "rcpt" /\ q = Idle
    /\ UNCHANGED <<mtaVars, dirVars, grpVars, boxVars, changes>>

LEMMA DisconnectFacts ==
    ASSUME Good, NEW s \in Sessions, Disconnect(s), NEW r, r = sess[s], NEW q, q = sess'[s]
    PROVE  CutOff(s, r, q)
  <1>1. Sound(r) /\ r.pc # "idle" /\ ~r.orphan
    BY GoodSession DEF Disconnect
  <1>2. r.mail \in Mails
    BY <1>1 DEF Sound, Session
  <1>3. OneSession(s) /\ mishaps' = mishaps + 1 /\ UNCHANGED <<mtaVars, dirVars, grpVars, boxVars, changes>>
    BY DEF Disconnect, OneSession, Mishap
  <1>4. CASE r.pc \notin {"idle", "rcpt"}
    <2>1. q = Orphaned(r)
      BY <1>4, SetFacts DEF Disconnect, Processing, Orphaned
    <2>2. Sound(q) /\ Same(r, q) /\ q.orphan
      BY <1>1, <1>4, <2>1, OrphanedFacts
    <2> QED
      BY <1>1, <1>2, <1>3, <1>4, <2>2 DEF CutOff
  <1>5. CASE r.pc = "rcpt"
    <2>1. q = Idle
      BY <1>5, SetFacts DEF Disconnect, Processing
    <2> QED
      BY <1>1, <1>2, <1>3, <1>5, <2>1, IdleFacts DEF CutOff
  <1> QED
    BY <1>1, <1>4, <1>5

TimedOut(s, r, q) ==
    /\ OneSession(s) /\ Sound(q) /\ Same(r, q) /\ q.orphan = r.orphan /\ mishaps' = mishaps + 1
    /\ UNCHANGED <<mtaVars, dirVars, grpVars, boxVars, changes>>

LEMMA ExpireFacts ==
    ASSUME Good, NEW s \in Sessions, Expire(s), NEW r, r = sess[s], NEW q, q = sess'[s]
    PROVE  TimedOut(s, r, q)
  <1>1. Sound(r)
    BY GoodSession
  <1>2. q = Expired(r)
    BY SetFacts DEF Expire, Expired
  <1>3. Sound(q) /\ Same(r, q) /\ q.orphan = r.orphan
    BY <1>1, <1>2, ExpiredFacts
  <1>4. OneSession(s) /\ mishaps' = mishaps + 1 /\ UNCHANGED <<mtaVars, dirVars, grpVars, boxVars, changes>>
    BY DEF Expire, OneSession, Mishap
  <1> QED
    BY <1>3, <1>4 DEF TimedOut

(* The answer.                                                             *)
Ended(s, r) ==
    /\ OneSession(s) /\ r.pc = "answer" /\ Sound(r) /\ sess'[s] = Idle /\ r.mail \in Mails
    /\ \/ /\ r.got # {} /\ ~r.orphan /\ pending' = [pending EXCEPT ![r.mail] = @ \ r.took]
          /\ accepted' = accepted \union {[mail |-> r.mail, owed |-> r.delivered, got |-> r.got]}
       \/ (r.got = {} \/ r.orphan) /\ UNCHANGED <<pending, accepted>>
    /\ UNCHANGED <<tries, dirVars, grpVars, boxVars, budget>>

LEMMA AnswerFacts ==
    ASSUME Good, NEW s \in Sessions, Answer(s), NEW r, r = sess[s]
    PROVE  Ended(s, r)
  <1>1. Sound(r) /\ r.pc = "answer"
    BY GoodSession DEF Answer
  <1>2. r.mail \in Mails
    BY <1>1, Delivering
  <1>3. OneSession(s) /\ sess'[s] = Idle
    BY SetFacts DEF Answer, OneSession
  <1>4. /\ \/ /\ r.got # {} /\ ~r.orphan /\ pending' = [pending EXCEPT ![r.mail] = @ \ r.took]
              /\ accepted' = accepted \union {[mail |-> r.mail, owed |-> r.delivered, got |-> r.got]}
           \/ (r.got = {} \/ r.orphan) /\ UNCHANGED <<pending, accepted>>
        /\ UNCHANGED <<tries, dirVars, grpVars, boxVars, budget>>
    BY DEF Answer, Succeeded
  <1> QED
    BY <1>1, <1>2, <1>3, <1>4 DEF Ended

-----------------------------------------------------------------------------
(* The steps of the system, by what the invariants need of them.           *)

(* What the stores hold.                                                   *)
DirOK == alias \in [Aliases -> SUBSET Users] /\ catchAll \in Users \union {NoUser}
         /\ acct \in [Users -> {"open", "closed", "full"}] /\ rule \in [Users -> Rules]
BoxOK == /\ roleBox \subseteq Mails \X Roles /\ dropped \subseteq Mails \X Users
         /\ inbound \in [Mails \X Users -> Seq(Copies)]
         /\ replies \in [Users \X Senders -> Nat] /\ dedup \subseteq Users \X Senders
GrpOK == members \in [Groups -> [Users -> Int]] /\ epoch \in [Groups -> Nat]
MtaOK == pending \in [Mails -> SUBSET Addresses] /\ tries \in [Mails -> 0..MaxTries]
SessOK == sess \in [Sessions -> Session] /\ \A s \in Sessions : Sound(sess[s])

LEMMA GoodParts ==
    Good <=> SessOK /\ MtaOK /\ DirOK /\ GrpOK /\ BoxOK /\ mishaps \in Nat /\ changes \in Nat
  BY DEF Good, TypeOK, SessionInv, SessOK, MtaOK, DirOK, GrpOK, BoxOK, Sound

LEMMA GoodPartsNext ==
    ASSUME SessOK', MtaOK', DirOK', GrpOK', BoxOK', mishaps' \in Nat, changes' \in Nat
    PROVE  Good'
  BY DEF Good, TypeOK, SessionInv, SessOK, MtaOK, DirOK, GrpOK, BoxOK, Sound

LEMMA SessionsStep ==
    ASSUME Good, NEW s \in Sessions, OneSession(s), Sound(sess'[s])
    PROVE  SessOK'
  <1>1. PICK X : Set(s, X)
    BY DEF OneSession
  <1>2. SessOK
    BY GoodParts
  <1>3. X \in Session /\ sess' = [sess EXCEPT ![s] = X] /\ sess \in [Sessions -> Session] /\ sess'[s] = X
    BY <1>1, <1>2 DEF Set, SessOK, Sound
  <1>4. sess' \in [Sessions -> Session] /\ \A t \in Sessions : sess'[t] = sess[t] \/ t = s
    BY <1>3
  <1>5. \A t \in Sessions : Sound(sess'[t])
    BY <1>2, <1>4 DEF SessOK
  <1> QED
    BY <1>4, <1>5 DEF SessOK

LEMMA Others ==
    ASSUME Good, NEW s \in Sessions, OneSession(s)
    PROVE  \A t \in Sessions : t # s => sess'[t] = sess[t]
  BY SetFacts DEF OneSession

OneMore(m, u, c) ==
    /\ inbound' \in [Mails \X Users -> Seq(Copies)] /\ c \in Copies
    /\ inbound[<<m, u>>] \in Seq(Copies) /\ inbound'[<<m, u>>] = Append(inbound[<<m, u>>], c)
    /\ \A p \in Mails \X Users : p # <<m, u>> => inbound'[p] = inbound[p]

LEMMA QueuedFacts ==
    ASSUME Good, NEW m \in Mails, NEW u \in Users, NEW c \in Copies, inbound' = Queued(m, u, c)
    PROVE  OneMore(m, u, c)
  <1>1. inbound \in [Mails \X Users -> Seq(Copies)] /\ <<m, u>> \in Mails \X Users
    BY DEF Good, TypeOK
  <1>2. Append(inbound[<<m, u>>], c) \in Seq(Copies)
    BY <1>1
  <1> QED
    BY <1>1, <1>2 DEF Queued, OneMore

(* A copy is queued, or none is.                                           *)
LEMMA CopiedFacts ==
    ASSUME Good, NEW r, NEW q, Sound(r), r.pc \notin {"idle", "rcpt"}, CopyStep(r, q), inbound' # inbound
    PROVE  /\ r.mail \in Mails
           /\ \E u \in Users : \E c : CopyFor(r, q, u, c) /\ OneMore(r.mail, u, c)
  <1>1. PICK u \in Users : \E c : CopyFor(r, q, u, c)
    BY DEF CopyStep
  <1>2. PICK c : CopyFor(r, q, u, c)
    BY <1>1
  <1>3. c \in Copies /\ inbound' = Queued(r.mail, u, c)
    BY <1>2 DEF CopyFor, Truthful
  <1>4. r.mail \in Mails
    BY Delivering
  <1>5. OneMore(r.mail, u, c)
    BY <1>3, <1>4, QueuedFacts
  <1> QED
    BY <1>2, <1>4, <1>5

(* Addresses are struck off what the sender owes.                          *)
LEMMA PendingLess ==
    ASSUME MtaOK, NEW m \in Mails, NEW D, pending' = [pending EXCEPT ![m] = @ \ D]
    PROVE  /\ pending' \in [Mails -> SUBSET Addresses] /\ pending'[m] = pending[m] \ D
           /\ \A n \in Mails : n # m => pending'[n] = pending[n]
  <1>1. pending[m] \ D \in SUBSET Addresses
    BY DEF MtaOK
  <1> QED
    BY <1>1 DEF MtaOK

LEMMA AdvancedTables ==
    ASSUME Good, NEW s \in Sessions, NEW r, r = sess[s], NEW q, q = sess'[s], Advanced(s, r, q)
    PROVE  Good'
  <1>1. /\ OneSession(s) /\ UNCHANGED <<mtaVars, dirVars, grpVars>>
        /\ Sound(r) /\ Sound(q) /\ Kept(r, q) /\ r.pc \notin {"idle", "rcpt"}
        /\ UNCHANGED mishaps \/ mishaps' = mishaps + 1
        /\ UNCHANGED changes
        /\ TraceStep(r, q) /\ ReplyStep(s, q) /\ EpochStep(r, q) /\ CopyStep(r, q)
    BY DEF Advanced
  <1>2. SessOK'
    BY <1>1, SessionsStep
  <1>3. MtaOK' /\ DirOK' /\ GrpOK' /\ mishaps' \in Nat /\ changes' \in Nat
    BY <1>1, GoodParts DEF MtaOK, DirOK, GrpOK, mtaVars, dirVars, grpVars
  <1>4. BoxOK
    BY GoodParts
  <1>5. inbound' \in [Mails \X Users -> Seq(Copies)]
    <2>1. CASE inbound' = inbound
      BY <1>4, <2>1 DEF BoxOK
    <2>2. CASE inbound' # inbound
      BY <1>1, <2>2, CopiedFacts DEF OneMore
    <2> QED
      BY <2>1, <2>2
  <1>6. roleBox' \subseteq Mails \X Roles /\ dropped' \subseteq Mails \X Users
    BY <1>1 DEF TraceStep
  <1>7. replies' \in [Users \X Senders -> Nat] /\ dedup' \subseteq Users \X Senders
    <2>0. PICK p : p = <<r.user, From[r.mail]>>
      OBVIOUS
    <2>1. CASE UNCHANGED <<dedup, replies>>
      BY <1>4, <2>1 DEF BoxOK
    <2>2. CASE Reserve(s)
      <3>1. Reserved(r, q, p)
        BY <2>0, <2>2, ReserveFacts
      <3>2. replies' = replies
        BY <2>2 DEF Reserve
      <3> QED
        BY <1>4, <3>1, <3>2 DEF Reserved, BoxOK
    <2>3. CASE SendReply(s)
      <3>1. ReplySent(r, q, p)
        BY <2>0, <2>3, SendReplyFacts
      <3>2. dedup' = dedup
        BY <2>3 DEF SendReply
      <3> QED
        BY <1>4, <3>1, <3>2 DEF ReplySent, BoxOK
    <2> QED
      BY <1>1, <2>1, <2>2, <2>3 DEF ReplyStep
  <1>8. BoxOK'
    BY <1>5, <1>6, <1>7 DEF BoxOK
  <1> QED
    BY <1>2, <1>3, <1>8, GoodPartsNext

(* A setting of a user or an administrator; nothing at all.                *)
RuleKept == \A u \in Users : rule[u] = "move" => rule'[u] = "move"
Settled == UNCHANGED <<mtaVars, sess, grpVars, boxVars, mishaps>> /\ DirOK' /\ changes' \in Nat /\ RuleKept

GroupChange == \E g \in Groups : RotateGroupKey(g) \/ \E u \in Users : AddMember(g, u) \/ RemoveMember(g, u)

LEMMA SettledFacts ==
    ASSUME Good,
           \/ \E u \in Users : CloseAccount(u) \/ \E act \in Rules \ {"none"} : CreateRule(u, act)
           \/ \E a \in Aliases : DeleteAlias(a) \/ \E u \in Users : CreateAlias(a, u)
           \/ \E c \in CatchAlls : SetCatchAll(c)
           \/ \E u \in Users, f \in Senders : BlockSender(u, f)
    PROVE  Settled
  <1> USE GoodParts DEF Settled, DirOK, Change, RuleKept
  <1>1. ASSUME NEW u \in Users, CloseAccount(u)
        PROVE  Settled
    BY <1>1 DEF CloseAccount
  <1>2. ASSUME NEW u \in Users, NEW act \in Rules, CreateRule(u, act)
        PROVE  Settled
    BY <1>2 DEF CreateRule
  <1>3. ASSUME NEW a \in Aliases, DeleteAlias(a)
        PROVE  Settled
    BY <1>3 DEF DeleteAlias
  <1>4. ASSUME NEW a \in Aliases, NEW u \in Users, CreateAlias(a, u)
        PROVE  Settled
    <2>1. alias' = [alias EXCEPT ![a] = @ \union {u}] /\ alias[a] \union {u} \in SUBSET Users
      BY <1>4 DEF CreateAlias
    <2>2. alias' \in [Aliases -> SUBSET Users]
      BY <2>1
    <2> QED
      BY <1>4, <2>2 DEF CreateAlias
  <1>5. ASSUME NEW c \in CatchAlls, SetCatchAll(c)
        PROVE  Settled
    BY <1>5 DEF SetCatchAll
  <1>6. ASSUME NEW u \in Users, NEW f \in Senders, BlockSender(u, f)
        PROVE  Settled
    BY <1>6 DEF BlockSender
  <1> QED
    BY <1>1, <1>2, <1>3, <1>4, <1>5, <1>6

SystemStep ==
    \/ \E s \in Sessions : Advanced(s, sess[s], sess'[s])
    \/ \E s \in Sessions : Ended(s, sess[s])
    \/ \E s \in Sessions : Rcpt(s)
    \/ \E s \in Sessions, m \in Mails : SentOff(s, m, sess'[s])
    \/ \E m \in Mails : GiveUp(m)
    \/ \E s \in Sessions : CutOff(s, sess[s], sess'[s])
    \/ \E s \in Sessions : TimedOut(s, sess[s], sess'[s])
    \/ ProcessEnds
    \/ Settled
    \/ GroupChange
    \/ NextDay

LEMMA NextCases ==
    ASSUME Good, [Next]_vars
    PROVE  SystemStep
  <1>1. CASE UNCHANGED vars
    BY <1>1, GoodParts DEF SystemStep, Settled, RuleKept, vars, DirOK, dirVars, budget
  <1>2. ASSUME NEW s \in Sessions, Deliver(s)
        PROVE  SystemStep
    <2>1. CASE Answer(s)
      BY <2>1, AnswerFacts DEF SystemStep
    <2>2. CASE ~Answer(s)
      BY <1>2, <2>2, DeliverAdvances DEF SystemStep
    <2> QED
      BY <2>1, <2>2
  <1>3. ASSUME NEW m \in Mails, NEW s \in Sessions, Send(s, m)
        PROVE  SystemStep
    BY <1>3, SendFacts DEF SystemStep
  <1>4. ASSUME NEW s \in Sessions, Disconnect(s)
        PROVE  SystemStep
    BY <1>4, DisconnectFacts DEF SystemStep
  <1>5. ASSUME NEW s \in Sessions, Expire(s)
        PROVE  SystemStep
    BY <1>5, ExpireFacts DEF SystemStep
  <1>6. ASSUME Environment
        PROVE  SystemStep
    BY <1>4, <1>5, <1>6, SettledFacts DEF SystemStep, Environment, GroupChange
  <1>7. CASE Next
    BY <1>2, <1>3, <1>6, <1>7 DEF Next, SystemStep
  <1> QED
    BY <1>1, <1>7

(* Types and the soundness of every session's record are preserved.        *)
LEMMA GoodNext ==
    ASSUME Good, [Next]_vars
    PROVE  Good'
  <1>0. SessOK /\ MtaOK /\ DirOK /\ GrpOK /\ BoxOK /\ mishaps \in Nat /\ changes \in Nat
    BY GoodParts
  <1>1. ASSUME NEW s \in Sessions, Advanced(s, sess[s], sess'[s])
        PROVE  Good'
    BY <1>1, AdvancedTables
  <1>2. ASSUME NEW s \in Sessions, Ended(s, sess[s])
        PROVE  Good'
    <2>1. SessOK'
      BY <1>2, SessionsStep, IdleFacts DEF Ended
    <2>2. MtaOK'
      <3>1. pending' \in [Mails -> SUBSET Addresses]
        <4>1. CASE pending' = [pending EXCEPT ![sess[s].mail] = @ \ sess[s].took]
          BY <1>0, <1>2, <4>1, PendingLess DEF Ended
        <4>2. CASE pending' = pending
          BY <1>0, <4>2 DEF MtaOK
        <4> QED
          BY <1>2, <4>1, <4>2 DEF Ended
      <3> QED
        BY <1>0, <1>2, <3>1 DEF Ended, MtaOK
    <2>3. DirOK' /\ GrpOK' /\ BoxOK' /\ mishaps' \in Nat /\ changes' \in Nat
      BY <1>0, <1>2 DEF Ended, DirOK, GrpOK, BoxOK, dirVars, grpVars, boxVars, budget
    <2> QED
      BY <2>1, <2>2, <2>3, GoodPartsNext
  <1>3. ASSUME NEW s \in Sessions, Rcpt(s)
        PROVE  Good'
    <2>0. Arrived(s, sess[s], sess'[s])
      BY <1>3, RcptFacts
    <2>1. SessOK'
      BY <2>0, SessionsStep DEF Arrived
    <2>2. MtaOK'
      <3>1. tries' = tries
        BY <1>3 DEF Rcpt
      <3>2. pending' \in [Mails -> SUBSET Addresses]
        <4>1. PICK k \in sess[s].ask :
                pending' = pending \/ pending' = [pending EXCEPT ![sess[s].mail] = @ \ {Rcpts[sess[s].mail][k]}]
          BY <2>0 DEF Arrived
        <4>2. sess[s].mail \in Mails
          BY <2>0 DEF Arrived
        <4>3. CASE pending' = [pending EXCEPT ![sess[s].mail] = @ \ {Rcpts[sess[s].mail][k]}]
          BY <1>0, <4>2, <4>3, PendingLess
        <4>4. CASE pending' = pending
          BY <1>0, <4>4 DEF MtaOK
        <4> QED
          BY <4>1, <4>3, <4>4
      <3> QED
        BY <1>0, <3>1, <3>2 DEF MtaOK
    <2>3. DirOK' /\ GrpOK' /\ BoxOK'
      BY <1>0, <1>3 DEF Rcpt, DirOK, GrpOK, BoxOK, dirVars, grpVars, boxVars
    <2>4. mishaps' \in Nat /\ changes' \in Nat
      <3>1. UNCHANGED budget \/ Mishap
        BY <1>3 DEF Rcpt
      <3> QED
        BY <1>0, <3>1 DEF budget, Mishap
    <2> QED
      BY <2>1, <2>2, <2>3, <2>4, GoodPartsNext
  <1>4. ASSUME NEW s \in Sessions, NEW m \in Mails, SentOff(s, m, sess'[s])
        PROVE  Good'
    <2>1. SessOK'
      BY <1>4, SessionsStep DEF SentOff
    <2>2. MtaOK' /\ DirOK' /\ GrpOK' /\ BoxOK' /\ mishaps' \in Nat /\ changes' \in Nat
      BY <1>0, <1>4 DEF SentOff, MtaOK, DirOK, GrpOK, BoxOK, dirVars, grpVars, boxVars, budget
    <2> QED
      BY <2>1, <2>2, GoodPartsNext
  <1>5. ASSUME NEW m \in Mails, GiveUp(m)
        PROVE  Good'
    <2>1. SessOK' /\ DirOK' /\ GrpOK' /\ BoxOK' /\ mishaps' \in Nat /\ changes' \in Nat
      BY <1>0, <1>5 DEF GiveUp, SessOK, DirOK, GrpOK, BoxOK, dirVars, grpVars, boxVars, budget
    <2>2. MtaOK'
      BY <1>0, <1>5 DEF GiveUp, MtaOK
    <2> QED
      BY <2>1, <2>2, GoodPartsNext
  <1>6. ASSUME NEW s \in Sessions, CutOff(s, sess[s], sess'[s])
        PROVE  Good'
    <2>1. SessOK'
      BY <1>6, SessionsStep DEF CutOff
    <2>2. MtaOK' /\ DirOK' /\ GrpOK' /\ BoxOK' /\ mishaps' \in Nat /\ changes' \in Nat
      BY <1>0, <1>6 DEF CutOff, MtaOK, DirOK, GrpOK, BoxOK, mtaVars, dirVars, grpVars, boxVars
    <2> QED
      BY <2>1, <2>2, GoodPartsNext
  <1>7. ASSUME NEW s \in Sessions, TimedOut(s, sess[s], sess'[s])
        PROVE  Good'
    <2>1. SessOK'
      BY <1>7, SessionsStep DEF TimedOut
    <2>2. MtaOK' /\ DirOK' /\ GrpOK' /\ BoxOK' /\ mishaps' \in Nat /\ changes' \in Nat
      BY <1>0, <1>7 DEF TimedOut, MtaOK, DirOK, GrpOK, BoxOK, mtaVars, dirVars, grpVars, boxVars
    <2> QED
      BY <2>1, <2>2, GoodPartsNext
  <1>8. CASE ProcessEnds
    <2>1. SessOK'
      BY <1>8, IdleFacts DEF ProcessEnds, SessOK
    <2>2. MtaOK' /\ DirOK' /\ GrpOK' /\ BoxOK' /\ mishaps' \in Nat /\ changes' \in Nat
      BY <1>0, <1>8 DEF ProcessEnds, Mishap, MtaOK, DirOK, GrpOK, BoxOK, mtaVars, dirVars, grpVars, boxVars
    <2> QED
      BY <2>1, <2>2, GoodPartsNext
  <1>9. CASE Settled
    <2>1. SessOK' /\ MtaOK' /\ GrpOK' /\ BoxOK' /\ mishaps' \in Nat
      BY <1>0, <1>9 DEF Settled, SessOK, MtaOK, GrpOK, BoxOK, mtaVars, grpVars, boxVars
    <2> QED
      BY <1>9, <2>1, GoodPartsNext DEF Settled
  <1>10. CASE GroupChange
    <2>0. Change /\ UNCHANGED <<dirVars, boxVars>>
      BY <1>10 DEF GroupChange, RotateGroupKey, AddMember, RemoveMember
    <2>1. SessOK' /\ MtaOK' /\ DirOK' /\ BoxOK' /\ mishaps' \in Nat /\ changes' \in Nat
      BY <1>0, <2>0 DEF Change, SessOK, MtaOK, DirOK, BoxOK, mtaVars, dirVars, boxVars
    <2>2. ASSUME NEW g \in Groups, NEW u \in Users, AddMember(g, u)
          PROVE  GrpOK'
      BY <1>0, <2>2 DEF AddMember, GrpOK
    <2>3. ASSUME NEW g \in Groups, NEW u \in Users, RemoveMember(g, u)
          PROVE  GrpOK'
      BY <1>0, <2>3 DEF RemoveMember, GrpOK
    <2>4. ASSUME NEW g \in Groups, RotateGroupKey(g)
          PROVE  GrpOK'
      BY <1>0, <2>4 DEF RotateGroupKey, GrpOK
    <2> QED
      BY <1>10, <2>1, <2>2, <2>3, <2>4, GoodPartsNext DEF GroupChange
  <1>11. CASE NextDay
    <2>1. SessOK' /\ MtaOK' /\ DirOK' /\ GrpOK' /\ mishaps' \in Nat /\ changes' \in Nat
      BY <1>0, <1>11 DEF NextDay, Change, SessOK, MtaOK, DirOK, GrpOK, mtaVars, dirVars, grpVars
    <2>2. BoxOK'
      BY <1>0, <1>11 DEF NextDay, BoxOK
    <2> QED
      BY <2>1, <2>2, GoodPartsNext
  <1> QED
    BY <1>1, <1>2, <1>3, <1>4, <1>5, <1>6, <1>7, <1>8, <1>9, <1>10, <1>11, NextCases DEF SystemStep

LEMMA InitGood ==
    ASSUME Init
    PROVE  Good
  <1>1. ASSUME NEW m \in Mails
        PROVE  ToSet(Rcpts[m]) \in SUBSET Addresses
    <2>1. PICK z \in Seq(Addresses) : z = Rcpts[m]
      OBVIOUS
    <2>2. \A k \in DOMAIN z : z[k] \in Addresses
      BY SeqFacts
    <2> QED
      BY <2>1, <2>2 DEF ToSet
  <1>2. MtaOK
    BY <1>1 DEF Init, MtaOK
  <1>3. SessOK
    BY IdleFacts DEF Init, SessOK
  <1>4. DirOK
    BY CatchAllAssumption DEF Init, DirOK, Rules
  <1>5. GrpOK
    BY DEF Init, GrpOK
  <1>6. BoxOK
    <2>1. <<>> \in Seq(Copies)
      OBVIOUS
    <2> QED
      BY <2>1 DEF Init, BoxOK
  <1> QED
    BY <1>2, <1>3, <1>4, <1>5, <1>6, GoodParts DEF Init

-----------------------------------------------------------------------------
(* Receipts.                                                               *)

(* Which steps queue something, and which only add to the stores.          *)
LEMMA QuietStores ==
    ASSUME Good, SystemStep
    PROVE  \/ \E s \in Sessions : Advanced(s, sess[s], sess'[s])
           \/ UNCHANGED <<roleBox, inbound, dropped>>
  BY DEF SystemStep, Ended, Rcpt, SentOff, GiveUp, CutOff, TimedOut, ProcessEnds, Settled, GroupChange, RotateGroupKey,
         AddMember, RemoveMember, NextDay, boxVars

(* Every step leaves the copies there are alone and adds at most one.      *)
LEMMA CopyByCopy ==
    ASSUME Good, SystemStep, NEW p \in Mails \X Users, NEW i \in DOMAIN inbound'[p]
    PROVE  \/ i \in DOMAIN inbound[p] /\ inbound'[p][i] = inbound[p][i]
           \/ \E s \in Sessions : \E u \in Users : \E c :
                /\ CopyFor(sess[s], sess'[s], u, c) /\ Advanced(s, sess[s], sess'[s])
                /\ p = <<sess[s].mail, u>> /\ inbound'[p][i] = c
  <1>1. CASE inbound' = inbound
    BY <1>1
  <1>2. CASE inbound' # inbound
    <2>1. PICK s \in Sessions : Advanced(s, sess[s], sess'[s])
      BY <1>2, QuietStores
    <2>2. PICK r : r = sess[s]
      OBVIOUS
    <2>3. PICK q : q = sess'[s]
      OBVIOUS
    <2>4. Sound(r) /\ r.pc \notin {"idle", "rcpt"} /\ CopyStep(r, q)
      BY <2>1, <2>2, <2>3 DEF Advanced
    <2>5. PICK u \in Users : \E c : CopyFor(r, q, u, c) /\ OneMore(r.mail, u, c)
      BY <1>2, <2>4, CopiedFacts
    <2>6. PICK c : CopyFor(r, q, u, c) /\ OneMore(r.mail, u, c)
      BY <2>5
    <2>7. CASE p # <<r.mail, u>>
      BY <2>6, <2>7 DEF OneMore
    <2>8. CASE p = <<r.mail, u>>
      <3>1. PICK z \in Seq(Copies) : z = inbound[p] /\ inbound'[p] = Append(z, c) /\ c \in Copies
        BY <2>6, <2>8 DEF OneMore
      <3>2. inbound'[p][i] = c \/ (i \in DOMAIN z /\ inbound'[p][i] = z[i])
        BY <3>1, SeqAppend
      <3> QED
        BY <2>1, <2>2, <2>3, <2>6, <2>8, <3>1, <3>2
    <2> QED
      BY <2>7, <2>8
  <1> QED
    BY <1>1, <1>2

(* Only EvalRules marks a message as moved, and the mark goes with it      *)
(* until it is queued.                                                     *)
LEMMA MovedOn ==
    ASSUME Good, NEW s \in Sessions, Deliver(s), NEW r, r = sess[s], NEW q, q = sess'[s], MovedOK(r)
    PROVE  MovedOK(q)
  <1>0. r \in Session /\ Sound(r)
    BY GoodSession DEF Sound
  <1>b. ASSUME NEW X, Continue(s, X), DOMAIN X = DOMAIN r, ~X.moved
        PROVE  ~q.moved
    <2>1. q = [X EXCEPT !.pc = NextPc(X)]
      BY <1>b, SetFacts DEF Continue
    <2>2. "moved" \in DOMAIN X
      BY <1>0, <1>b DEF Session
    <2> QED
      BY <1>b, <2>1, <2>2
  <1>c. ASSUME NEW b \in BOOLEAN, Return(s, b)
        PROVE  ~q.moved
    <2>1. PICK X : X = [r EXCEPT !.targets = Tail(@), !.raw = "zeroed", !.user = NoUser, !.folder = "inbox",
                         !.moved = FALSE, !.got = IF b THEN @ \union {Head(r.targets)} ELSE @]
      OBVIOUS
    <2>2. DOMAIN X = DOMAIN r /\ ~X.moved
      BY <1>0, <2>1 DEF Session
    <2>3. Continue(s, X)
      BY <1>c, <2>1 DEF Return
    <2> QED
      BY <1>b, <2>2, <2>3
  <1>d. ASSUME NEW x, DOMAIN x = DOMAIN r, ~x.moved, NEW b, GroupReturn(s, x, b)
        PROVE  ~q.moved
    <2>1. PICK X : /\ Continue(s, X)
                   /\ X = [x EXCEPT !.groupRecipients = Tail(@), !.delivered = @ \union {Head(x.groupRecipients)},
                                    !.got = IF b THEN @ \union {Head(x.groupRecipients)} ELSE @, !.fan = {},
                                    !.counted = FALSE, !.folder = "inbox", !.epoch = 0]
      BY <1>d DEF GroupReturn
    <2>2. DOMAIN X = DOMAIN r /\ ~X.moved
      BY <1>0, <1>d, <2>1 DEF Session
    <2> QED
      BY <1>b, <2>1, <2>2
  <1>e. ASSUME NEW l, Go(s, l)
        PROVE  q.pc = l /\ q.moved = r.moved /\ q.user = r.user
    BY <1>0, <1>e, SetFacts DEF Go, Session
  <1>1. CASE InsertRole(s)
    <2>1. PICK X : Continue(s, X) /\ DOMAIN X = DOMAIN r /\ X.moved = r.moved
      <3>1. PICK ok \in BOOLEAN : Continue(s, [r EXCEPT !.roleRecipients = Tail(@),
                                     !.delivered = @ \union {Head(r.roleRecipients)},
                                     !.got = IF ok THEN @ \union {Head(r.roleRecipients)} ELSE @])
        BY <1>1 DEF InsertRole
      <3>2. PICK X : X = [r EXCEPT !.roleRecipients = Tail(@), !.delivered = @ \union {Head(r.roleRecipients)},
                                   !.got = IF ok THEN @ \union {Head(r.roleRecipients)} ELSE @]
        OBVIOUS
      <3>3. DOMAIN X = DOMAIN r /\ X.moved = r.moved
        BY <1>0, <3>2 DEF Session
      <3> QED
        BY <3>1, <3>2, <3>3
    <2>2. ~r.moved
      BY <1>1 DEF InsertRole, MovedOK
    <2> QED
      BY <1>b, <2>1, <2>2 DEF MovedOK
  <1>2. CASE Expand(s)
    <2>1. PICK X : Continue(s, X) /\ DOMAIN X = DOMAIN r /\ X.moved = r.moved
      <3>1. PICK z, T : Continue(s, [r EXCEPT !.recipients = Tail(@), !.targets = z, !.delivered = @ \union T])
        BY <1>2 DEF Expand
      <3>2. PICK X : X = [r EXCEPT !.recipients = Tail(@), !.targets = z, !.delivered = @ \union T]
        OBVIOUS
      <3>3. DOMAIN X = DOMAIN r /\ X.moved = r.moved
        BY <1>0, <3>2 DEF Session
      <3> QED
        BY <3>1, <3>2, <3>3
    <2>2. ~r.moved
      BY <1>2 DEF Expand, MovedOK
    <2> QED
      BY <1>b, <2>1, <2>2 DEF MovedOK
  <1>3. CASE Parse(s)
    <2>1. \/ Return(s, FALSE)
          \/ \E u, f : Set(s, [r EXCEPT !.pc = "block", !.user = u, !.folder = f])
      BY <1>3, Zenon DEF Parse
    <2>2. ASSUME NEW u, NEW f, Set(s, [r EXCEPT !.pc = "block", !.user = u, !.folder = f])
          PROVE  MovedOK(q)
      <3>0. q = [r EXCEPT !.pc = "block", !.user = u, !.folder = f]
        BY <2>2, SetFacts
      <3>1. q.moved = r.moved
        BY <1>0, <3>0 DEF Session
      <3> QED
        BY <1>3, <3>1 DEF Parse, MovedOK
    <2> QED
      BY <1>c, <2>1, <2>2 DEF MovedOK
  <1>4. CASE CheckBlock(s)
    <2>1. PICK f : Set(s, [r EXCEPT !.pc = "rules", !.folder = f])
      BY <1>4 DEF CheckBlock
    <2>a. q = [r EXCEPT !.pc = "rules", !.folder = f]
      BY <2>1, SetFacts
    <2>2. q.moved = r.moved
      BY <1>0, <2>a DEF Session
    <2> QED
      BY <1>4, <2>2 DEF CheckBlock, MovedOK
  <1>5. CASE EvalRules(s)
    <2>1. PICK act : /\ act = "move" => act = rule[r.user]
                     /\ \/ Return(s, TRUE)
                        \/ Set(s, [r EXCEPT !.pc = "reserve", !.moved = (act = "move")])
      BY <1>5 DEF EvalRules
    <2>2. CASE Set(s, [r EXCEPT !.pc = "reserve", !.moved = (act = "move")])
      <3>a. PICK b \in BOOLEAN : b = (act = "move")
        OBVIOUS
      <3>b. q = [r EXCEPT !.pc = "reserve", !.moved = b]
        BY <2>2, <3>a, SetFacts
      <3>1. q.pc = "reserve" /\ q.moved = b /\ q.user = r.user
        BY <1>0, <3>b DEF Session
      <3> QED
        BY <2>1, <3>1, <3>a DEF MovedOK
    <2> QED
      BY <1>c, <2>1, <2>2 DEF MovedOK
  <1>6. CASE Reserve(s)
    <2>1. Go(s, "queue") \/ Go(s, "reply")
      BY <1>6 DEF Reserve
    <2> QED
      BY <1>e, <2>1 DEF MovedOK
  <1>7. CASE SendReply(s)
    BY <1>e, <1>7 DEF SendReply, MovedOK
  <1>8. CASE Publish(s)
    BY <1>c, <1>8 DEF Publish, MovedOK
  <1>9. CASE GroupOpen(s)
    <2>0. ~r.moved
      BY <1>9 DEF GroupOpen, MovedOK
    <2>1. \/ \E e, f : Set(s, [r EXCEPT !.pc = "members", !.epoch = e, !.folder = f, !.raw = "zeroed"])
          \/ GroupReturn(s, r, FALSE)
          \/ GroupReturn(s, [r EXCEPT !.raw = "zeroed"], FALSE)
      BY <1>9 DEF GroupOpen
    <2>2. ASSUME NEW e, NEW f, Set(s, [r EXCEPT !.pc = "members", !.epoch = e, !.folder = f, !.raw = "zeroed"])
          PROVE  MovedOK(q)
      <3>0. q = Opened(r, e, f)
        BY <2>2, SetFacts DEF Opened
      <3>1. q.moved = r.moved
        BY <1>0, <3>0 DEF Session, Opened
      <3> QED
        BY <2>0, <3>1 DEF MovedOK
    <2>3. CASE GroupReturn(s, r, FALSE)
      BY <1>d, <2>0, <2>3 DEF MovedOK
    <2>4. CASE GroupReturn(s, [r EXCEPT !.raw = "zeroed"], FALSE)
      <3>1. PICK x : x = [r EXCEPT !.raw = "zeroed"]
        OBVIOUS
      <3>2. DOMAIN x = DOMAIN r /\ x.moved = r.moved
        BY <1>0, <3>1 DEF Session
      <3> QED
        BY <1>d, <2>0, <2>4, <3>1, <3>2 DEF MovedOK
    <2> QED
      BY <2>1, <2>2, <2>3, <2>4
  <1>10. CASE GroupMembers(s)
    <2>0. ~r.moved
      BY <1>10 DEF GroupMembers, MovedOK
    <2>1. \/ \E F, c : Set(s, [r EXCEPT !.pc = "fan", !.fan = F, !.counted = c])
          \/ \E b \in BOOLEAN : GroupReturn(s, r, b)
      BY <1>10 DEF GroupMembers
    <2>2. ASSUME NEW F, NEW c, Set(s, [r EXCEPT !.pc = "fan", !.fan = F, !.counted = c])
          PROVE  MovedOK(q)
      <3>0. q = Fanned(r, F, c)
        BY <2>2, SetFacts DEF Fanned
      <3>1. q.moved = r.moved
        BY <1>0, <3>0 DEF Session, Fanned
      <3> QED
        BY <2>0, <3>1 DEF MovedOK
    <2> QED
      BY <1>d, <2>0, <2>1, <2>2 DEF MovedOK
  <1>11. CASE GroupFan(s)
    <2>0. ~r.moved
      BY <1>11 DEF GroupFan, MovedOK
    <2>1. PICK x : /\ \E F, c : x = [r EXCEPT !.fan = F, !.counted = c]
                   /\ GroupReturn(s, x, x.counted) \/ Set(s, x)
      BY <1>11 DEF GroupFan
    <2>2. DOMAIN x = DOMAIN r /\ x.moved = r.moved
      BY <1>0, <2>1 DEF Session
    <2>3. CASE Set(s, x)
      BY <2>0, <2>2, <2>3, SetFacts DEF MovedOK
    <2>4. CASE GroupReturn(s, x, x.counted)
      BY <1>d, <2>0, <2>2, <2>4 DEF MovedOK
    <2> QED
      BY <2>1, <2>3, <2>4
  <1>12. CASE Answer(s)
    <2>1. q = Idle /\ ~Idle.moved
      BY <1>12, SetFacts DEF Answer, Idle
    <2> QED
      BY <2>1 DEF MovedOK
  <1> QED
    BY <1>1, <1>2, <1>3, <1>4, <1>5, <1>6, <1>7, <1>8, <1>9, <1>10, <1>11, <1>12 DEF Deliver

LEMMA ReceiptStep ==
    ASSUME Good, SystemStep, RuleKept, MovedInv, ReceiptTruthful
    PROVE  ReceiptTruthful'
  <1>1. ASSUME NEW p \in Mails \X Users, NEW i \in DOMAIN inbound'[p]
        PROVE  LET c == inbound'[p][i]
               IN  /\ c.receipt = c.folder
                   /\ p[1] \in Reject => c.receipt = "junk"
                   /\ c.moved => c.group = NoUser /\ rule'[p[2]] = "move"
    <2>0. PICK v \in Users : v = p[2]
      OBVIOUS
    <2>1. CASE i \in DOMAIN inbound[p] /\ inbound'[p][i] = inbound[p][i]
      <3>1. LET c == inbound[p][i]
            IN  /\ c.receipt = c.folder
                /\ p[1] \in Reject => c.receipt = "junk"
                /\ c.moved => c.group = NoUser /\ rule[v] = "move"
        BY <2>0, <2>1 DEF ReceiptTruthful
      <3> QED
        BY <2>0, <2>1, <3>1 DEF RuleKept
    <2>2. ASSUME NEW s \in Sessions, NEW u \in Users, NEW c, CopyFor(sess[s], sess'[s], u, c),
                 p = <<sess[s].mail, u>>, inbound'[p][i] = c
          PROVE  LET y == inbound'[p][i]
                 IN  /\ y.receipt = y.folder
                     /\ p[1] \in Reject => y.receipt = "junk"
                     /\ y.moved => y.group = NoUser /\ rule'[p[2]] = "move"
      <3>1. Truthful(c, sess[s].mail) /\ p[1] = sess[s].mail /\ v = u
        BY <2>0, <2>2 DEF CopyFor
      <3>2. c.moved => c.group = NoUser /\ rule[u] = "move"
        BY <2>2 DEF CopyFor, MovedInv, MovedOK
      <3> QED
        BY <2>0, <2>2, <3>1, <3>2 DEF Truthful, RuleKept
    <2> QED
      BY <2>1, <2>2, CopyByCopy
  <1> QED
    BY <1>1 DEF ReceiptTruthful

(* The marks stay right whatever else happens to a session.                *)
LEMMA MovedNext ==
    ASSUME Good, MovedInv, [Next]_vars
    PROVE  RuleKept /\ MovedInv'
  <1>0. sess \in [Sessions -> Session] /\ ~Idle.moved
    BY GoodSession DEF Idle
  <1>1. ASSUME NEW s \in Sessions, Deliver(s)
        PROVE  RuleKept /\ MovedInv'
    <2>1. MovedOK(sess'[s])
      BY <1>1, MovedOn DEF MovedInv
    <2>a. rule' = rule
      BY <1>1 DEF Deliver, InsertRole, Expand, Parse, CheckBlock, EvalRules, Reserve, SendReply, Publish, GroupOpen,
             GroupMembers, GroupFan, Answer, dirVars
    <2>2. OneSession(s)
      BY <1>1 DEF OneSession, Deliver, InsertRole, Expand, Parse, CheckBlock, EvalRules, Reserve, SendReply, Publish,
           GroupOpen, GroupMembers, GroupFan, Answer, Continue, Return, GroupReturn, Go
    <2> QED
      BY <2>1, <2>a, <2>2, Others DEF MovedInv, MovedOK, RuleKept
  <1>2. ASSUME NEW s \in Sessions, Rcpt(s)
        PROVE  RuleKept /\ MovedInv'
    <2>1. Arrived(s, sess[s], sess'[s])
      BY <1>2, RcptFacts
    <2>a. ~sess[s].moved
      BY <1>2 DEF Rcpt, MovedInv, MovedOK
    <2>2. ~sess'[s].moved /\ \A t \in Sessions \ {s} : sess'[t] = sess[t]
      BY <2>1, <2>a, Others DEF Arrived
    <2>3. rule' = rule
      BY <1>2 DEF Rcpt, dirVars
    <2> QED
      BY <2>2, <2>3 DEF MovedInv, MovedOK, RuleKept
  <1>3. ASSUME NEW s \in Sessions, NEW m \in Mails, Send(s, m)
        PROVE  RuleKept /\ MovedInv'
    <2>1. SentOff(s, m, sess'[s])
      BY <1>3, SendFacts
    <2>2. ~sess'[s].moved
      BY <2>1 DEF SentOff
    <2>3. rule' = rule /\ \A t \in Sessions \ {s} : sess'[t] = sess[t]
      BY <2>1, Others DEF SentOff, dirVars
    <2> QED
      BY <2>2, <2>3 DEF MovedInv, MovedOK, RuleKept
  <1>4. ASSUME NEW s \in Sessions, Disconnect(s) \/ Expire(s)
        PROVE  RuleKept /\ MovedInv'
    <2>0. PICK r \in Session : r = sess[s]
      BY <1>0
    <2>1. PICK X : /\ Set(s, X)
                   /\ X = Idle \/ X = Orphaned(r) \/ X = Expired(r)
      BY <1>4, <2>0 DEF Disconnect, Expire, Orphaned, Expired
    <2>2. X.moved => X.moved = r.moved /\ X.pc = r.pc /\ X.user = r.user
      <3>1. CASE X = Orphaned(r)
        BY <3>1 DEF Session, Orphaned
      <3>2. CASE X = Expired(r)
        BY <3>2 DEF Session, Expired
      <3> QED
        BY <1>0, <2>1, <3>1, <3>2
    <2>3. /\ rule' = rule /\ sess'[s] = X /\ \A t \in Sessions \ {s} : sess'[t] = sess[t]
      BY <1>4, <2>1, SetFacts DEF Disconnect, Expire, dirVars
    <2> QED
      BY <2>0, <2>2, <2>3 DEF MovedInv, MovedOK, RuleKept
  <1>5. CASE ProcessEnds
    BY <1>0, <1>5 DEF ProcessEnds, MovedInv, MovedOK, RuleKept, dirVars
  <1>6. CASE Settled
    <2>1. ASSUME NEW s \in Sessions, sess[s].moved
          PROVE  sess[s].user \in Users /\ rule[sess[s].user] = "move"
      BY <2>1, GoodSession, Delivering DEF MovedInv, MovedOK, Serving, Sound, Session
    <2> QED
      BY <1>6, <2>1 DEF Settled, MovedInv, MovedOK, RuleKept
  <1>7. CASE UNCHANGED <<sess, rule>>
    BY <1>7 DEF MovedInv, MovedOK, RuleKept
  <1>8. CASE GroupChange \/ NextDay \/ \E m \in Mails : GiveUp(m)
    <2>1. UNCHANGED <<sess, rule>>
      BY <1>8 DEF GroupChange, NextDay, GiveUp, RotateGroupKey, AddMember, RemoveMember, Change, dirVars
    <2> QED
      BY <1>7, <2>1
  <1>9. CASE Environment
    BY <1>4, <1>5, <1>6, <1>8, <1>9, SettledFacts DEF Environment, GroupChange
  <1>10. CASE UNCHANGED vars
    BY <1>7, <1>10 DEF vars, dirVars
  <1> QED
    BY <1>1, <1>2, <1>3, <1>8, <1>9, <1>10 DEF Next

(* TypeOK and ReceiptTruthful.  What session.Data and ProcessMessage keep  *)
(* about a message has its types; every queued copy is assigned the folder *)
(* its signed receipt says, junk when DMARC says reject, whatever calls    *)
(* fail and whatever settings change while the message is processed; and   *)
(* it is stored in another folder only where a rule of its recipient       *)
(* moves it, of which the receipt knows nothing.                           *)
THEOREM ReceiptsAreTruthful == Spec => []InboundInv
  <1>1. Init => Good /\ MovedInv /\ ReceiptTruthful
    BY InitGood DEF Init, ReceiptTruthful, MovedInv, MovedOK, Idle
  <1>2. Good /\ MovedInv /\ ReceiptTruthful /\ [Next]_vars => (Good /\ MovedInv /\ ReceiptTruthful)'
    BY GoodNext, NextCases, MovedNext, ReceiptStep
  <1>3. Good /\ MovedInv /\ ReceiptTruthful => InboundInv
    BY DEF Good, InboundInv
  <1> QED
    BY <1>1, <1>2, <1>3, PTL DEF Spec

-----------------------------------------------------------------------------
(* What the steps that are no part of a delivery leave of a session.       *)
Fresh(q) == q.pc \in Nexts \union {"idle", "rcpt"} /\ q.got = {} /\ q.fan = {} /\ ~q.counted

LEMMA SessionSteps ==
    ASSUME Good, SystemStep, NEW s \in Sessions
    PROVE  \/ sess'[s] = sess[s] \/ Same(sess[s], sess'[s]) \/ Fresh(sess'[s])
           \/ Advanced(s, sess[s], sess'[s])
  <1> DEFINE G == sess'[s] = sess[s] \/ Same(sess[s], sess'[s]) \/ Fresh(sess'[s]) \/ Advanced(s, sess[s], sess'[s])
  <1>0. Fresh(Idle)
    BY IdleFacts DEF Fresh
  <1>1. ASSUME NEW t \in Sessions, OneSession(t), t # s
        PROVE  sess'[s] = sess[s]
    BY <1>1, Others
  <1>2. ASSUME NEW t \in Sessions, Advanced(t, sess[t], sess'[t])
        PROVE  G
    BY <1>1, <1>2 DEF Advanced
  <1>3. ASSUME NEW t \in Sessions, Ended(t, sess[t])
        PROVE  G
    BY <1>0, <1>1, <1>3 DEF Ended
  <1>4. ASSUME NEW t \in Sessions, Rcpt(t)
        PROVE  G
    <2>1. Arrived(t, sess[t], sess'[t])
      BY <1>4, RcptFacts
    <2>2. OneSession(t) /\ Fresh(sess'[t])
      BY <2>1 DEF Arrived, Fresh
    <2> QED
      BY <1>1, <2>2
  <1>5. ASSUME NEW t \in Sessions, NEW m \in Mails, SentOff(t, m, sess'[t])
        PROVE  G
    <2>1. OneSession(t) /\ Fresh(sess'[t])
      BY <1>5 DEF SentOff, Fresh
    <2> QED
      BY <1>1, <2>1
  <1>6. ASSUME NEW t \in Sessions, CutOff(t, sess[t], sess'[t])
        PROVE  G
    BY <1>0, <1>1, <1>6 DEF CutOff
  <1>7. ASSUME NEW t \in Sessions, TimedOut(t, sess[t], sess'[t])
        PROVE  G
    BY <1>1, <1>7 DEF TimedOut
  <1>8. CASE ProcessEnds
    BY <1>0, <1>8 DEF ProcessEnds
  <1>9. CASE UNCHANGED sess
    BY <1>9
  <1>10. (\E m \in Mails : GiveUp(m)) \/ Settled \/ GroupChange \/ NextDay => UNCHANGED sess
    BY DEF GiveUp, Settled, GroupChange, NextDay, AddMember, RemoveMember, RotateGroupKey, Change
  <1> QED
    BY <1>2, <1>3, <1>4, <1>5, <1>6, <1>7, <1>8, <1>9, <1>10 DEF SystemStep

-----------------------------------------------------------------------------
(* Traces.                                                                 *)

Recorded(m) == \/ \E u \in Users : inbound'[<<m, u>>] # <<>> \/ <<m, u>> \in dropped'
               \/ \E a \in Roles : <<m, a>> \in roleBox'

LEMMA TraceKept ==
    ASSUME Good, SystemStep, NEW m \in Mails, Copied(m)
    PROVE  Recorded(m)
  <1>1. CASE UNCHANGED <<roleBox, inbound, dropped>>
    BY <1>1 DEF Copied, Recorded
  <1>2. ASSUME NEW s \in Sessions, Advanced(s, sess[s], sess'[s])
        PROVE  Recorded(m)
    <2>0. PICK r : r = sess[s]
      OBVIOUS
    <2>a. PICK q : q = sess'[s]
      OBVIOUS
    <2>1. roleBox \subseteq roleBox' /\ dropped \subseteq dropped'
      BY <1>2 DEF Advanced, TraceStep
    <2>2. Sound(r) /\ r.pc \notin {"idle", "rcpt"} /\ CopyStep(r, q)
      BY <1>2, <2>0, <2>a DEF Advanced
    <2>3. ASSUME NEW u \in Users, inbound[<<m, u>>] # <<>>
          PROVE  inbound'[<<m, u>>] # <<>>
      <3>1. CASE inbound' = inbound
        BY <2>3, <3>1
      <3>2. CASE inbound' # inbound
        <4>1. PICK v \in Users : \E c : CopyFor(r, q, v, c) /\ OneMore(r.mail, v, c)
          BY <2>2, <3>2, CopiedFacts
        <4>2. PICK c : OneMore(r.mail, v, c)
          BY <4>1
        <4>3. CASE <<m, u>> # <<r.mail, v>>
          BY <2>3, <4>2, <4>3 DEF OneMore
        <4>4. CASE <<m, u>> = <<r.mail, v>>
          <5>1. PICK z \in Seq(Copies) : inbound'[<<m, u>>] = Append(z, c) /\ c \in Copies
            BY <4>2, <4>4 DEF OneMore
          <5>a. c \in Copies
            BY <5>1
          <5>2. Append(z, c) # <<>>
            BY <5>a, SeqAppend
          <5> QED
            BY <5>1, <5>2
        <4> QED
          BY <4>3, <4>4
      <3> QED
        BY <3>1, <3>2
    <2> QED
      BY <2>1, <2>3 DEF Copied, Recorded
  <1> QED
    BY <1>1, <1>2, QuietStores

LEMMA AcceptedSteps ==
    ASSUME Good, SystemStep
    PROVE  \/ UNCHANGED accepted
           \/ \E s \in Sessions :
                /\ sess[s].got # {} /\ sess[s].mail \in Mails
                /\ accepted' = accepted \union {[mail |-> sess[s].mail, owed |-> sess[s].delivered, got |-> sess[s].got]}
  <1>1. ASSUME NEW s \in Sessions, Ended(s, sess[s])
        PROVE  \/ UNCHANGED accepted
               \/ /\ sess[s].got # {} /\ sess[s].mail \in Mails
                  /\ accepted' = accepted \union {[mail |-> sess[s].mail, owed |-> sess[s].delivered, got |-> sess[s].got]}
    BY <1>1 DEF Ended
  <1>2. \/ \E s \in Sessions : Ended(s, sess[s])
        \/ UNCHANGED accepted
    BY DEF SystemStep, Advanced, Rcpt, SentOff, GiveUp, CutOff, TimedOut, ProcessEnds, Settled, GroupChange,
           RotateGroupKey, AddMember, RemoveMember, NextDay, Change, mtaVars
  <1> QED
    BY <1>1, <1>2

LEMMA TraceNext ==
    ASSUME Good, SystemStep, TraceInv
    PROVE  TraceInv'
  <1>1. ASSUME NEW s \in Sessions, sess'[s].got \ Groups # {}
        PROVE  Recorded(sess'[s].mail)
    <2>0. ASSUME sess'[s].got \ Groups = sess[s].got \ Groups, sess'[s].mail = sess[s].mail
          PROVE  Recorded(sess'[s].mail)
      <3>1. Copied(sess[s].mail)
        BY <1>1, <2>0 DEF TraceInv
      <3>2. sess[s].mail \in Mails
        <4>1. Sound(sess[s]) /\ sess[s].got # {}
          BY <1>1, <2>0, GoodSession
        <4> QED
          BY <4>1, Delivering DEF Sound, SessionOK
      <3>3. PICK m \in Mails : m = sess[s].mail
        BY <3>2
      <3>4. Recorded(m)
        BY <3>1, <3>3, TraceKept
      <3> QED
        BY <2>0, <3>3, <3>4
    <2>1. CASE Same(sess[s], sess'[s]) \/ sess'[s] = sess[s]
      BY <2>0, <2>1 DEF Same
    <2>2. CASE Advanced(s, sess[s], sess'[s])
      <3>1. sess'[s].mail = sess[s].mail /\ TraceStep(sess[s], sess'[s])
        BY <2>2 DEF Advanced, Kept
      <3>2. CASE sess'[s].got \ Groups = sess[s].got \ Groups
        BY <2>0, <3>1, <3>2
      <3>3. CASE \/ \E u \in Users : inbound'[<<sess[s].mail, u>>] # <<>> \/ <<sess[s].mail, u>> \in dropped'
                 \/ \E a \in Roles : <<sess[s].mail, a>> \in roleBox'
        BY <3>1, <3>3 DEF Copied, Recorded
      <3> QED
        BY <3>1, <3>2, <3>3 DEF TraceStep
    <2>3. ~Fresh(sess'[s])
      BY <1>1 DEF Fresh
    <2> QED
      BY <2>1, <2>2, <2>3, SessionSteps
  <1>2. ASSUME NEW a \in accepted'
        PROVE  a.mail \in Mails /\ (a.owed \intersect Groups = {} => Recorded(a.mail))
    <2>1. CASE a \in accepted
      <3>1. a.mail \in Mails /\ (a.owed \intersect Groups = {} => Copied(a.mail))
        BY <2>1 DEF TraceInv, AcceptedLeavesTrace
      <3> QED
        BY <3>1, TraceKept
    <2>2. ASSUME NEW s \in Sessions, sess[s].got # {}, sess[s].mail \in Mails,
                 a = [mail |-> sess[s].mail, owed |-> sess[s].delivered, got |-> sess[s].got]
          PROVE  a.mail \in Mails /\ (a.owed \intersect Groups = {} => Recorded(a.mail))
      <3>1. a.mail = sess[s].mail /\ a.owed = sess[s].delivered
        BY <2>2
      <3>2. sess[s].got \subseteq sess[s].delivered
        BY GoodSession DEF Sound
      <3>3. a.owed \intersect Groups = {} => Copied(a.mail)
        BY <2>2, <3>1, <3>2 DEF TraceInv
      <3> QED
        BY <2>2, <3>1, <3>3, TraceKept
    <2> QED
      BY <2>1, <2>2, AcceptedSteps
  <1>3. AcceptedLeavesTrace' /\ \A a \in accepted' : a.mail \in Mails
    BY <1>2 DEF AcceptedLeavesTrace, Copied, Recorded
  <1>4. \A s \in Sessions : sess'[s].got \ Groups # {} => Recorded(sess'[s].mail)
    BY <1>1
  <1> QED
    BY <1>3, <1>4 DEF TraceInv, Copied, Recorded

(* AcceptedLeavesTrace.  session.Data answers 250 for mailboxes and roles   *)
(* only when a copy was queued, a role message stored or a rule deleted the *)
(* message, for every order of failures and every number of sessions.       *)
THEOREM AcceptedMailLeavesATrace == Spec => []AcceptedLeavesTrace
  <1>1. Init => Good /\ TraceInv
    BY InitGood, IdleFacts DEF Init, TraceInv, AcceptedLeavesTrace
  <1>2. Good /\ TraceInv /\ [Next]_vars => (Good /\ TraceInv)'
    BY GoodNext, NextCases, TraceNext
  <1>3. Good /\ TraceInv => AcceptedLeavesTrace
    BY DEF TraceInv
  <1> QED
    BY <1>1, <1>2, <1>3, PTL DEF Spec

-----------------------------------------------------------------------------
(* Auto-replies.                                                           *)

(* Only a delivery touches the dedup table and the replies, and a new day. *)
LEMMA ReplyTables ==
    ASSUME Good, SystemStep
    PROVE  \/ \E s \in Sessions : Advanced(s, sess[s], sess'[s])
           \/ UNCHANGED <<dedup, replies>>
           \/ NextDay
  BY DEF SystemStep, Ended, Rcpt, SentOff, GiveUp, CutOff, TimedOut, ProcessEnds, Settled, GroupChange, RotateGroupKey,
         AddMember, RemoveMember, boxVars

(* The invariant over a table D of recorded replies, R of sent ones and S  *)
(* of sessions.                                                            *)
ReplyTable(S, D, R) ==
    /\ \A p \in Users \X Senders : p \notin D => R[p] = 0
    /\ \A p \in Users \X Senders : R[p] <= 1
    /\ \A s \in Sessions : Replying(S[s]) => ReplyOf(S[s]) \in D /\ R[ReplyOf(S[s])] = 0
    /\ \A s, t \in Sessions : Replying(S[s]) /\ Replying(S[t]) /\ ReplyOf(S[s]) = ReplyOf(S[t]) => s = t

LEMMA ReplyInvIs ==
    ASSUME Good
    PROVE  ReplyInv <=> ReplyTable(sess, dedup, replies)
  BY DEF ReplyInv, ReplyTable, OneReplyPerDay, Good, TypeOK

LEMMA ReplyInvNextIs ==
    ASSUME Good', ReplyTable(sess', dedup', replies')
    PROVE  ReplyInv'
  BY DEF ReplyInv, ReplyTable, OneReplyPerDay, Good, TypeOK, Replying, ReplyOf

(* Sessions that do not start to reply keep it.                            *)
LEMMA NoNewReply ==
    ASSUME NEW S, NEW T, NEW D, NEW E, NEW R, ReplyTable(S, D, R), D \subseteq E, E \subseteq Users \X Senders,
           \A s \in Sessions : Replying(T[s]) => Replying(S[s]) /\ ReplyOf(T[s]) = ReplyOf(S[s])
    PROVE  ReplyTable(T, E, R)
  BY DEF ReplyTable

LEMMA ReplyHeld ==
    ASSUME NEW S, NEW T, NEW D, NEW R, NEW s \in Sessions, NEW p \in Users \X Senders, p \notin D,
           ReplyTable(S, D, R), Replying(T[s]), ReplyOf(T[s]) = p, \A t \in Sessions : t # s => T[t] = S[t]
    PROVE  ReplyTable(T, D \union {p}, R)
  <1>1. R[p] = 0 /\ \A t \in Sessions : Replying(S[t]) => ReplyOf(S[t]) # p
    BY DEF ReplyTable
  <1>2. \A t \in Sessions : Replying(T[t]) => ReplyOf(T[t]) \in D \union {p} /\ R[ReplyOf(T[t])] = 0
    BY <1>1 DEF ReplyTable
  <1>3. ASSUME NEW t \in Sessions, NEW x \in Sessions, Replying(T[t]), Replying(T[x]), ReplyOf(T[t]) = ReplyOf(T[x])
        PROVE  t = x
    BY <1>1, <1>3 DEF ReplyTable
  <1>4. /\ \A x \in Users \X Senders : x \notin D \union {p} => R[x] = 0
        /\ \A x \in Users \X Senders : R[x] <= 1
    BY DEF ReplyTable
  <1> QED
    BY <1>2, <1>3, <1>4 DEF ReplyTable

LEMMA ReplyCounted ==
    ASSUME NEW S, NEW D, NEW R, NEW Q, NEW p \in D, ReplyTable(S, D, R), Q[p] = 1,
           \A x \in Users \X Senders : x # p => Q[x] = R[x],
           \A t \in Sessions : Replying(S[t]) => ReplyOf(S[t]) # p /\ ReplyOf(S[t]) \in Users \X Senders
    PROVE  ReplyTable(S, D, Q)
  <1>1. /\ \A x \in Users \X Senders : x \notin D => Q[x] = 0
        /\ \A x \in Users \X Senders : Q[x] <= 1
    BY SMTT(30) DEF ReplyTable
  <1>2. \A t \in Sessions : Replying(S[t]) => ReplyOf(S[t]) \in D /\ Q[ReplyOf(S[t])] = 0
    BY DEF ReplyTable
  <1> QED
    BY <1>1, <1>2 DEF ReplyTable

LEMMA ReplyNext ==
    ASSUME Good, Good', SystemStep, ReplyInv
    PROVE  ReplyInv'
  <1>0. ReplyTable(sess, dedup, replies) /\ dedup' \subseteq Users \X Senders
    BY ReplyInvIs DEF Good, TypeOK
  <1>1. ASSUME NEW s \in Sessions
        PROVE  ~Advanced(s, sess[s], sess'[s]) /\ Replying(sess'[s]) =>
                 Replying(sess[s]) /\ ReplyOf(sess'[s]) = ReplyOf(sess[s])
    BY SessionSteps DEF Same, Fresh, Replying, ReplyOf, Nexts
  <1>2. ASSUME NEW s \in Sessions, Advanced(s, sess[s], sess'[s])
        PROVE  ReplyTable(sess', dedup', replies')
    <2>0. PICK r : r = sess[s]
      OBVIOUS
    <2>a. PICK q : q = sess'[s]
      OBVIOUS
    <2>b. PICK p : p = <<r.user, From[r.mail]>>
      OBVIOUS
    <2>1. \A t \in Sessions : t # s => sess'[t] = sess[t]
      BY <1>2, Others DEF Advanced
    <2>2. ReplyStep(s, q) /\ q.mail = r.mail
      BY <1>2, <2>0, <2>a DEF Advanced, Kept
    <2>3. CASE q.pc # "reply" /\ UNCHANGED <<dedup, replies>>
      <3>1. \A t \in Sessions : Replying(sess'[t]) => Replying(sess[t]) /\ ReplyOf(sess'[t]) = ReplyOf(sess[t])
        BY <2>a, <2>1, <2>3 DEF Replying
      <3>2. ReplyTable(sess', dedup, replies)
        BY <1>0, <2>3, <3>1, NoNewReply
      <3> QED
        BY <2>3, <3>2
    <2>4. CASE Reserve(s)
      <3>0. Reserved(r, q, p) /\ replies' = replies
        BY <2>0, <2>a, <2>b, <2>4, ReserveFacts DEF Reserve
      <3>1. CASE q.pc = "queue" /\ dedup \subseteq dedup' /\ dedup' \subseteq dedup \union {p}
        <4>1. \A t \in Sessions : Replying(sess'[t]) => Replying(sess[t]) /\ ReplyOf(sess'[t]) = ReplyOf(sess[t])
          BY <2>a, <2>1, <3>1 DEF Replying
        <4>2. ReplyTable(sess', dedup', replies)
          BY <1>0, <3>1, <4>1, NoNewReply
        <4> QED
          BY <3>0, <4>2
      <3>2. CASE q.pc = "reply" /\ p \notin dedup /\ dedup' = dedup \union {p}
        <4>1. Replying(q) /\ ReplyOf(q) = p /\ ~Replying(r) /\ p \in Users \X Senders
          BY <2>b, <2>2, <3>0, <3>2 DEF Replying, ReplyOf, Reserved
        <4>3. ReplyTable(sess', dedup \union {p}, replies)
          BY <1>0, <2>a, <2>1, <3>2, <4>1, ReplyHeld, SMTT(30)
        <4> QED
          BY <3>0, <3>2, <4>3
      <3> QED
        BY <3>0, <3>1, <3>2 DEF Reserved
    <2>5. CASE SendReply(s)
      <3>0. ReplySent(r, q, p) /\ dedup' = dedup
        BY <2>0, <2>a, <2>b, <2>5, SendReplyFacts DEF SendReply
      <3>1. Replying(r) /\ ReplyOf(r) = p /\ ~Replying(q) /\ p \in Users \X Senders
        BY <2>b, <3>0 DEF Replying, ReplyOf, ReplySent
      <3>2. p \in dedup /\ replies[p] = 0
        BY <1>0, <2>0, <3>1 DEF ReplyTable
      <3>3. \A t \in Sessions : Replying(sess'[t]) => Replying(sess[t]) /\ ReplyOf(sess'[t]) = ReplyOf(sess[t])
        BY <2>a, <2>1, <3>1
      <3>4. \A t \in Sessions : Replying(sess'[t]) => ReplyOf(sess'[t]) # p
        BY <1>0, <2>0, <2>a, <2>1, <3>1 DEF ReplyTable
      <3>5. CASE replies' = replies
        BY <1>0, <3>0, <3>3, <3>5, NoNewReply
      <3>6. CASE replies' = [replies EXCEPT ![p] = @ + 1]
        <4>1. /\ replies'[p] = 1
              /\ \A x \in Users \X Senders : x # p => replies'[x] = replies[x]
          BY <3>1, <3>2, <3>6 DEF Good, TypeOK
        <4>2. ReplyTable(sess', dedup, replies)
          BY <1>0, <3>0, <3>3, NoNewReply
        <4>3. \A t \in Sessions : Replying(sess'[t]) => ReplyOf(sess'[t]) \in Users \X Senders
          BY <1>0, <4>2 DEF ReplyTable, Good, TypeOK
        <4> QED
          BY <3>0, <3>2, <3>4, <4>1, <4>2, <4>3, ReplyCounted
      <3> QED
        BY <3>0, <3>5, <3>6 DEF ReplySent
    <2> QED
      BY <2>2, <2>3, <2>4, <2>5 DEF ReplyStep
  <1>3. ASSUME \A s \in Sessions : ~Advanced(s, sess[s], sess'[s]), UNCHANGED <<dedup, replies>>
        PROVE  ReplyTable(sess', dedup', replies')
    <2>1. \A t \in Sessions : Replying(sess'[t]) => Replying(sess[t]) /\ ReplyOf(sess'[t]) = ReplyOf(sess[t])
      BY <1>1, <1>3
    <2>2. ReplyTable(sess', dedup, replies)
      BY <1>0, <1>3, <2>1, NoNewReply
    <2> QED
      BY <1>3, <2>2
  <1>4. CASE NextDay
    <2>1. \A s \in Sessions : ~Replying(sess'[s])
      BY <1>4 DEF NextDay, Change, Replying
    <2>2. \A p \in Users \X Senders : replies'[p] = 0
      BY <1>4 DEF NextDay, Good, TypeOK
    <2> QED
      BY <2>1, <2>2, ReplyInvNextIs DEF ReplyTable
  <1> QED
    BY <1>2, <1>3, <1>4, ReplyTables, ReplyInvNextIs

(* OneReplyPerDay.  Whatever sessions, attempts and failures interleave, a  *)
(* correspondent gets at most one auto-reply per window: the upsert of      *)
(* TryRecordAutoReply is held by one session before the reply goes out.     *)
THEOREM OneReplyPerCorrespondent == Spec => []OneReplyPerDay
  <1>1. Init => Good /\ ReplyInv
    BY InitGood, IdleFacts DEF Init, ReplyInv, OneReplyPerDay, Replying
  <1>2. Good /\ ReplyInv /\ [Next]_vars => (Good /\ ReplyInv)'
    BY GoodNext, NextCases, ReplyNext
  <1>3. Good /\ ReplyInv => OneReplyPerDay
    BY DEF ReplyInv
  <1> QED
    BY <1>1, <1>2, <1>3, PTL DEF Spec

-----------------------------------------------------------------------------
(* Group epochs.                                                           *)

LEMMA GroupTables ==
    ASSUME Good, SystemStep
    PROVE  GroupChange \/ UNCHANGED grpVars
  BY DEF SystemStep, Advanced, Ended, Rcpt, SentOff, GiveUp, CutOff, TimedOut, ProcessEnds, Settled, NextDay

LEMMA EntitledNext ==
    ASSUME Good, SystemStep, Entitled
    PROVE  /\ Entitled' /\ entitled \subseteq entitled'
           /\ \A g \in Groups : epoch[g] \in Nat /\ epoch'[g] \in Nat /\ epoch[g] <= epoch'[g]
  <1>0. GrpOK
    BY GoodParts
  <1>1. CASE UNCHANGED grpVars
    BY <1>0, <1>1 DEF grpVars, Entitled, GrpOK
  <1>2. ASSUME NEW g \in Groups, NEW u \in Users, AddMember(g, u)
        PROVE  /\ Entitled' /\ entitled \subseteq entitled' /\ epoch' = epoch
    <2>1. epoch' = epoch /\ members' = [members EXCEPT ![g][u] = epoch[g]] /\ entitled' = entitled \union {<<g, u, epoch[g]>>}
      BY <1>2 DEF AddMember
    <2>2. ASSUME NEW h \in Groups, NEW v \in Users, members'[h][v] >= 0
          PROVE  /\ members'[h][v] <= epoch'[h]
                 /\ \A e \in Nat : members'[h][v] <= e /\ e <= epoch'[h] => <<h, v, e>> \in entitled'
      <3>1. CASE h = g /\ v = u
        <4>1. members'[h][v] = epoch[g] /\ epoch[g] \in Nat
          BY <1>0, <2>1, <3>1 DEF GrpOK
        <4> QED
          BY <2>1, <3>1, <4>1
      <3>2. CASE ~(h = g /\ v = u)
        <4>1. members'[h][v] = members[h][v]
          BY <1>0, <2>1, <3>2 DEF GrpOK
        <4> QED
          BY <2>1, <2>2, <4>1 DEF Entitled
      <3> QED
        BY <3>1, <3>2
    <2> QED
      BY <2>1, <2>2 DEF Entitled
  <1>3. ASSUME NEW g \in Groups, NEW u \in Users, RemoveMember(g, u)
        PROVE  /\ Entitled' /\ entitled \subseteq entitled' /\ epoch' = epoch
    <2>1. epoch' = epoch /\ members' = [members EXCEPT ![g][u] = -1] /\ entitled' = entitled
      BY <1>3 DEF RemoveMember
    <2>2. ASSUME NEW h \in Groups, NEW v \in Users, members'[h][v] >= 0
          PROVE  members'[h][v] = members[h][v]
      BY <1>0, <2>1, <2>2 DEF GrpOK
    <2> QED
      BY <2>1, <2>2 DEF Entitled
  <1>4. ASSUME NEW g \in Groups, RotateGroupKey(g)
        PROVE  /\ Entitled' /\ entitled \subseteq entitled'
               /\ \A h \in Groups : epoch'[h] \in Nat /\ epoch[h] <= epoch'[h]
    <2>1. /\ members' = members /\ epoch' = [epoch EXCEPT ![g] = @ + 1]
          /\ entitled' = entitled \union {<<g, u, epoch[g] + 1>> : u \in {v \in Users : members[g][v] >= 0}}
      BY <1>4 DEF RotateGroupKey
    <2>2. \A h \in Groups : epoch'[h] \in Nat /\ epoch[h] \in Nat /\ epoch'[h] = IF h = g THEN epoch[h] + 1 ELSE epoch[h]
      BY <1>0, <2>1 DEF GrpOK
    <2>3. ASSUME NEW h \in Groups, NEW v \in Users, members[h][v] >= 0
          PROVE  /\ members[h][v] <= epoch'[h]
                 /\ \A e \in Nat : members[h][v] <= e /\ e <= epoch'[h] => <<h, v, e>> \in entitled'
      <3>1. members[h][v] \in Int
        BY <1>0 DEF GrpOK
      <3>2. members[h][v] <= epoch'[h]
        BY <2>2, <2>3, <3>1 DEF Entitled
      <3>3. ASSUME NEW e \in Nat, members[h][v] <= e, e <= epoch'[h]
            PROVE  <<h, v, e>> \in entitled'
        <4>1. CASE e <= epoch[h]
          BY <2>1, <2>3, <3>3, <4>1 DEF Entitled
        <4>2. CASE ~(e <= epoch[h])
          <5>1. h = g /\ e = epoch[g] + 1
            BY <2>2, <3>3, <4>2
          <5> QED
            BY <2>1, <2>3, <5>1
        <4> QED
          BY <4>1, <4>2
      <3> QED
        BY <3>2, <3>3
    <2>4. Entitled'
      BY <2>1, <2>3 DEF Entitled
    <2> QED
      BY <2>1, <2>2, <2>4
  <1> QED
    BY <1>0, <1>1, <1>2, <1>3, <1>4, GroupTables DEF GroupChange, GrpOK

LEMMA EpochNext ==
    ASSUME Good, SystemStep, EpochInv
    PROVE  EpochInv'
  <1>0. /\ Entitled' /\ entitled \subseteq entitled'
        /\ \A g \in Groups : epoch[g] \in Nat /\ epoch'[g] \in Nat /\ epoch[g] <= epoch'[g]
    BY EntitledNext DEF EpochInv
  <1>a. ASSUME NEW s \in Sessions, Advanced(s, sess[s], sess'[s])
        PROVE  epoch' = epoch
    BY <1>a DEF Advanced, grpVars
  <1>b. ASSUME NEW s \in Sessions, sess[s].pc = "members"
        PROVE  Head(sess[s].groupRecipients) \in Groups /\ sess[s].epoch \in Nat
    <2>1. Sound(sess[s])
      BY GoodSession
    <2>2. sess[s].epoch \in Nat
      BY <2>1 DEF Sound, Session
    <2> QED
      BY <1>b, <2>1, <2>2, PostingFacts
  <1>1. ASSUME NEW s \in Sessions, sess'[s].pc = "members"
        PROVE  sess'[s].epoch <= epoch'[Head(sess'[s].groupRecipients)]
    <2>1. CASE Same(sess[s], sess'[s]) \/ sess'[s] = sess[s]
      <3>1. /\ sess[s].pc = "members" /\ sess'[s].epoch = sess[s].epoch
            /\ sess'[s].groupRecipients = sess[s].groupRecipients
        BY <1>1, <2>1 DEF Same
      <3>2. sess[s].epoch <= epoch[Head(sess[s].groupRecipients)]
        BY <3>1 DEF EpochInv
      <3> QED
        BY <1>0, <1>b, <3>1, <3>2
    <2>2. CASE Advanced(s, sess[s], sess'[s])
      <3>1. EpochStep(sess[s], sess'[s])
        BY <2>2 DEF Advanced
      <3>2. sess'[s].epoch = epoch[Head(sess'[s].groupRecipients)] /\ Head(sess'[s].groupRecipients) \in Groups
        BY <1>1, <3>1 DEF EpochStep
      <3> QED
        BY <1>0, <3>2
    <2>3. ~Fresh(sess'[s])
      BY <1>1 DEF Fresh, Nexts
    <2> QED
      BY <2>1, <2>2, <2>3, SessionSteps
  <1>2. ASSUME NEW s \in Sessions, NEW u \in sess'[s].fan
        PROVE  <<Head(sess'[s].groupRecipients), u, sess'[s].epoch>> \in entitled'
    <2>1. CASE Same(sess[s], sess'[s]) \/ sess'[s] = sess[s]
      BY <1>0, <1>2, <2>1 DEF Same, EpochInv
    <2>2. CASE Advanced(s, sess[s], sess'[s])
      <3>1. EpochStep(sess[s], sess'[s])
        BY <2>2 DEF Advanced
      <3>2. /\ sess'[s].groupRecipients = sess[s].groupRecipients /\ sess'[s].epoch = sess[s].epoch
            /\ \/ sess'[s].fan \subseteq sess[s].fan
               \/ /\ sess[s].pc = "members"
                  /\ sess'[s].fan \subseteq Eligible(Head(sess[s].groupRecipients), sess[s].epoch)
        BY <1>2, <3>1 DEF EpochStep
      <3>3. CASE sess'[s].fan \subseteq sess[s].fan
        BY <1>0, <1>2, <3>2, <3>3 DEF EpochInv
      <3>4. CASE /\ sess[s].pc = "members"
                 /\ sess'[s].fan \subseteq Eligible(Head(sess[s].groupRecipients), sess[s].epoch)
        <4>1. PICK g \in Groups : g = Head(sess[s].groupRecipients)
          BY <1>b, <3>4
        <4>2. PICK e \in Nat : e = sess[s].epoch
          BY <1>b, <3>4
        <4>3. u \in Users /\ members[g][u] >= 0 /\ members[g][u] <= e
          BY <1>2, <3>4, <4>1, <4>2 DEF Eligible
        <4>4. e <= epoch[g]
          BY <3>4, <4>1, <4>2 DEF EpochInv
        <4>5. <<g, u, e>> \in entitled
          BY <4>3, <4>4 DEF EpochInv, Entitled
        <4> QED
          BY <1>0, <3>2, <4>1, <4>2, <4>5
      <3> QED
        BY <3>2, <3>3, <3>4
    <2>3. ~Fresh(sess'[s])
      BY <1>2 DEF Fresh
    <2> QED
      BY <2>1, <2>2, <2>3, SessionSteps
  <1>3. ASSUME NEW p \in Mails \X Users, NEW i \in DOMAIN inbound'[p], inbound'[p][i].group \in Groups
        PROVE  <<inbound'[p][i].group, p[2], inbound'[p][i].epoch>> \in entitled'
    <2>1. CASE i \in DOMAIN inbound[p] /\ inbound'[p][i] = inbound[p][i]
      BY <1>0, <1>3, <2>1 DEF EpochInv, NoPreJoinHistory
    <2>2. ASSUME NEW s \in Sessions, NEW u \in Users, NEW c, CopyFor(sess[s], sess'[s], u, c),
                 p = <<sess[s].mail, u>>, inbound'[p][i] = c
          PROVE  <<inbound'[p][i].group, p[2], inbound'[p][i].epoch>> \in entitled'
      <3>1. c.group \in Groups /\ NoUser \notin Groups /\ p[2] = u
        BY <1>3, <2>2
      <3>2. c.group = Head(sess[s].groupRecipients) /\ c.epoch = sess[s].epoch /\ u \in sess[s].fan
        BY <2>2, <3>1 DEF CopyFor
      <3> QED
        BY <1>0, <2>2, <3>1, <3>2 DEF EpochInv
    <2>3. \/ i \in DOMAIN inbound[p] /\ inbound'[p][i] = inbound[p][i]
          \/ \E s \in Sessions : \E u \in Users : \E c :
               /\ CopyFor(sess[s], sess'[s], u, c) /\ Advanced(s, sess[s], sess'[s])
               /\ p = <<sess[s].mail, u>> /\ inbound'[p][i] = c
      BY CopyByCopy
    <2> QED
      BY <2>1, <2>2, <2>3
  <1>4. NoPreJoinHistory'
    BY <1>3 DEF NoPreJoinHistory
  <1> QED
    BY <1>0, <1>1, <1>2, <1>4 DEF EpochInv

(* NoPreJoinHistory.  A group copy reaches only mailboxes that were members *)
(* while the epoch it is encrypted for was current, although ProcessGroup-  *)
(* Message reads the epoch and the member list in two calls, and the key is *)
(* rotated and members come and go in between.                              *)
THEOREM NobodyReadsBeforeJoining == Spec => []NoPreJoinHistory
  <1>1. Init => Good /\ EpochInv
    <2> SUFFICES ASSUME Init PROVE Good /\ EpochInv
      OBVIOUS
    <2>1. Good
      BY InitGood
    <2>2. Entitled
      <3>1. ASSUME NEW g \in Groups, NEW u \in Users, members[g][u] >= 0
            PROVE  /\ members[g][u] <= epoch[g]
                   /\ \A e \in Nat : members[g][u] <= e /\ e <= epoch[g] => <<g, u, e>> \in entitled
        <4>1. u \in InitMembers[g] /\ members[g][u] = 0 /\ epoch[g] = 0
          BY <3>1 DEF Init
        <4>2. <<g, u, 0>> \in entitled
          BY <4>1 DEF Init
        <4>3. \A e \in Nat : e <= 0 => e = 0
          OBVIOUS
        <4>4. \A e \in Nat : members[g][u] <= e /\ e <= epoch[g] => <<g, u, e>> \in entitled
          BY <4>1, <4>2, <4>3
        <4> QED
          BY <4>1, <4>4
      <3> QED
        BY <3>1 DEF Entitled
    <2>3. NoPreJoinHistory
      BY DEF Init, NoPreJoinHistory
    <2>4. \A s \in Sessions : sess[s].pc # "members" /\ sess[s].fan = {}
      BY IdleFacts DEF Init
    <2> QED
      BY <2>1, <2>2, <2>3, <2>4 DEF EpochInv
  <1>2. Good /\ EpochInv /\ [Next]_vars => (Good /\ EpochInv)'
    BY GoodNext, NextCases, EpochNext
  <1>3. Good /\ EpochInv => NoPreJoinHistory
    BY DEF EpochInv
  <1> QED
    BY <1>1, <1>2, <1>3, PTL DEF Spec

-----------------------------------------------------------------------------
(* Attempts.                                                               *)

(* What the sender owes only shrinks.                                      *)
LEMMA OwedLess ==
    ASSUME Good, SystemStep, NEW m \in Mails
    PROVE  pending'[m] \subseteq pending[m]
  <1>0. MtaOK
    BY GoodParts
  <1>1. ASSUME NEW n \in Mails, NEW D, pending' = [pending EXCEPT ![n] = @ \ D]
        PROVE  pending'[m] \subseteq pending[m]
    <2>1. pending'[n] = pending[n] \ D /\ \A x \in Mails : x # n => pending'[x] = pending[x]
      BY <1>0, <1>1, PendingLess
    <2> QED
      BY <2>1
  <1>2. ASSUME NEW s \in Sessions, Ended(s, sess[s])
        PROVE  pending'[m] \subseteq pending[m]
    BY <1>1, <1>2 DEF Ended
  <1>3. ASSUME NEW s \in Sessions, Rcpt(s)
        PROVE  pending'[m] \subseteq pending[m]
    <2>1. Arrived(s, sess[s], sess'[s])
      BY <1>3, RcptFacts
    <2>2. /\ sess[s].mail \in Mails
          /\ pending' = pending \/ \E k : pending' = [pending EXCEPT ![sess[s].mail] = @ \ {Rcpts[sess[s].mail][k]}]
      BY <2>1 DEF Arrived
    <2> QED
      BY <1>1, <2>2
  <1>4. ASSUME NEW n \in Mails, GiveUp(n)
        PROVE  pending'[m] \subseteq pending[m]
    BY <1>0, <1>4 DEF GiveUp, MtaOK
  <1>5. CASE UNCHANGED pending
    BY <1>5
  <1>6. \/ \E s \in Sessions : Ended(s, sess[s])
        \/ \E s \in Sessions : Rcpt(s)
        \/ \E n \in Mails : GiveUp(n)
        \/ UNCHANGED pending
    BY DEF SystemStep, Advanced, SentOff, CutOff, TimedOut, ProcessEnds, Settled, GroupChange, RotateGroupKey, AddMember,
           RemoveMember, NextDay, Change, mtaVars
  <1> QED
    BY <1>2, <1>3, <1>4, <1>5, <1>6

(* A step that starts no attempt.                                          *)
LEMMA NoNewAttempt ==
    ASSUME NEW S, NEW T, NEW P, NEW Q, Attempts(S, P), \A m \in Mails : Q[m] \subseteq P[m],
           \A t \in Sessions : \A m \in Mails : Running(T[t], m) =>
             Running(S[t], m) /\ \A a \in Q[m] : Asking(S[t], m, a) => Asking(T[t], m, a)
    PROVE  Attempts(T, Q)
  <1>1. \A m \in Mails : Q[m] \subseteq ToSet(Rcpts[m])
    BY DEF Attempts
  <1>2. \A m \in Mails, s, t \in Sessions : Running(T[s], m) /\ Running(T[t], m) => s = t
    BY DEF Attempts
  <1>3. \A m \in Mails, s \in Sessions : Running(T[s], m) => \A a \in Q[m] : Asking(T[s], m, a)
    BY DEF Attempts
  <1> QED
    BY <1>1, <1>2, <1>3 DEF Attempts

(* How each step but the start of an attempt treats a running one.         *)
LEMMA RunningOn ==
    ASSUME Good, SystemStep, NEW t \in Sessions, NEW m \in Mails, Running(sess'[t], m),
           \A x \in Mails : ~SentOff(t, x, sess'[t])
    PROVE  Running(sess[t], m) /\ \A a \in pending'[m] : Asking(sess[t], m, a) => Asking(sess'[t], m, a)
  <1> DEFINE G == Running(sess[t], m) /\ \A a \in pending'[m] : Asking(sess[t], m, a) => Asking(sess'[t], m, a)
  <1>0. ~Running(Idle, m)
    BY IdleFacts DEF Running
  <1>1. ASSUME sess'[t] = sess[t]
        PROVE  G
    BY <1>1
  <1>2. ASSUME NEW s \in Sessions, OneSession(s), s # t
        PROVE  G
    BY <1>1, <1>2, Others
  <1>3. ASSUME NEW s \in Sessions, Advanced(s, sess[s], sess'[s])
        PROVE  G
    <2>1. CASE s = t
      BY <1>3, <2>1 DEF Advanced, Kept, Running, Asking
    <2>2. CASE s # t
      BY <1>2, <1>3, <2>2 DEF Advanced
    <2> QED
      BY <2>1, <2>2
  <1>4. ASSUME NEW s \in Sessions, Ended(s, sess[s])
        PROVE  G
    BY <1>0, <1>2, <1>4 DEF Ended
  <1>5. ASSUME NEW s \in Sessions, Rcpt(s)
        PROVE  G
    <2>0. PICK r : r = sess[s]
      OBVIOUS
    <2>a. PICK q : q = sess'[s]
      OBVIOUS
    <2>1. Arrived(s, r, q)
      BY <1>5, <2>0, <2>a, RcptFacts
    <2>2. CASE s = t
      <3>1. q # Idle /\ q.mail = r.mail /\ r.mail = m /\ ~r.orphan
        BY <1>0, <2>a, <2>1, <2>2 DEF Arrived, Running, Sound, SessionOK
      <3>2. PICK k \in r.ask :
                /\ r.took \subseteq q.took
                /\ q.pc = "rcpt" => q.ask = r.ask \ {k}
                /\ q.pc # "rcpt" => r.ask = {k}
                /\ \/ pending' = pending /\ Rcpts[m][k] \in q.took
                   \/ pending' = [pending EXCEPT ![m] = @ \ {Rcpts[m][k]}]
        BY <2>1, <3>1 DEF Arrived
      <3>3. ASSUME NEW a \in pending'[m], Asking(r, m, a)
            PROVE  Asking(q, m, a)
        <4>1. CASE a \in r.took
          BY <3>2, <4>1 DEF Asking
        <4>2. ASSUME NEW l \in r.ask, Rcpts[m][l] = a
              PROVE  Asking(q, m, a)
          <5>1. CASE l = k
            <6>1. CASE Rcpts[m][k] \in q.took
              BY <4>2, <5>1, <6>1 DEF Asking
            <6>2. CASE pending' = [pending EXCEPT ![m] = @ \ {Rcpts[m][k]}]
              <7>1. pending'[m] = pending[m] \ {Rcpts[m][k]}
                BY <6>2, GoodParts, PendingLess
              <7> QED
                BY <3>3, <4>2, <5>1, <7>1
            <6> QED
              BY <3>2, <6>1, <6>2
          <5>2. CASE l # k
            <6>1. q.pc = "rcpt" /\ l \in q.ask
              BY <3>2, <4>2, <5>2
            <6> QED
              BY <4>2, <6>1 DEF Asking
          <5> QED
            BY <5>1, <5>2
        <4> QED
          BY <3>3, <4>1, <4>2 DEF Asking
      <3> QED
        BY <2>0, <2>a, <2>2, <3>1, <3>3 DEF Running
    <2>3. CASE s # t
      BY <1>2, <2>1, <2>3 DEF Arrived
    <2> QED
      BY <2>2, <2>3
  <1>6. ASSUME NEW s \in Sessions, NEW x \in Mails, SentOff(s, x, sess'[s])
        PROVE  G
    BY <1>2, <1>6 DEF SentOff
  <1>7. ASSUME NEW s \in Sessions, CutOff(s, sess[s], sess'[s])
        PROVE  G
    BY <1>0, <1>2, <1>7 DEF CutOff, Running
  <1>8. ASSUME NEW s \in Sessions, TimedOut(s, sess[s], sess'[s])
        PROVE  G
    <2>1. CASE s = t
      BY <1>8, <2>1 DEF TimedOut, Same, Running, Asking
    <2>2. CASE s # t
      BY <1>2, <1>8, <2>2 DEF TimedOut
    <2> QED
      BY <2>1, <2>2
  <1>9. CASE ProcessEnds
    BY <1>0, <1>9 DEF ProcessEnds
  <1>10. (\E x \in Mails : GiveUp(x)) \/ Settled \/ GroupChange \/ NextDay => UNCHANGED sess
    BY DEF GiveUp, Settled, GroupChange, NextDay, AddMember, RemoveMember, RotateGroupKey, Change
  <1> QED
    BY <1>1, <1>3, <1>4, <1>5, <1>6, <1>7, <1>8, <1>9, <1>10 DEF SystemStep

LEMMA AttemptNext ==
    ASSUME Good, SystemStep, AttemptInv
    PROVE  AttemptInv'
  <1>0. \A m \in Mails : pending'[m] \subseteq pending[m]
    BY OwedLess
  <1>1. CASE \A s \in Sessions, m \in Mails : ~SentOff(s, m, sess'[s])
    <2>1. \A t \in Sessions : \A m \in Mails : Running(sess'[t], m) =>
             Running(sess[t], m) /\ \A a \in pending'[m] : Asking(sess[t], m, a) => Asking(sess'[t], m, a)
      BY <1>1, RunningOn
    <2>2. Attempts(sess', pending')
      BY <1>0, <2>1, NoNewAttempt DEF AttemptInv
    <2> QED
      BY <2>2 DEF AttemptInv, Attempts, Running, Asking
  <1>2. ASSUME NEW s \in Sessions, NEW m \in Mails, SentOff(s, m, sess'[s])
        PROVE  AttemptInv'
    <2>0. \A t \in Sessions : t # s => sess'[t] = sess[t]
      BY <1>2, Others DEF SentOff
    <2>1. /\ pending' = pending /\ Attempts(sess, pending) /\ sess'[s].mail = m /\ sess'[s].pc = "rcpt"
          /\ sess'[s].ask = {k \in DOMAIN Rcpts[m] : Rcpts[m][k] \in pending[m]}
          /\ \A t \in Sessions : ~Running(sess[t], m)
      BY <1>2 DEF SentOff, AttemptInv, Running
    <2>2. \A n \in Mails : pending[n] \subseteq ToSet(Rcpts[n])
      BY <2>1 DEF Attempts
    <2>3. \A n \in Mails, x, y \in Sessions : Running(sess'[x], n) /\ Running(sess'[y], n) => x = y
      <3>1. ASSUME NEW n \in Mails, NEW x \in Sessions, NEW y \in Sessions, Running(sess'[x], n), Running(sess'[y], n)
            PROVE  x = y
        <4>1. CASE n = m
          BY <2>0, <2>1, <3>1, <4>1
        <4>2. CASE n # m
          <5>1. x # s /\ y # s
            BY <2>1, <3>1, <4>2 DEF Running
          <5> QED
            BY <2>0, <2>1, <3>1, <5>1 DEF Attempts
        <4> QED
          BY <4>1, <4>2
      <3> QED
        BY <3>1
    <2>4. ASSUME NEW n \in Mails, NEW x \in Sessions, Running(sess'[x], n), NEW a \in pending[n]
          PROVE  Asking(sess'[x], n, a)
      <3>1. CASE x = s
        <4>1. n = m
          BY <2>1, <2>4, <3>1 DEF Running
        <4>2. PICK k \in DOMAIN Rcpts[m] : a = Rcpts[m][k]
          BY <2>2, <2>4, <4>1 DEF ToSet
        <4>3. k \in sess'[s].ask
          BY <2>1, <2>4, <4>1, <4>2
        <4> QED
          BY <2>1, <3>1, <4>1, <4>2, <4>3 DEF Asking
      <3>2. CASE x # s
        BY <2>0, <2>1, <2>4, <3>2 DEF Attempts
      <3> QED
        BY <3>1, <3>2
    <2>5. Attempts(sess', pending')
      BY <2>1, <2>2, <2>3, <2>4 DEF Attempts
    <2> QED
      BY <2>5 DEF AttemptInv, Attempts, Running, Asking
  <1> QED
    BY <1>1, <1>2

-----------------------------------------------------------------------------
(* Copies and what they cost.                                              *)

LEMMA PaidQuiet ==
    ASSUME NEW S, NEW T, NEW P, NEW Q, NEW m, NEW u, NEW n \in Nat, NEW k \in Nat, NEW j \in Nat, k <= j,
           Loose(T, m, u) \subseteq Loose(S, m, u), Closed(S, P, m, u) => Closed(T, Q, m, u), Paid(S, P, m, u, n, k)
    PROVE  Paid(T, Q, m, u, n, j)
  <1>1. PICK c : c = Cardinality(Loose(S, m, u))
    OBVIOUS
  <1>2. PICK d : d = Cardinality(Loose(T, m, u))
    OBVIOUS
  <1>3. IsFiniteSet(Loose(S, m, u)) /\ n + c <= k + (IF Closed(S, P, m, u) THEN 1 ELSE 0)
    BY <1>1 DEF Paid
  <1>4. IsFiniteSet(Loose(T, m, u)) /\ c \in Nat /\ d \in Nat /\ d <= c
    BY <1>1, <1>2, <1>3, FS_Subset, FS_CardinalityType
  <1>5. n + d <= j + (IF Closed(T, Q, m, u) THEN 1 ELSE 0)
    BY <1>3, <1>4
  <1> QED
    BY <1>2, <1>4, <1>5 DEF Paid

(* A mishap pays for whatever the sender will now send again.              *)
LEMMA PaidMishap ==
    ASSUME NEW S, NEW T, NEW P, NEW Q, NEW m, NEW u, NEW n \in Nat, NEW k \in Nat, NEW j \in Nat, j = k + 1,
           Loose(T, m, u) \subseteq Loose(S, m, u), Paid(S, P, m, u, n, k)
    PROVE  Paid(T, Q, m, u, n, j)
  <1>1. PICK c : c = Cardinality(Loose(S, m, u))
    OBVIOUS
  <1>2. PICK d : d = Cardinality(Loose(T, m, u))
    OBVIOUS
  <1>3. IsFiniteSet(Loose(S, m, u)) /\ n + c <= k + (IF Closed(S, P, m, u) THEN 1 ELSE 0)
    BY <1>1 DEF Paid
  <1>4. IsFiniteSet(Loose(T, m, u)) /\ c \in Nat /\ d \in Nat /\ d <= c
    BY <1>1, <1>2, <1>3, FS_Subset, FS_CardinalityType
  <1>5. n + d <= j + (IF Closed(T, Q, m, u) THEN 1 ELSE 0)
    BY <1>3, <1>4
  <1> QED
    BY <1>2, <1>4, <1>5 DEF Paid

(* A connection breaks and its handler may still queue a copy.             *)
LEMMA PaidCut ==
    ASSUME NEW S, NEW T, NEW P, NEW Q, NEW m, NEW u, NEW n \in Nat, NEW k \in Nat, NEW j \in Nat, j = k + 1, NEW s,
           Loose(T, m, u) \subseteq Loose(S, m, u) \union {s}, ~Closed(S, P, m, u), Paid(S, P, m, u, n, k)
    PROVE  Paid(T, Q, m, u, n, j)
  <1>1. PICK c : c = Cardinality(Loose(S, m, u))
    OBVIOUS
  <1>2. PICK d : d = Cardinality(Loose(T, m, u))
    OBVIOUS
  <1>3. IsFiniteSet(Loose(S, m, u)) /\ n + c <= k
    BY <1>1, FS_CardinalityType DEF Paid
  <1>4. PICK L : L = Loose(S, m, u) \union {s}
    OBVIOUS
  <1>5. IsFiniteSet(L) /\ Cardinality(L) \in Nat /\ Cardinality(L) <= c + 1 /\ c \in Nat
    <2>1. c \in Nat
      BY <1>1, <1>3, FS_CardinalityType
    <2>2. IsFiniteSet(L) /\ (Cardinality(L) = c \/ Cardinality(L) = c + 1)
      BY <1>1, <1>3, <1>4, FS_AddElement
    <2> QED
      BY <2>1, <2>2
  <1>6. IsFiniteSet(Loose(T, m, u)) /\ d \in Nat /\ d <= Cardinality(L)
    BY <1>2, <1>4, <1>5, FS_Subset, FS_CardinalityType
  <1>7. n + d <= j + (IF Closed(T, Q, m, u) THEN 1 ELSE 0)
    BY <1>3, <1>5, <1>6
  <1> QED
    BY <1>2, <1>6, <1>7 DEF Paid

(* The copy of a handler whose sender is gone was paid for then.           *)
LEMMA PaidOrphan ==
    ASSUME NEW S, NEW T, NEW P, NEW Q, NEW m, NEW u, NEW n \in Nat, NEW k \in Nat, NEW j \in Nat, k <= j,
           NEW s \in Loose(S, m, u), Loose(T, m, u) \subseteq Loose(S, m, u) \ {s},
           Closed(S, P, m, u) => Closed(T, Q, m, u), Paid(S, P, m, u, n, k)
    PROVE  Paid(T, Q, m, u, n + 1, j)
  <1>1. PICK c : c = Cardinality(Loose(S, m, u))
    OBVIOUS
  <1>2. PICK d : d = Cardinality(Loose(T, m, u))
    OBVIOUS
  <1>3. IsFiniteSet(Loose(S, m, u)) /\ n + c <= k + (IF Closed(S, P, m, u) THEN 1 ELSE 0)
    BY <1>1 DEF Paid
  <1>4. PICK L : L = Loose(S, m, u) \ {s}
    OBVIOUS
  <1>5. IsFiniteSet(L) /\ Cardinality(L) \in Nat /\ Cardinality(L) = c - 1 /\ c \in Nat
    <2>1. c \in Nat
      BY <1>1, <1>3, FS_CardinalityType
    <2>2. IsFiniteSet(L) /\ Cardinality(L) = c - 1
      BY <1>1, <1>3, <1>4, FS_RemoveElement
    <2> QED
      BY <2>1, <2>2, FS_CardinalityType
  <1>6. IsFiniteSet(Loose(T, m, u)) /\ d \in Nat /\ d <= Cardinality(L)
    BY <1>2, <1>4, <1>5, FS_Subset, FS_CardinalityType
  <1>7. n + 1 + d <= j + (IF Closed(T, Q, m, u) THEN 1 ELSE 0)
    BY <1>3, <1>5, <1>6
  <1> QED
    BY <1>2, <1>6, <1>7 DEF Paid

(* The copy of a running attempt is the one that is free, or its call      *)
(* failed.                                                                 *)
LEMMA PaidRunning ==
    ASSUME NEW S, NEW T, NEW P, NEW Q, NEW m, NEW u, NEW n \in Nat, NEW k \in Nat, NEW j \in Nat,
           Loose(T, m, u) \subseteq Loose(S, m, u), ~Closed(S, P, m, u), Paid(S, P, m, u, n, k),
           j = k + 1 \/ (j = k /\ Closed(T, Q, m, u))
    PROVE  Paid(T, Q, m, u, n + 1, j)
  <1>1. PICK c : c = Cardinality(Loose(S, m, u))
    OBVIOUS
  <1>2. PICK d : d = Cardinality(Loose(T, m, u))
    OBVIOUS
  <1>3. IsFiniteSet(Loose(S, m, u)) /\ n + c <= k
    BY <1>1, FS_CardinalityType DEF Paid
  <1>4. IsFiniteSet(Loose(T, m, u)) /\ c \in Nat /\ d \in Nat /\ d <= c
    BY <1>1, <1>2, <1>3, FS_Subset, FS_CardinalityType
  <1>5. n + 1 + d <= j + (IF Closed(T, Q, m, u) THEN 1 ELSE 0)
    BY <1>3, <1>4
  <1> QED
    BY <1>2, <1>4, <1>5 DEF Paid

(* One session changes and can do no more than before.                     *)
LEMMA LooseLess ==
    ASSUME NEW S, NEW T, NEW m, NEW u, NEW s \in Sessions, \A t \in Sessions : t # s => T[t] = S[t],
           T[s].orphan /\ T[s].mail = m /\ Able(T[s], u) => S[s].orphan /\ S[s].mail = m /\ Able(S[s], u)
    PROVE  Loose(T, m, u) \subseteq Loose(S, m, u)
  BY DEF Loose

LEMMA StaysClosed ==
    ASSUME NEW S, NEW T, NEW P, NEW Q, NEW m, NEW u, NEW s \in Sessions, \A t \in Sessions : t # s => T[t] = S[t],
           Q \subseteq P, Running(T[s], m) => Running(S[s], m),
           Running(S[s], m) /\ Sure(S[s]) /\ ~Able(S[s], u) => Running(T[s], m) /\ Sure(T[s]) /\ ~Able(T[s], u)
    PROVE  Closed(S, P, m, u) => Closed(T, Q, m, u)
  <1>1. ASSUME P = {}, \A t \in Sessions : ~Running(S[t], m)
        PROVE  Closed(T, Q, m, u)
    BY <1>1 DEF Closed
  <1>2. ASSUME NEW t \in Sessions, Running(S[t], m), Sure(S[t]), ~Able(S[t], u)
        PROVE  Closed(T, Q, m, u)
    BY <1>2 DEF Closed
  <1> QED
    BY <1>1, <1>2 DEF Closed

(* A running attempt that is not past its copy keeps the case open.        *)
LEMMA StillOpen ==
    ASSUME NEW S, NEW P, Attempts(S, P), NEW m \in Mails, NEW u, NEW s \in Sessions, NEW Q,
           Running(S[s], m), ~Sure(S[s]) \/ Able(S[s], u)
    PROVE  ~Closed(S, Q, m, u)
  <1>1. \A t \in Sessions : Running(S[t], m) => t = s
    BY DEF Attempts
  <1> QED
    BY <1>1 DEF Closed

(* The steps, one message and mailbox at a time.                           *)
PaidNow(m, u) == Paid(sess, pending[m], m, u, Len(inbound[<<m, u>>]), mishaps)
PaidNext(m, u) == Paid(sess', pending'[m], m, u, Len(inbound'[<<m, u>>]), mishaps')

LEMMA CountFacts ==
    ASSUME Good, Good', NEW m \in Mails, NEW u \in Users
    PROVE  /\ Len(inbound[<<m, u>>]) \in Nat /\ mishaps \in Nat /\ mishaps' \in Nat
  <1>1. inbound[<<m, u>>] \in Seq(Copies) /\ mishaps \in Nat /\ mishaps' \in Nat
    BY DEF Good, TypeOK
  <1> QED
    BY <1>1

LEMMA AdvancedPaid ==
    ASSUME Good, Good', AttemptInv, NEW m \in Mails, NEW u \in Users, PaidNow(m, u),
           NEW s \in Sessions, Advanced(s, sess[s], sess'[s])
    PROVE  PaidNext(m, u)
  <1>0. PICK n \in Nat : n = Len(inbound[<<m, u>>])
    BY CountFacts
  <1>a. PICK k \in Nat : k = mishaps
    BY CountFacts
  <1>b. PICK j \in Nat : j = mishaps'
    BY CountFacts
  <1>c. PICK r : r = sess[s]
    OBVIOUS
  <1>d. PICK q : q = sess'[s]
    OBVIOUS
  <1>1. /\ Sound(r) /\ Kept(r, q) /\ r.pc \notin {"idle", "rcpt"} /\ CopyStep(r, q) /\ (j = k \/ j = k + 1)
        /\ pending' = pending /\ Quieter(r, q)
    BY <1>a, <1>b, <1>c, <1>d DEF Advanced, mtaVars, CopyStep
  <1>2. \A t \in Sessions : t # s => sess'[t] = sess[t]
    BY Others DEF Advanced
  <1>3. Paid(sess, pending[m], m, u, n, k)
    BY <1>0, <1>a DEF PaidNow
  <1>4. Loose(sess', m, u) \subseteq Loose(sess, m, u)
    <2>1. sess'[s].orphan /\ sess'[s].mail = m /\ Able(sess'[s], u) => sess[s].orphan /\ sess[s].mail = m /\ Able(sess[s], u)
      BY <1>1, <1>c, <1>d DEF Kept, Quieter
    <2> QED
      BY <1>2, <2>1, LooseLess
  <1>5. Closed(sess, pending[m], m, u) => Closed(sess', pending[m], m, u)
    <2>1. Running(sess'[s], m) => Running(sess[s], m)
      BY <1>1, <1>c, <1>d DEF Kept, Running
    <2>2. Running(sess[s], m) /\ Sure(sess[s]) /\ ~Able(sess[s], u) => Running(sess'[s], m) /\ Sure(sess'[s]) /\ ~Able(sess'[s], u)
      BY <1>1, <1>c, <1>d DEF Kept, Running, Quieter
    <2> QED
      BY <1>2, <2>1, <2>2, StaysClosed
  <1>6. ASSUME inbound'[<<m, u>>] = inbound[<<m, u>>]
        PROVE  PaidNext(m, u)
    <2>1. k <= j
      BY <1>1
    <2>2. Paid(sess', pending[m], m, u, n, j)
      BY <1>3, <1>4, <1>5, <2>1, PaidQuiet
    <2> QED
      BY <1>0, <1>1, <1>b, <1>6, <2>2 DEF PaidNext
  <1>7. ASSUME NEW v \in Users, NEW c, CopyFor(r, q, v, c), OneMore(r.mail, v, c), <<m, u>> = <<r.mail, v>>
        PROVE  PaidNext(m, u)
    <2>0. Len(inbound'[<<m, u>>]) = n + 1
      <3>1. PICK z \in Seq(Copies) : z = inbound[<<m, u>>] /\ inbound'[<<m, u>>] = Append(z, c) /\ c \in Copies
        BY <1>7 DEF OneMore
      <3>2. c \in Copies
        BY <3>1
      <3>3. Len(Append(z, c)) = Len(z) + 1
        BY <3>2, SeqAppend
      <3> QED
        BY <1>0, <3>1, <3>3
    <2>1. m = r.mail /\ Able(r, u) /\ ~Able(q, u) /\ (Sure(q) \/ j = k + 1)
      BY <1>7, <1>a, <1>b DEF CopyFor
    <2>2. CASE r.orphan
      <3>1. s \in Loose(sess, m, u) /\ s \notin Loose(sess', m, u)
        BY <1>c, <1>d, <2>1, <2>2 DEF Loose
      <3>2. Loose(sess', m, u) \subseteq Loose(sess, m, u) \ {s}
        BY <1>4, <3>1
      <3>3. k <= j
        BY <1>1
      <3>4. Paid(sess', pending[m], m, u, n + 1, j)
        BY <1>3, <1>5, <3>1, <3>2, <3>3, PaidOrphan
      <3> QED
        BY <1>1, <1>b, <2>0, <3>4 DEF PaidNext
    <2>3. CASE ~r.orphan
      <3>1. Running(sess[s], m) /\ Able(sess[s], u) /\ Running(sess'[s], m)
        BY <1>1, <1>c, <1>d, <2>1, <2>3 DEF Running, Kept
      <3>2. ~Closed(sess, pending[m], m, u)
        BY <3>1, StillOpen DEF AttemptInv
      <3>3. j = k + 1 \/ (j = k /\ Closed(sess', pending[m], m, u))
        BY <1>1, <1>d, <2>1, <3>1 DEF Closed
      <3>4. Paid(sess', pending[m], m, u, n + 1, j)
        BY <1>3, <1>4, <3>2, <3>3, PaidRunning
      <3> QED
        BY <1>1, <1>b, <2>0, <3>4 DEF PaidNext
    <2> QED
      BY <2>2, <2>3
  <1>8. CASE inbound' # inbound
    <2>1. PICK v \in Users : \E c : CopyFor(r, q, v, c) /\ OneMore(r.mail, v, c)
      BY <1>1, <1>8, CopiedFacts
    <2>2. PICK c : CopyFor(r, q, v, c) /\ OneMore(r.mail, v, c)
      BY <2>1
    <2>3. CASE <<m, u>> = <<r.mail, v>>
      BY <1>7, <2>2, <2>3
    <2>4. CASE <<m, u>> # <<r.mail, v>>
      <3>1. inbound'[<<m, u>>] = inbound[<<m, u>>]
        BY <2>2, <2>4 DEF OneMore
      <3> QED
        BY <1>6, <3>1
    <2> QED
      BY <2>3, <2>4
  <1> QED
    BY <1>6, <1>8

(* A step that queues nothing and fails nothing.                           *)
LEMMA QuietPaid ==
    ASSUME Good, Good', NEW m \in Mails, NEW u \in Users, PaidNow(m, u),
           UNCHANGED inbound, UNCHANGED mishaps \/ mishaps' = mishaps + 1, Loose(sess', m, u) \subseteq Loose(sess, m, u),
           Closed(sess, pending[m], m, u) => Closed(sess', pending'[m], m, u)
    PROVE  PaidNext(m, u)
  <1>0. PICK n \in Nat : n = Len(inbound[<<m, u>>]) /\ n = Len(inbound'[<<m, u>>])
    BY CountFacts
  <1>a. PICK k \in Nat : k = mishaps
    BY CountFacts
  <1>b. PICK j \in Nat : j = mishaps'
    BY CountFacts
  <1>1. k <= j
    BY <1>a, <1>b
  <1>2. Paid(sess, pending[m], m, u, n, k)
    BY <1>0, <1>a DEF PaidNow
  <1>3. Paid(sess', pending'[m], m, u, n, j)
    BY <1>1, <1>2, PaidQuiet
  <1> QED
    BY <1>0, <1>b, <1>3 DEF PaidNext

LEMMA MishapPaid ==
    ASSUME Good, Good', NEW m \in Mails, NEW u \in Users, PaidNow(m, u),
           UNCHANGED inbound, mishaps' = mishaps + 1, Loose(sess', m, u) \subseteq Loose(sess, m, u)
    PROVE  PaidNext(m, u)
  <1>0. PICK n \in Nat : n = Len(inbound[<<m, u>>]) /\ n = Len(inbound'[<<m, u>>])
    BY CountFacts
  <1>a. PICK k \in Nat : k = mishaps
    BY CountFacts
  <1>b. PICK j \in Nat : j = mishaps'
    BY CountFacts
  <1>1. j = k + 1
    BY <1>a, <1>b
  <1>2. Paid(sess, pending[m], m, u, n, k)
    BY <1>0, <1>a DEF PaidNow
  <1>3. Paid(sess', pending'[m], m, u, n, j)
    BY <1>1, <1>2, PaidMishap
  <1> QED
    BY <1>0, <1>b, <1>3 DEF PaidNext

LEMMA EndedPaid ==
    ASSUME Good, Good', AttemptInv, NEW m \in Mails, NEW u \in Users, PaidNow(m, u),
           NEW s \in Sessions, Ended(s, sess[s]), pending'[m] \subseteq pending[m]
    PROVE  PaidNext(m, u)
  <1>0. PICK r : r = sess[s]
    OBVIOUS
  <1>1. /\ Sound(r) /\ r.pc = "answer" /\ r.mail \in Mails /\ sess'[s] = Idle /\ UNCHANGED inbound /\ UNCHANGED mishaps
    BY <1>0 DEF Ended, boxVars, budget
  <1>2. \A t \in Sessions : t # s => sess'[t] = sess[t]
    BY Others DEF Ended
  <1>3. ~sess'[s].orphan /\ ~Running(sess'[s], m)
    BY <1>1, IdleFacts DEF Running
  <1>4. Loose(sess', m, u) \subseteq Loose(sess, m, u)
    BY <1>2, <1>3, LooseLess
  <1>5. Closed(sess, pending[m], m, u) => Closed(sess', pending'[m], m, u)
    <2>1. CASE ~Running(sess[s], m) \/ ~Sure(sess[s])
      BY <1>2, <1>3, <2>1, StaysClosed
    <2>2. CASE Running(sess[s], m) /\ Sure(sess[s])
      <3>1. m = r.mail /\ ~r.orphan /\ r.got # {}
        <4>1. ~r.counted
          BY <1>1 DEF Sound, SessionOK
        <4> QED
          BY <1>0, <2>2, <4>1 DEF Running, Sure
      <3>2. pending' = [pending EXCEPT ![r.mail] = @ \ r.took]
        BY <1>0, <3>1 DEF Ended
      <3>3. pending'[m] = pending[m] \ r.took
        BY <3>1, <3>2, GoodParts, PendingLess
      <3>4. \A a \in pending[m] : a \in r.took
        BY <1>0, <1>1, <2>2 DEF AttemptInv, Attempts, Asking
      <3>5. pending'[m] = {}
        BY <3>3, <3>4
      <3>6. \A t \in Sessions : ~Running(sess'[t], m)
        BY <1>2, <1>3, <2>2 DEF AttemptInv, Attempts
      <3> QED
        BY <3>5, <3>6 DEF Closed
    <2> QED
      BY <2>1, <2>2
  <1> QED
    BY <1>1, <1>4, <1>5, QuietPaid

LEMMA RcptPaid ==
    ASSUME Good, Good', AttemptInv, NEW m \in Mails, NEW u \in Users, PaidNow(m, u),
           NEW s \in Sessions, Rcpt(s), pending'[m] \subseteq pending[m]
    PROVE  PaidNext(m, u)
  <1>0. PICK r : r = sess[s]
    OBVIOUS
  <1>a. PICK q : q = sess'[s]
    OBVIOUS
  <1>b. Arrived(s, r, q)
    BY <1>0, <1>a, RcptFacts
  <1>1. /\ r.pc = "rcpt" /\ Sound(r) /\ ~q.orphan /\ (q = Idle \/ q.mail = r.mail)
        /\ (UNCHANGED mishaps \/ mishaps' = mishaps + 1) /\ OneSession(s)
    BY <1>b DEF Arrived
  <1>2. \A t \in Sessions : t # s => sess'[t] = sess[t]
    BY <1>1, Others
  <1>3. UNCHANGED inbound
    BY DEF Rcpt, boxVars
  <1>4. Loose(sess', m, u) \subseteq Loose(sess, m, u)
    BY <1>1, <1>2, <1>a, LooseLess
  <1>5. ~Sure(sess[s]) /\ ~r.orphan
    BY <1>0, <1>1 DEF Sure, Sound, SessionOK
  <1>6. Closed(sess, pending[m], m, u) => Closed(sess', pending'[m], m, u)
    <2>1. CASE m = r.mail
      <3>1. Running(sess[s], m)
        BY <1>0, <1>5, <2>1 DEF Running
      <3> QED
        BY <1>5, <3>1, StillOpen DEF AttemptInv
    <2>2. CASE m # r.mail
      <3>1. ~Running(sess[s], m) /\ ~Running(sess'[s], m)
        BY <1>0, <1>1, <1>a, <2>2, IdleFacts DEF Running
      <3>2. Running(sess'[s], m) => Running(sess[s], m)
        BY <3>1
      <3>3. Running(sess[s], m) /\ Sure(sess[s]) /\ ~Able(sess[s], u) => Running(sess'[s], m) /\ Sure(sess'[s]) /\ ~Able(sess'[s], u)
        BY <3>1
      <3>4. PICK P : P = pending[m]
        OBVIOUS
      <3>5. PICK Q : Q = pending'[m]
        OBVIOUS
      <3>6. Q \subseteq P
        BY <3>4, <3>5
      <3>7. Closed(sess, P, m, u) => Closed(sess', Q, m, u)
        BY ONLY <1>2, <3>2, <3>3, <3>6, s \in Sessions, StaysClosed
      <3> QED
        BY <3>4, <3>5, <3>7
    <2> QED
      BY <2>1, <2>2
  <1> QED
    BY <1>1, <1>3, <1>4, <1>6, QuietPaid

LEMMA SentPaid ==
    ASSUME Good, Good', NEW m \in Mails, NEW u \in Users, PaidNow(m, u),
           NEW s \in Sessions, NEW n \in Mails, SentOff(s, n, sess'[s])
    PROVE  PaidNext(m, u)
  <1>1. /\ sess[s].pc = "idle" /\ pending[n] # {} /\ OneSession(s) /\ sess'[s].mail = n /\ ~sess'[s].orphan
        /\ UNCHANGED inbound /\ UNCHANGED mishaps /\ pending' = pending
        /\ \A t \in Sessions : ~Running(sess[t], n)
    BY DEF SentOff, boxVars, budget, Running
  <1>2. \A t \in Sessions : t # s => sess'[t] = sess[t]
    BY <1>1, Others
  <1>3. Loose(sess', m, u) \subseteq Loose(sess, m, u)
    BY <1>1, <1>2, LooseLess
  <1>4. Closed(sess, pending[m], m, u) => Closed(sess', pending'[m], m, u)
    <2>1. CASE m = n
      BY <1>1, <2>1 DEF Closed
    <2>2. CASE m # n
      <3>1. ~Running(sess'[s], m) /\ ~Running(sess[s], m)
        BY <1>1, <2>2, GoodSession DEF Running, Sound
      <3> QED
        BY <1>1, <1>2, <3>1, StaysClosed
    <2> QED
      BY <2>1, <2>2
  <1> QED
    BY <1>1, <1>3, <1>4, QuietPaid

LEMMA CutPaid ==
    ASSUME Good, Good', AttemptInv, NEW m \in Mails, NEW u \in Users, PaidNow(m, u),
           NEW s \in Sessions, CutOff(s, sess[s], sess'[s])
    PROVE  PaidNext(m, u)
  <1>1. /\ OneSession(s) /\ ~sess[s].orphan /\ UNCHANGED inbound /\ mishaps' = mishaps + 1 /\ pending' = pending
    BY DEF CutOff, boxVars, mtaVars
  <1>2. \A t \in Sessions : t # s => sess'[t] = sess[t]
    BY <1>1, Others
  <1>3. CASE ~(sess'[s].orphan /\ sess'[s].mail = m /\ Able(sess'[s], u))
    <2>1. Loose(sess', m, u) \subseteq Loose(sess, m, u)
      BY <1>2, <1>3, LooseLess
    <2> QED
      BY <1>1, <2>1, MishapPaid
  <1>4. CASE sess'[s].orphan /\ sess'[s].mail = m /\ Able(sess'[s], u)
    <2>1. Same(sess[s], sess'[s])
      BY <1>4, IdleFacts DEF CutOff
    <2>2. Running(sess[s], m) /\ Able(sess[s], u)
      BY <1>1, <1>4, <2>1 DEF Same, Running, Able
    <2>3. ~Closed(sess, pending[m], m, u)
      BY <2>2, StillOpen DEF AttemptInv
    <2>4. Loose(sess', m, u) \subseteq Loose(sess, m, u) \union {s}
      BY <1>2 DEF Loose
    <2>5. PICK n \in Nat : n = Len(inbound[<<m, u>>]) /\ n = Len(inbound'[<<m, u>>])
      BY <1>1, CountFacts
    <2>6. PICK k \in Nat : k = mishaps
      BY CountFacts
    <2>7. PICK j \in Nat : j = mishaps'
      BY CountFacts
    <2>8. j = k + 1
      BY <1>1, <2>6, <2>7
    <2>9. Paid(sess, pending[m], m, u, n, k)
      BY <2>5, <2>6 DEF PaidNow
    <2>10. Paid(sess', pending'[m], m, u, n, j)
      BY <2>3, <2>4, <2>8, <2>9, PaidCut
    <2> QED
      BY <2>5, <2>7, <2>10 DEF PaidNext
  <1> QED
    BY <1>3, <1>4

LEMMA CopyNext ==
    ASSUME Good, Good', SystemStep, AttemptInv, CopyInv
    PROVE  CopyInv'
  <1>1. ASSUME NEW m \in Mails, NEW u \in Users
        PROVE  PaidNext(m, u)
    <2>0. PaidNow(m, u) /\ pending'[m] \subseteq pending[m]
      BY OwedLess DEF CopyInv, PaidNow
    <2>1. ASSUME NEW s \in Sessions, Advanced(s, sess[s], sess'[s])
          PROVE  PaidNext(m, u)
      BY <2>0, <2>1, AdvancedPaid
    <2>2. ASSUME NEW s \in Sessions, Ended(s, sess[s])
          PROVE  PaidNext(m, u)
      BY <2>0, <2>2, EndedPaid
    <2>3. ASSUME NEW s \in Sessions, Rcpt(s)
          PROVE  PaidNext(m, u)
      BY <2>0, <2>3, RcptPaid
    <2>4. ASSUME NEW s \in Sessions, NEW n \in Mails, SentOff(s, n, sess'[s])
          PROVE  PaidNext(m, u)
      BY <2>0, <2>4, SentPaid
    <2>5. ASSUME NEW s \in Sessions, CutOff(s, sess[s], sess'[s])
          PROVE  PaidNext(m, u)
      BY <2>0, <2>5, CutPaid
    <2>6. ASSUME NEW s \in Sessions, TimedOut(s, sess[s], sess'[s])
          PROVE  PaidNext(m, u)
      <3>1. /\ OneSession(s) /\ Same(sess[s], sess'[s]) /\ sess'[s].orphan = sess[s].orphan
            /\ UNCHANGED inbound /\ mishaps' = mishaps + 1
        BY <2>6 DEF TimedOut, boxVars
      <3>2. \A t \in Sessions : t # s => sess'[t] = sess[t]
        BY <3>1, Others
      <3>3. sess'[s].orphan /\ sess'[s].mail = m /\ Able(sess'[s], u) => sess[s].orphan /\ sess[s].mail = m /\ Able(sess[s], u)
        BY <3>1 DEF Same, Able
      <3>4. Loose(sess', m, u) \subseteq Loose(sess, m, u)
        BY <3>2, <3>3, LooseLess
      <3> QED
        BY <2>0, <3>1, <3>4, MishapPaid
    <2>7. CASE ProcessEnds
      <3>1. UNCHANGED inbound /\ mishaps' = mishaps + 1 /\ \A t \in Sessions : sess'[t] = Idle
        BY <2>7 DEF ProcessEnds, Mishap, boxVars
      <3>2. Loose(sess', m, u) \subseteq Loose(sess, m, u)
        BY <3>1, IdleFacts DEF Loose
      <3> QED
        BY <2>0, <3>1, <3>2, MishapPaid
    <2>8. ASSUME UNCHANGED <<sess, inbound, mishaps>>
          PROVE  PaidNext(m, u)
      <3>1. Loose(sess', m, u) \subseteq Loose(sess, m, u)
        BY <2>8
      <3>2. Closed(sess, pending[m], m, u) => Closed(sess', pending'[m], m, u)
        BY <2>0, <2>8 DEF Closed
      <3> QED
        BY <2>0, <2>8, <3>1, <3>2, QuietPaid
    <2>9. (\E n \in Mails : GiveUp(n)) \/ Settled \/ GroupChange \/ NextDay => UNCHANGED <<sess, inbound, mishaps>>
      BY DEF GiveUp, Settled, GroupChange, NextDay, AddMember, RemoveMember, RotateGroupKey, Change, boxVars, budget
    <2> QED
      BY <2>1, <2>2, <2>3, <2>4, <2>5, <2>6, <2>7, <2>8, <2>9 DEF SystemStep
  <1> QED
    BY <1>1 DEF CopyInv, PaidNext, Paid, Loose, Closed, Running, Sure, Able

(* NoNeedlessDuplicate.  A mailbox holds one copy of a message and at most  *)
(* one more for every failed call, broken connection and crash: answering   *)
(* 250 on partial success, and zeroing the buffer after the first delivery, *)
(* keep sessions and retries from repeating each other, however many        *)
(* sessions, attempts and recipients there are.                             *)
THEOREM DuplicatesArePaidFor == Spec => []NoNeedlessDuplicate
  <1>1. Init => Good /\ AttemptInv /\ CopyInv
    <2> SUFFICES ASSUME Init PROVE Good /\ AttemptInv /\ CopyInv
      OBVIOUS
    <2>1. \A s \in Sessions : sess[s] = Idle
      BY DEF Init
    <2>2. AttemptInv
      BY <2>1, IdleFacts DEF Init, AttemptInv, Attempts, Running
    <2>3. ASSUME NEW m \in Mails, NEW u \in Users
          PROVE  Paid(sess, pending[m], m, u, Len(inbound[<<m, u>>]), mishaps)
      <3>1. Loose(sess, m, u) = {}
        BY <2>1, IdleFacts DEF Loose
      <3>2. inbound[<<m, u>>] = <<>> /\ mishaps = 0
        BY DEF Init
      <3>3. Len(inbound[<<m, u>>]) = 0
        BY <3>2
      <3> QED
        BY <3>1, <3>2, <3>3, FS_EmptySet DEF Paid
    <2> QED
      BY <2>2, <2>3, InitGood DEF CopyInv
  <1>2. Good /\ AttemptInv /\ CopyInv /\ [Next]_vars => (Good /\ AttemptInv /\ CopyInv)'
    BY GoodNext, NextCases, AttemptNext, CopyNext
  <1>3. Good /\ CopyInv => NoNeedlessDuplicate
    <2> SUFFICES ASSUME Good, CopyInv, NEW p \in Mails \X Users
                 PROVE  Len(inbound[p]) <= 1 + mishaps
      BY DEF NoNeedlessDuplicate
    <2>1. PICK m \in Mails, u \in Users : p = <<m, u>>
      OBVIOUS
    <2>2. PICK c : c = Cardinality(Loose(sess, m, u))
      OBVIOUS
    <2>3. /\ IsFiniteSet(Loose(sess, m, u))
          /\ Len(inbound[p]) + c <= mishaps + (IF Closed(sess, pending[m], m, u) THEN 1 ELSE 0)
      BY <2>1, <2>2 DEF CopyInv, Paid
    <2>4. c \in Nat /\ mishaps \in Nat /\ inbound[p] \in Seq(Copies)
      BY <2>2, <2>3, FS_CardinalityType DEF Good, TypeOK
    <2>5. Len(inbound[p]) \in Nat
      BY <2>4
    <2> QED
      BY <2>3, <2>4, <2>5
  <1> QED
    BY <1>1, <1>2, <1>3, PTL DEF Spec
=============================================================================
