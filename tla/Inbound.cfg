SPECIFICATION FairSpec
CONSTANTS
  u1 = u1  u2 = u2  a1 = a1  g1 = g1  r1 = r1  x = x  m1 = m1  m2 = m2
  NoMail = NoMail  NoUser = NoUser
  Users = {u1, u2}
  Aliases = {a1}
  Groups = {g1}
  Roles = {r1}
  Mails = {m1, m2}
  From <- MCFrom
  Rcpts <- MCRcpts
  MembersOnly = {}
  Spam = {}
  Reject = {m1}
  Sessions = {s1, s2}
  InitAlias <- MCAlias
  InitMembers <- MCMembers
  InitReply = {u2}
  CatchAlls = {u2, NoUser}
  InitCatchAll = NoUser
  MaxTries = 2
  MaxChanges = 2
  MaxTrouble = 2
CHECK_DEADLOCK FALSE
INVARIANTS
  InboundInv
  AcceptedLeavesTrace
  OneReplyPerDay
  NoNeedlessDuplicate
  NoPreJoinHistory
PROPERTY EveryMailSettled
