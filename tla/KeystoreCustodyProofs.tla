------------------------ MODULE KeystoreCustodyProofs ------------------------
(* Where the authority of the keystore's writes comes from, what its audit *)
(* log and snapshots hold, and the proof that it implements KeyCustody,    *)
(* for every value of the constants.                                       *)
EXTENDS KeystoreProofs

USE KeystoreAssumption

-----------------------------------------------------------------------------
(* Operator proofs.                                                        *)

Unproven(q) == q.op = "delegate" /\ q.nonce = None

(* A write that is past its checks was signed by the operator and accepted *)
(* or is a chained delegation.                                             *)
AuthInv ==
    \A p \in Procs :
        /\ pc[p] = "member" => Unproven(req[p])
        /\ pc[p] \in {"has", "store", "mutate", "persist"} =>
             ProofOf(req[p]) \in accepted \/ Unproven(req[p])

(* Accepted proofs are never forgotten.                                    *)
LEMMA AcceptedGrows ==
    ASSUME [Next]_vars
    PROVE  accepted \subseteq accepted'
  <1>1. CASE Boot \/ Crash \/ Shutdown \/ DailySnapshot \/ UNCHANGED vars
    BY <1>1 DEF Boot, Crash, ProcessEnds, Shutdown, DailySnapshot, PackAllow, PackAudit,
       PackKeys, vars, obsVars
  <1>2. ASSUME NEW p \in Procs, Arrive(p) \/ LockWrite(p) \/ Handler(p)
        PROVE  accepted \subseteq accepted'
    BY <1>2 DEF Arrive, LockWrite, Handler, VerifySeen, VerifySign, DelegateMember, AllowMutate,
       AllowPersist, KeyHas, KeyWrite, LogWrite, PackAllow, PackAudit, PackKeys, GetAllowed,
       GetDenied, GetRead, GetAnswer, ListAnswer, obsVars
  <1> QED
    BY <1>1, <1>2 DEF Next

(* A handler reaches its change through Verify or the membership check.    *)
LEMMA AuthStep ==
    ASSUME CoreInv, AuthInv, [Next]_vars
    PROVE  AuthInv'
  <1> DEFINE Late == {"has", "store", "mutate", "persist"}
             Auth(q, l) == /\ l = "member" => Unproven(q)
                           /\ l \in Late => ProofOf(q) \in accepted \/ Unproven(q)
  <1> SUFFICES ASSUME NEW p \in Procs, pc'[p] \in Late \cup {"member"}
               PROVE  Auth(req[p], pc[p])'
    BY DEF AuthInv, ProofOf, Unproven
  <1> USE DEF CoreInv, WriteInv
  <1>0. ASSUME req'[p] = req[p], pc'[p] = pc[p] \/ (pc[p] \in Late /\ pc'[p] \in Late)
        PROVE  Auth(req[p], pc[p])'
    BY <1>0, AcceptedGrows DEF AuthInv, ProofOf, Unproven
  <1>1. CASE ~LockWrite(p) /\ ~Handler(p) /\ ~Arrive(p)
    BY <1>0, <1>1, Undisturbed
  <1>2. CASE Arrive(p)
    BY <1>2 DEF Arrive, Goto, TypeOK
  <1>3. CASE LockWrite(p)
    BY <1>3 DEF LockWrite, Goto, TypeOK, Unproven
  <1>4. CASE VerifySign(p)
    BY <1>4 DEF VerifySign, Goto, Return, TypeOK, ProofOf
  <1>5. CASE DelegateMember(p)
    <2>1. req'[p] = req[p] /\ pc[p] = "member" /\ pc'[p] = "mutate"
      BY <1>5 DEF DelegateMember, Goto, Return, TypeOK
    <2> QED
      BY <2>1 DEF AuthInv, Unproven
  <1>6. CASE AllowMutate(p) \/ KeyHas(p)
    <2>1. req'[p] = req[p] /\ pc[p] \in Late /\ pc'[p] \in Late
      BY <1>6 DEF AllowMutate, KeyHas, Goto, Return, TypeOK
    <2> QED
      BY <1>0, <2>1
  <1>7. CASE VerifySeen(p) \/ AllowPersist(p) \/ KeyWrite(p) \/ LogWrite(p)
    BY <1>7 DEF VerifySeen, AllowPersist, KeyWrite, LogWrite, Goto, Return, TypeOK
  <1>8. CASE PackAllow(p) \/ PackAudit(p) \/ PackKeys(p)
    <2>1. CASE PackAllow(p)
      BY <2>1 DEF PackAllow
    <2>2. CASE PackAudit(p)
      BY <2>2 DEF PackAudit
    <2>3. CASE PackKeys(p)
      BY <2>3 DEF PackKeys, Return, TypeOK
    <2> QED
      BY <1>8, <2>1, <2>2, <2>3
  <1>9. CASE GetAllowed(p) \/ GetDenied(p) \/ GetRead(p) \/ GetAnswer(p) \/ ListAnswer(p)
    BY <1>9 DEF GetAllowed, GetDenied, GetRead, GetAnswer, ListAnswer, Goto, Return, TypeOK
  <1> QED
    BY <1>1, <1>2, <1>3, <1>4, <1>5, <1>6, <1>7, <1>8, <1>9 DEF Handler

(* Only AllowPersist changes the sealed allowlist, and what it writes is   *)
(* the change of its request.                                              *)
LEMMA AllowDiskFrame ==
    ASSUME [Next]_vars, \A p \in Procs : ~AllowPersist(p)
    PROVE  UNCHANGED <<allowDisk, ever>>
  <1>1. CASE Boot \/ Crash \/ Shutdown \/ DailySnapshot \/ UNCHANGED vars
    BY <1>1 DEF Boot, Crash, ProcessEnds, Shutdown, DailySnapshot, PackAllow, PackAudit,
       PackKeys, vars, diskVars, obsVars
  <1>2. ASSUME NEW p \in Procs, Arrive(p) \/ LockWrite(p) \/ Handler(p)
        PROVE  UNCHANGED <<allowDisk, ever>>
    BY <1>2 DEF Arrive, LockWrite, Handler, VerifySeen, VerifySign, DelegateMember, AllowMutate,
       KeyHas, KeyWrite, LogWrite, PackAllow, PackAudit, PackKeys, GetAllowed,
       GetDenied, GetRead, GetAnswer, ListAnswer, diskVars, obsVars
  <1> QED
    BY <1>1, <1>2 DEF Next

(* What AllowPersist writes: the sealed allowlist with the change applied. *)
LEMMA PersistWrites ==
    ASSUME CoreInv, NEW p \in Procs, AllowPersist(p)
    PROVE  LET q == req[p] IN
           /\ q.role \in Roles /\ q.arg \in Measurements /\ q.op \in {"delegate", "revoke"}
           /\ \/ UNCHANGED <<allowDisk, ever>>
              \/ /\ allowDisk' = IF q.op = "delegate"
                                 THEN [allowDisk EXCEPT ![q.role] = @ \cup {q.arg}]
                                 ELSE [allowDisk EXCEPT ![q.role] = @ \ {q.arg}]
                 /\ ever' = [r \in Roles |-> ever[r] \cup allowDisk'[r]]
  <1> USE DEF CoreInv, WriteInv
  <1> DEFINE q == req[p]
  <1>1. q.role \in Roles /\ q.arg \in Measurements /\ q.op \in {"delegate", "revoke"}
    BY DEF AllowPersist, HandlerInv, OpsAt, WellFormed
  <1>2. pc[p] = "persist" /\ allowDisk = RolledBack(q) /\ allow = Mutated(q) /\ allow \in AllowMap
        /\ allowDisk \in AllowMap
    BY DEF AllowPersist, AllowInv, TypeOK
  <1>3. CASE UNCHANGED <<allowDisk, ever>>
    BY <1>1, <1>3
  <1>4. CASE allowDisk' = allow /\ ever' = [r \in Roles |-> ever[r] \cup allow[r]]
    <2>1. \A r \in Roles \ {q.role} : allowDisk[r] = allow[r]
      BY <1>1, <1>2 DEF RolledBack, AllowMap
    <2>2. q.op = "delegate" => allow[q.role] = allowDisk[q.role] \cup {q.arg}
      <3>1. q.op = "delegate" => allowDisk[q.role] = allow[q.role] \ {q.arg}
        BY <1>1, <1>2 DEF RolledBack, AllowMap
      <3>2. q.op = "delegate" => q.arg \in allow[q.role]
        BY <1>1, <1>2 DEF Mutated, AllowMap
      <3> QED
        BY <3>1, <3>2
    <2>3. q.op = "revoke" => allow[q.role] = allowDisk[q.role] \ {q.arg}
      <3>1. q.op = "revoke" => allowDisk[q.role] = allow[q.role] \cup {q.arg}
        BY <1>1, <1>2 DEF RolledBack, AllowMap
      <3>2. q.op = "revoke" => q.arg \notin allow[q.role]
        BY <1>1, <1>2 DEF Mutated, AllowMap
      <3> QED
        BY <3>1, <3>2
    <2>4. q.op = "delegate" => allow = [allowDisk EXCEPT ![q.role] = @ \cup {q.arg}]
      BY <1>1, <1>2, <2>1, <2>2 DEF AllowMap
    <2>5. q.op = "revoke" => allow = [allowDisk EXCEPT ![q.role] = @ \ {q.arg}]
      BY <1>1, <1>2, <2>1, <2>3 DEF AllowMap
    <2> QED
      BY <1>1, <1>4, <2>4, <2>5
  <1> QED
    BY <1>3, <1>4 DEF AllowPersist

(* The operator is at the root of every key and every allowlist.           *)
LEMMA RootedStep ==
    ASSUME CoreInv, AuthInv, DelegatorStillMember, RootedInOperator, [Next]_vars
    PROVE  RootedInOperator'
  <1> SUFFICES ASSUME NEW r \in Roles
               PROVE  /\ keyDisk'[r] # NoKey =>
                           \E s \in accepted' : s.op = "provision" /\ s.role = r /\ s.arg = keyDisk'[r]
                      /\ allowDisk'[r] # {} =>
                           \E s \in accepted' : s.op = "delegate" /\ s.role = r
    BY DEF RootedInOperator
  <1> USE DEF CoreInv, WriteInv
  <1>1. keyDisk'[r] # NoKey =>
          \E s \in accepted' : s.op = "provision" /\ s.role = r /\ s.arg = keyDisk'[r]
    <2>1. CASE keyDisk'[r] = keyDisk[r]
      BY <2>1, AcceptedGrows DEF RootedInOperator
    <2>2. ASSUME NEW p \in Procs, KeyWrite(p), keyDisk'[r] # keyDisk[r]
          PROVE  \E s \in accepted' : s.op = "provision" /\ s.role = r /\ s.arg = keyDisk'[r]
      <3>1. keyDisk' = [keyDisk EXCEPT ![req[p].role] = req[p].arg]
        BY <2>2 DEF KeyWrite
      <3>2. req[p].role = r /\ req[p].arg = keyDisk'[r]
        BY <2>2, <3>1 DEF TypeOK, KeyMap
      <3>3. req[p].op = "provision" /\ ProofOf(req[p]) \in accepted
        BY <2>2 DEF KeyWrite, HandlerInv, OpsAt, AuthInv, Unproven
      <3> QED
        BY <3>2, <3>3, AcceptedGrows DEF ProofOf
    <2> QED
      BY <2>1, <2>2, KeyFrame
  <1>2. allowDisk'[r] # {} => \E s \in accepted' : s.op = "delegate" /\ s.role = r
    <2>1. CASE allowDisk[r] # {}
      BY <2>1, AcceptedGrows DEF RootedInOperator
    <2>2. ASSUME NEW p \in Procs, AllowPersist(p), allowDisk[r] = {}, allowDisk'[r] # {}
          PROVE  \E s \in accepted' : s.op = "delegate" /\ s.role = r
      <3>1. req[p].role = r /\ req[p].op = "delegate"
        <4>1. allowDisk \in [Roles -> SUBSET Measurements]
          BY DEF TypeOK, AllowMap
        <4>2. req[p].op \in {"delegate", "revoke"} /\ req[p].role \in Roles
          BY <2>2, PersistWrites
        <4>3. CASE req[p].op = "delegate"
          <5>1. allowDisk' = [allowDisk EXCEPT ![req[p].role] = @ \cup {req[p].arg}]
            BY <2>2, <4>3, PersistWrites
          <5> QED
            BY <2>2, <4>1, <4>3, <5>1
        <4>4. CASE req[p].op = "revoke"
          <5>1. allowDisk' = [allowDisk EXCEPT ![req[p].role] = @ \ {req[p].arg}]
            BY <2>2, <4>4, PersistWrites
          <5> QED
            BY <2>2, <4>1, <4>2, <5>1
        <4> QED
          BY <4>2, <4>3, <4>4
      <3>2. pc[p] = "persist"
        BY <2>2 DEF AllowPersist
      <3>3. ~Unproven(req[p])
        BY <2>2, <3>1, <3>2 DEF DelegatorStillMember, Unproven
      <3> QED
        BY <3>1, <3>2, <3>3, AcceptedGrows DEF AuthInv, ProofOf
    <2> QED
      BY <2>1, <2>2, AllowDiskFrame
  <1> QED
    BY <1>1, <1>2

AuthorityInv == CoreInv /\ DelegatorStillMember /\ AuthInv /\ RootedInOperator

(* The authority of every write in flight and of everything stored.        *)
THEOREM AuthorityInvariant == Spec => []AuthorityInv
  <1>1. Init => AuthInv /\ RootedInOperator
    BY DEF Init, AuthInv, RootedInOperator
  <1>2. AuthorityInv /\ [Next]_vars => (AuthInv /\ RootedInOperator)'
    BY AuthStep, RootedStep DEF AuthorityInv
  <1> QED
    BY <1>1, <1>2, CoreInvariant, DelegationsAreVouched, PTL DEF Spec, AuthorityInv

(* Every stored key and every non-empty allowlist goes back to an operator *)
(* proof that breakGlass.Verify accepted for that role and key, across     *)
(* restarts, failed writes and any delegation by peers.                    *)
THEOREM StateIsRootedInOperator == Spec => []RootedInOperator
  <1>1. AuthorityInv => RootedInOperator
    BY DEF AuthorityInv
  <1> QED
    BY <1>1, AuthorityInvariant, PTL

-----------------------------------------------------------------------------
(* The nonces of breakGlass.                                               *)

(* A nonce that was not seen was not used, and one whose write is being    *)
(* verified has not been seen.                                             *)
NonceInv ==
    /\ \A n \in Nonces : n \notin seen => uses[n] = 0
    /\ \A p \in Procs : pc[p] = "signature" /\ req[p].op \in WriteOps /\ Signed(req[p])
                          => req[p].nonce \notin seen

(* Only Boot, the end of the process and a signature that verifies touch   *)
(* the nonces.                                                             *)
LEMMA NonceFrame ==
    ASSUME [Next]_vars, \A p \in Procs : ~VerifySign(p), ~Boot, ~Crash
    PROVE  UNCHANGED <<seen, uses>>
  <1>1. CASE Shutdown \/ DailySnapshot \/ UNCHANGED vars
    BY <1>1 DEF Shutdown, DailySnapshot, PackAllow, PackAudit,
       PackKeys, vars, memVars, obsVars
  <1>2. ASSUME NEW p \in Procs, Arrive(p) \/ LockWrite(p) \/ Handler(p)
        PROVE  UNCHANGED <<seen, uses>>
    BY <1>2 DEF Arrive, LockWrite, Handler, VerifySeen, DelegateMember, AllowMutate,
       AllowPersist, KeyHas, KeyWrite, LogWrite, PackAllow, PackAudit, PackKeys, GetAllowed,
       GetDenied, GetRead, GetAnswer, ListAnswer, memVars, obsVars
  <1> QED
    BY <1>1, <1>2 DEF Next

(* Who is about to check a signature has just looked its nonce up, and the *)
(* write handlers do not overtake each other there.                        *)
LEMMA NonceStep ==
    ASSUME CoreInv, NonceInv, WriteProofUsedOnce, [Next]_vars
    PROVE  NonceInv' /\ WriteProofUsedOnce'
  <1> USE DEF CoreInv, WriteInv
  <1>1. CASE Boot \/ Crash
    <2>1. /\ seen' = {} /\ uses' = [n \in Nonces |-> 0]
      BY <1>1 DEF Boot, Crash, ProcessEnds
    <2>2. \A s \in SignedProofs : s.nonce \in Nonces
      BY DEF ProofType
    <2>3. \A p \in Procs : pc'[p] = "signature" => req'[p].nonce \notin seen'
      BY <2>1
    <2> QED
      BY <2>1, <2>2, <2>3 DEF NonceInv, WriteProofUsedOnce
  <1>2. ASSUME NEW p \in Procs, VerifySign(p), Signed(req[p])
        PROVE  NonceInv' /\ WriteProofUsedOnce'
    <2> DEFINE n == req[p].nonce
    <2>1. /\ seen' = seen \cup {n} /\ uses' = [uses EXCEPT ![n] = @ + 1] /\ req' = req
          /\ pc'[p] # "signature" /\ \A q \in Procs \ {p} : pc'[q] = pc[q]
      BY <1>2 DEF VerifySign, Goto, TypeOK
    <2>2. ProofOf(req[p]) \in SignedProofs /\ n \in Nonces /\ uses \in [Nonces -> Nat]
      BY <1>2 DEF Signed, ProofOf, ProofType, TypeOK
    <2>3. ASSUME NEW s \in SignedProofs, s.op \in WriteOps
          PROVE  uses'[s.nonce] <= 1
      <3>1. s.nonce \in Nonces
        BY DEF ProofType
      <3>2. CASE s.nonce # n
        BY <2>1, <2>2, <2>3, <3>1, <3>2 DEF WriteProofUsedOnce
      <3>3. CASE s.nonce = n
        <4>1. s = ProofOf(req[p])
          BY <2>2, <3>3 DEF ProofOf
        <4>2. req[p].op \in WriteOps
          BY <2>3, <4>1 DEF ProofOf
        <4>3. uses[n] = 0
          BY <1>2, <2>2, <4>2 DEF NonceInv, VerifySign
        <4> QED
          BY <2>1, <2>2, <3>3, <4>3
      <3> QED
        BY <3>2, <3>3
    <2>4. \A m \in Nonces : m \notin seen' => uses'[m] = 0
      BY <2>1, <2>2 DEF NonceInv
    <2>5. ASSUME NEW q \in Procs, pc'[q] = "signature", req[q].op \in WriteOps, Signed(req[q])
          PROVE  req[q].nonce \notin seen'
      <3>1. q # p /\ pc[q] = "signature"
        BY <2>1, <2>5
      <3>2. req[q].nonce \notin seen
        BY <2>5, <3>1 DEF NonceInv
      <3>3. CASE req[q].nonce = n
        <4>1. ProofOf(req[q]) = ProofOf(req[p])
          BY <2>2, <2>5, <3>3 DEF Signed, ProofOf
        <4>2. req[p].op \in WriteOps
          BY <2>5, <4>1 DEF ProofOf
        <4>3. writeMu = p /\ writeMu = q
          BY <1>2, <2>5, <3>1, <4>2 DEF MutexInv, InCritical, VerifySign
        <4> QED
          BY <3>1, <4>3
      <3> QED
        BY <2>1, <3>2, <3>3
    <2> QED
      BY <2>1, <2>3, <2>4, <2>5 DEF NonceInv, WriteProofUsedOnce, Signed, ProofOf
  <1>3. CASE UNCHANGED <<seen, uses>>
    <2>1. WriteProofUsedOnce'
      BY <1>3 DEF WriteProofUsedOnce
    <2>2. ASSUME NEW p \in Procs, pc'[p] = "signature"
          PROVE  \/ pc[p] = "signature" /\ req'[p] = req[p]
                 \/ req'[p].nonce \notin seen
      <3>1. CASE ~LockWrite(p) /\ ~Handler(p) /\ ~Arrive(p)
        BY <2>2, <3>1, Undisturbed
      <3>2. CASE Arrive(p) \/ LockWrite(p)
        BY <2>2, <3>2 DEF Arrive, LockWrite, Goto, TypeOK
      <3>3. CASE VerifySeen(p)
        BY <2>2, <3>3 DEF VerifySeen, Goto, Return, TypeOK
      <3>4. CASE VerifySign(p) \/ DelegateMember(p) \/ KeyHas(p) \/ KeyWrite(p) \/ LogWrite(p)
        BY <2>2, <3>4 DEF VerifySign, DelegateMember, KeyHas, KeyWrite, LogWrite, Goto, Return, TypeOK
      <3>5. CASE AllowMutate(p) \/ AllowPersist(p)
        BY <2>2, <3>5 DEF AllowMutate, AllowPersist, Goto, Return, TypeOK
      <3>6. CASE PackAllow(p)
        BY <2>2, <3>6 DEF PackAllow
      <3>7. CASE PackAudit(p)
        BY <2>2, <3>7 DEF PackAudit
      <3>8. CASE PackKeys(p)
        BY <2>2, <3>8 DEF PackKeys, Return, TypeOK
      <3>9. CASE GetAllowed(p) \/ GetDenied(p) \/ GetRead(p) \/ GetAnswer(p) \/ ListAnswer(p)
        BY <2>2, <3>9 DEF GetAllowed, GetDenied, GetRead, GetAnswer, ListAnswer, Goto, Return, TypeOK
      <3> QED
        BY <3>1, <3>2, <3>3, <3>4, <3>5, <3>6, <3>7, <3>8, <3>9 DEF Handler
    <2>3. NonceInv'
      BY <1>3, <2>2 DEF NonceInv, Signed, ProofOf
    <2> QED
      BY <2>1, <2>3
  <1>4. ASSUME NEW p \in Procs, VerifySign(p), ~Signed(req[p])
        PROVE  UNCHANGED <<seen, uses>>
    BY <1>4 DEF VerifySign
  <1> QED
    BY <1>1, <1>2, <1>3, <1>4, NonceFrame

(* breakGlass.Verify accepts a proof for a write at most once in a process *)
(* lifetime, although looking a nonce up and inserting it are two steps.   *)
THEOREM WriteProofsAreUsedOnce == Spec => []WriteProofUsedOnce
  <1>1. Init => NonceInv /\ WriteProofUsedOnce
    BY DEF Init, NonceInv, WriteProofUsedOnce, ProofType
  <1>2. CoreInv /\ NonceInv /\ WriteProofUsedOnce /\ [Next]_vars => (NonceInv /\ WriteProofUsedOnce)'
    BY NonceStep
  <1> QED
    BY <1>1, <1>2, CoreInvariant, PTL DEF Spec

-----------------------------------------------------------------------------
(* The release of keys, and the custody contract.                          *)

(* What handleGet knows about its caller and its key: an enclave that is   *)
(* on the sealed allowlist is noted, who was noted was on it once, past    *)
(* the check the caller was noted, and the key held is the stored one.     *)
GetInv ==
    /\ \A r \in Roles : allowDisk[r] \subseteq ever[r]
    /\ \A p \in Procs : pc[p] \in {"allowed", "denied", "read", "answer"} =>
         /\ req[p].peer \in allowDisk[req[p].role] => memb[p]
         /\ memb[p] => req[p].peer \in ever[req[p].role]
    /\ \A p \in Procs : pc[p] = "answer" =>
         held[p] = keyDisk[req[p].role] /\ keyDisk[req[p].role] # NoKey

Getting == {"allowed", "denied", "read", "answer"}

(* Every enclave on the sealed allowlist has been on it.                   *)
LEMMA EverStep ==
    ASSUME CoreInv, GetInv, [Next]_vars
    PROVE  \A r \in Roles : allowDisk'[r] \subseteq ever'[r] /\ ever[r] \subseteq ever'[r]
  <1>1. ASSUME NEW p \in Procs, AllowPersist(p)
        PROVE  \A r \in Roles : allowDisk'[r] \subseteq ever'[r] /\ ever[r] \subseteq ever'[r]
    <2>1. \/ UNCHANGED <<allowDisk, ever>>
          \/ ever' = [r \in Roles |-> ever[r] \cup allowDisk'[r]]
      BY <1>1, PersistWrites
    <2> QED
      BY <2>1 DEF GetInv
  <1> QED
    BY <1>1, AllowDiskFrame DEF GetInv

(* The note of membership changes only for the request itself and when the *)
(* sealed allowlist is written.                                            *)
LEMMA MembFrame ==
    ASSUME CoreInv, [Next]_vars, \A q \in Procs : ~AllowPersist(q),
           NEW p \in Procs, ~Arrive(p), pc'[p] # "idle"
    PROVE  memb'[p] = memb[p] /\ req'[p] = req[p]
  <1> USE DEF CoreInv, WriteInv
  <1>1. CASE Boot \/ Crash
    BY <1>1 DEF Boot, Crash, ProcessEnds
  <1>2. CASE Shutdown \/ DailySnapshot \/ UNCHANGED vars
    BY <1>2 DEF Shutdown, DailySnapshot, PackAllow, PackAudit, PackKeys, vars, obsVars
  <1>3. ASSUME NEW q \in Procs, Arrive(q)
        PROVE  memb'[p] = memb[p] /\ req'[p] = req[p]
    BY <1>3, ZenonT(40) DEF Arrive, TypeOK
  <1>4. ASSUME NEW q \in Procs, Return(q)
        PROVE  memb'[p] = memb[p] /\ req'[p] = req[p]
    BY <1>4 DEF Return, TypeOK
  <1>5. ASSUME NEW q \in Procs, LockWrite(q) \/ Handler(q), ~Return(q)
        PROVE  memb'[p] = memb[p] /\ req'[p] = req[p]
    <2>1. CASE LockWrite(q) \/ VerifySeen(q) \/ VerifySign(q) \/ DelegateMember(q) \/ AllowMutate(q)
      BY <1>5, <2>1 DEF LockWrite, VerifySeen, VerifySign, DelegateMember, AllowMutate, obsVars
    <2>2. CASE KeyHas(q) \/ KeyWrite(q) \/ LogWrite(q) \/ PackAllow(q) \/ PackAudit(q) \/ PackKeys(q)
      BY <1>5, <2>2 DEF KeyHas, KeyWrite, LogWrite, PackAllow, PackAudit, PackKeys, obsVars
    <2>3. CASE GetAllowed(q) \/ GetDenied(q) \/ GetRead(q) \/ GetAnswer(q) \/ ListAnswer(q)
      BY <1>5, <2>3 DEF GetAllowed, GetDenied, GetRead, GetAnswer, ListAnswer, obsVars
    <2> QED
      BY <1>5, <2>1, <2>2, <2>3 DEF Handler
  <1> QED
    BY <1>1, <1>2, <1>3, <1>4, <1>5 DEF Next

(* A handler at the control points of get came there by its request or by  *)
(* the check, the read and the answer in turn.                             *)
LEMMA GetFlow ==
    ASSUME CoreInv, [Next]_vars, NEW p \in Procs, pc'[p] \in Getting, ~Arrive(p)
    PROVE  /\ pc[p] \in Getting /\ req'[p] = req[p]
           /\ pc'[p] = "read" => pc[p] = "read" \/ GetAllowed(p)
           /\ pc'[p] = "answer" => \/ pc[p] = "answer" /\ held'[p] = held[p]
                                   \/ GetRead(p)
  <1> USE DEF CoreInv, WriteInv, Getting
  <1>1. CASE ~LockWrite(p) /\ ~Handler(p)
    <2>1. pc'[p] = pc[p] /\ req'[p] = req[p]
      BY <1>1, Undisturbed
    <2>2. held'[p] = held[p]
      <3>1. CASE Boot \/ Crash
        BY <3>1 DEF Boot, Crash, ProcessEnds
      <3>2. CASE Shutdown \/ DailySnapshot \/ UNCHANGED vars
        BY <3>2 DEF Shutdown, DailySnapshot, PackAllow, PackAudit, PackKeys, vars
      <3>3. ASSUME NEW q \in Procs, Arrive(q)
            PROVE  held'[p] = held[p]
        BY <3>3 DEF Arrive
      <3>4. ASSUME NEW q \in Procs \ {p}, LockWrite(q) \/ Handler(q)
            PROVE  held'[p] = held[p]
        <4>1. CASE Return(q) \/ UNCHANGED held
          BY <4>1 DEF Return, TypeOK
        <4>2. CASE GetRead(q)
          BY <4>1, <4>2 DEF GetRead, TypeOK
        <4>3. CASE LockWrite(q) \/ VerifySeen(q) \/ VerifySign(q) \/ DelegateMember(q) \/ AllowMutate(q)
          BY <4>1, <4>3 DEF LockWrite, VerifySeen, VerifySign, DelegateMember, AllowMutate
        <4>4. CASE AllowPersist(q) \/ KeyHas(q) \/ KeyWrite(q) \/ LogWrite(q) \/ PackAllow(q)
                   \/ PackAudit(q) \/ PackKeys(q)
          BY <4>1, <4>4 DEF AllowPersist, KeyHas, KeyWrite, LogWrite, PackAllow, PackAudit, PackKeys
        <4>5. CASE GetAllowed(q) \/ GetDenied(q) \/ GetAnswer(q) \/ ListAnswer(q)
          BY <4>1, <4>5 DEF GetAllowed, GetDenied, GetAnswer, ListAnswer
        <4> QED
          BY <3>4, <4>2, <4>3, <4>4, <4>5 DEF Handler
      <3> QED
        BY <1>1, <3>1, <3>2, <3>3, <3>4 DEF Next
    <2> QED
      BY <2>1, <2>2
  <1>2. CASE Return(p)
    BY <1>2 DEF Return, TypeOK
  <1>3. CASE LockWrite(p) \/ VerifySeen(p) \/ VerifySign(p) \/ DelegateMember(p)
    BY <1>2, <1>3 DEF LockWrite, VerifySeen, VerifySign, DelegateMember, Goto, TypeOK
  <1>4. CASE AllowMutate(p) \/ AllowPersist(p) \/ KeyHas(p) \/ KeyWrite(p) \/ LogWrite(p)
    BY <1>2, <1>4 DEF AllowMutate, AllowPersist, KeyHas, KeyWrite, LogWrite, Goto, TypeOK
  <1>5. CASE PackAllow(p)
    BY <1>5 DEF PackAllow
  <1>6. CASE PackAudit(p) \/ PackKeys(p)
    BY <1>2, <1>6 DEF PackAudit, PackKeys
  <1>7. CASE GetAllowed(p)
    BY <1>7 DEF GetAllowed, Goto, TypeOK
  <1>8. CASE GetRead(p)
    BY <1>2, <1>8 DEF GetRead, Goto, TypeOK
  <1>9. CASE GetDenied(p) \/ GetAnswer(p) \/ ListAnswer(p)
    BY <1>2, <1>9 DEF GetDenied, GetAnswer, ListAnswer
  <1> QED
    BY <1>1, <1>3, <1>4, <1>5, <1>6, <1>7, <1>8, <1>9 DEF Handler

(* handleGet keeps what it knows about its caller and its key.             *)
LEMMA GetStep ==
    ASSUME CoreInv, GetInv, NoUncommittedRelease, [Next]_vars
    PROVE  GetInv' /\ NoUncommittedRelease'
  <1> USE DEF CoreInv, WriteInv, Getting
  <1>0. TypeOK'
    BY TypeStep
  <1>1. ASSUME NEW p \in Procs, pc'[p] \in Getting
        PROVE  /\ req'[p].role \in Roles
               /\ req'[p].peer \in allowDisk'[req'[p].role] => memb'[p]
               /\ memb'[p] => req'[p].peer \in ever'[req'[p].role]
    <2>0. req'[p].role \in Roles
      <3>1. HandlerInv'
        BY HandlerStep
      <3> QED
        BY <1>1, <3>1 DEF HandlerInv, OpsAt, WellFormed
    <2>1. CASE Arrive(p)
      <3>1. PICK q \in Requests :
              /\ req' = [req EXCEPT ![p] = q]
              /\ memb' = [memb EXCEPT ![p] = q.op = "get" /\ q.peer \in allowDisk[q.role]]
              /\ Goto(p, CASE q.op = "get" -> "allowed" [] q.op = "list" -> "verify" [] OTHER -> "lock")
        BY <2>1 DEF Arrive
      <3>2. UNCHANGED <<allowDisk, ever>>
        BY <2>1 DEF Arrive, diskVars
      <3>3. req'[p] = q /\ q.op = "get" /\ memb'[p] = (q.peer \in allowDisk[q.role])
        BY <1>1, <3>1 DEF Goto, TypeOK
      <3> QED
        BY <2>0, <3>2, <3>3 DEF GetInv
    <2>2. CASE ~Arrive(p) /\ \A q \in Procs : ~AllowPersist(q)
      <3>1. pc[p] \in Getting /\ req'[p] = req[p] /\ memb'[p] = memb[p]
        BY <1>1, <2>2, GetFlow, MembFrame
      <3>2. UNCHANGED <<allowDisk, ever>>
        BY <2>2, AllowDiskFrame
      <3> QED
        BY <2>0, <3>1, <3>2 DEF GetInv
    <2>3. ASSUME NEW q \in Procs, AllowPersist(q), ~Arrive(p)
          PROVE  /\ req'[p].peer \in allowDisk'[req'[p].role] => memb'[p]
                 /\ memb'[p] => req'[p].peer \in ever'[req'[p].role]
      <3>1. pc[p] \in Getting /\ req'[p] = req[p]
        BY <1>1, <2>3, GetFlow
      <3>2. req[p].op = "get" /\ pc[p] # "idle"
        BY <3>1 DEF HandlerInv, OpsAt
      <3>3. CASE /\ allowDisk' = allow
                 /\ ever' = [r \in Roles |-> ever[r] \cup allow[r]]
                 /\ memb' = [x \in Procs |-> memb[x] \/ (pc[x] # "idle" /\ req[x].op = "get"
                                                /\ req[x].peer \in allow[req[x].role])]
        <4>1. memb'[p] = (memb[p] \/ req[p].peer \in allow[req[p].role])
          BY <3>2, <3>3
        <4>2. memb[p] => req[p].peer \in ever[req[p].role]
          BY <3>1 DEF GetInv
        <4> QED
          BY <2>0, <3>1, <3>3, <4>1, <4>2
      <3>4. CASE Return(q) /\ UNCHANGED <<allowDisk, ever>>
        <4>1. memb'[p] = memb[p]
          BY <1>1, <3>4 DEF Return, TypeOK
        <4> QED
          BY <3>1, <3>4, <4>1 DEF GetInv
      <3> QED
        BY <2>3, <3>3, <3>4 DEF AllowPersist
    <2> QED
      BY <2>0, <2>1, <2>2, <2>3
  <1>2. ASSUME NEW p \in Procs, pc'[p] = "answer"
        PROVE  held'[p] = keyDisk'[req'[p].role] /\ keyDisk'[req'[p].role] # NoKey
    <2>1. ~Arrive(p)
      BY <1>2 DEF Arrive, Goto, TypeOK
    <2>2. req'[p] = req[p] /\ req[p].role \in Roles
      BY <1>1, <1>2, <2>1, GetFlow
    <2>3. CASE pc[p] = "answer" /\ held'[p] = held[p]
      <3>1. held[p] = keyDisk[req[p].role] /\ keyDisk[req[p].role] # NoKey
        BY <2>3 DEF GetInv
      <3> QED
        BY <2>2, <2>3, <3>1, WriteOnceStep
    <2>4. CASE GetRead(p)
      BY <1>2, <2>2, <2>4 DEF GetRead, Return, TypeOK, diskVars
    <2> QED
      BY <1>2, <2>1, <2>3, <2>4, GetFlow
  <1>3. ASSUME NEW p \in Procs, pc'[p] \in {"read", "answer"}
        PROVE  memb'[p]
    <2>1. ~Arrive(p)
      BY <1>3 DEF Arrive, Goto, TypeOK
    <2>2. CASE pc[p] \in {"read", "answer"}
      <3>1. memb[p]
        BY <2>2 DEF NoUncommittedRelease
      <3>2. CASE \A q \in Procs : ~AllowPersist(q)
        BY <1>3, <2>1, <3>1, <3>2, MembFrame
      <3>3. ASSUME NEW q \in Procs, AllowPersist(q)
            PROVE  memb'[p]
        BY <1>3, <3>1, <3>3 DEF AllowPersist, Return, TypeOK
      <3> QED
        BY <3>2, <3>3
    <2>3. CASE GetAllowed(p)
      <3>1. req[p].peer \in allow[req[p].role] /\ allow = allowDisk /\ pc[p] = "allowed"
            /\ UNCHANGED memb
        BY <1>3, <2>3 DEF GetAllowed, Goto, TypeOK, AllowInv, obsVars
      <3> QED
        BY <3>1 DEF GetInv
    <2> QED
      BY <1>3, <2>1, <2>2, <2>3, GetFlow DEF GetRead
  <1> QED
    BY <1>1, <1>2, <1>3, EverStep DEF GetInv, NoUncommittedRelease

ReleaseInv == CoreInv /\ GetInv /\ NoUncommittedRelease

(* What handleGet knows about its caller and its key holds throughout.     *)
THEOREM ReleaseInvariant == Spec => []ReleaseInv
  <1>1. Init => GetInv /\ NoUncommittedRelease
    BY DEF Init, GetInv, NoUncommittedRelease
  <1>2. ReleaseInv /\ [Next]_vars => (GetInv /\ NoUncommittedRelease)'
    BY GetStep DEF ReleaseInv
  <1> QED
    BY <1>1, <1>2, CoreInvariant, PTL DEF Spec, ReleaseInv

(* A step that touches neither the sealed keys and allowlist nor what was  *)
(* handed out.                                                             *)
LEMMA CustodyFrame ==
    ASSUME [Next]_vars, \A p \in Procs : ~KeyWrite(p) /\ ~AllowPersist(p) /\ ~GetAnswer(p)
    PROVE  UNCHANGED <<keyDisk, allowDisk, ever, released>>
  <1>1. UNCHANGED <<keyDisk, allowDisk, ever>>
    BY KeyFrame, AllowDiskFrame
  <1>2. UNCHANGED released
    <2>1. CASE Boot \/ Crash \/ Shutdown \/ DailySnapshot \/ UNCHANGED vars
      BY <2>1 DEF Boot, Crash, ProcessEnds, Shutdown, DailySnapshot, PackAllow, PackAudit,
         PackKeys, vars, obsVars
    <2>2. ASSUME NEW p \in Procs, Arrive(p) \/ LockWrite(p) \/ Handler(p)
          PROVE  UNCHANGED released
      BY <2>2 DEF Arrive, LockWrite, Handler, VerifySeen, VerifySign, DelegateMember, AllowMutate,
         KeyHas, LogWrite, PackAllow, PackAudit, PackKeys, GetAllowed,
         GetDenied, GetRead, ListAnswer, obsVars
    <2> QED
      BY <2>1, <2>2 DEF Next
  <1> QED
    BY <1>1, <1>2

(* Every step of the keystore is a step of the custody contract or none.   *)
LEMMA CustodyStep ==
    ASSUME AuthorityInv, ReleaseInv, [Next]_vars
    PROVE  [Custody!Next]_(Custody!cvars)
  <1> USE DEF AuthorityInv, ReleaseInv, CoreInv, WriteInv
  <1> DEFINE Pairs(o) == {<<s.role, s.arg>> : s \in {t \in SignedProofs : t.op = o}}
  <1>0. ASSUME NEW p \in Procs, ProofOf(req[p]) \in accepted
        PROVE  <<req[p].role, req[p].arg>> \in Pairs(req[p].op)
    <2>1. ProofOf(req[p]) \in {t \in SignedProofs : t.op = req[p].op}
      BY <1>0 DEF TypeOK, ProofOf
    <2> QED
      BY <2>1 DEF ProofOf
  <1>1. ASSUME NEW p \in Procs, KeyWrite(p)
        PROVE  [Custody!Next]_(Custody!cvars)
    <2> DEFINE r == req[p].role
               k == req[p].arg
    <2>1. UNCHANGED <<allowDisk, ever, released>>
      BY <1>1 DEF KeyWrite
    <2>2. r \in Roles /\ k \in Keys /\ req[p].op = "provision" /\ pc[p] = "store"
      BY <1>1 DEF KeyWrite, HandlerInv, OpsAt, WellFormed
    <2>3. keyDisk[r] = NoKey /\ <<r, k>> \in Pairs("provision")
      BY <1>0, <2>2 DEF KeyInv, AuthInv, Unproven
    <2>4. CASE keyDisk' = [keyDisk EXCEPT ![r] = k]
      <3>1. Custody!Install(r, k)
        BY <2>1, <2>3, <2>4 DEF Custody!Install
      <3> QED
        BY <2>2, <3>1 DEF Custody!Next
    <2>5. CASE UNCHANGED keyDisk
      BY <2>1, <2>5 DEF Custody!cvars
    <2> QED
      BY <1>1, <2>4, <2>5 DEF KeyWrite
  <1>2. ASSUME NEW p \in Procs, AllowPersist(p)
        PROVE  [Custody!Next]_(Custody!cvars)
    <2> DEFINE r == req[p].role
               m == req[p].arg
    <2>1. UNCHANGED <<keyDisk, released>> /\ pc[p] = "persist"
      BY <1>2 DEF AllowPersist
    <2>2. r \in Roles /\ m \in Measurements /\ req[p].op \in {"delegate", "revoke"}
      BY <1>2, PersistWrites
    <2>t. allowDisk \in [Roles -> SUBSET Measurements] /\ ever \in [Roles -> SUBSET Measurements]
          /\ \A x \in Roles : allowDisk[x] \subseteq ever[x]
      BY DEF TypeOK, AllowMap, GetInv
    <2>3. CASE UNCHANGED <<allowDisk, ever>>
      BY <2>1, <2>3 DEF Custody!cvars
    <2>4. CASE req[p].op = "delegate" /\ allowDisk' = [allowDisk EXCEPT ![r] = @ \cup {m}]
               /\ ever' = [x \in Roles |-> ever[x] \cup allowDisk'[x]]
      <3>1. <<r, m>> \in Pairs("delegate") \/ allowDisk[r] # {}
        BY <1>0, <2>1, <2>4 DEF AuthInv, DelegatorStillMember, Unproven
      <3>2. ever' = [ever EXCEPT ![r] = @ \cup {m}]
        BY <2>2, <2>t, <2>4
      <3>3. Custody!Grant(r, m)
        BY <2>1, <2>4, <3>1, <3>2 DEF Custody!Grant
      <3> QED
        BY <2>2, <3>3 DEF Custody!Next
    <2>5. CASE req[p].op = "revoke" /\ allowDisk' = [allowDisk EXCEPT ![r] = @ \ {m}]
               /\ ever' = [x \in Roles |-> ever[x] \cup allowDisk'[x]]
      <3>1. <<r, m>> \in Pairs("revoke")
        BY <1>0, <2>1, <2>5 DEF AuthInv, Unproven
      <3>2. ever' = ever
        BY <2>2, <2>t, <2>5
      <3>3. Custody!Withdraw(r, m)
        BY <2>1, <2>5, <3>1, <3>2 DEF Custody!Withdraw
      <3> QED
        BY <2>2, <3>3 DEF Custody!Next
    <2> QED
      BY <1>2, <2>2, <2>3, <2>4, <2>5, PersistWrites
  <1>3. ASSUME NEW p \in Procs, GetAnswer(p)
        PROVE  [Custody!Next]_(Custody!cvars)
    <2> DEFINE r == req[p].role
               m == req[p].peer
    <2>1. /\ UNCHANGED <<keyDisk, allowDisk, ever>> /\ pc[p] = "answer"
          /\ released' = released \cup {[role |-> r, peer |-> m, key |-> held[p]]}
      BY <1>3 DEF GetAnswer
    <2>2. r \in Roles /\ m \in Measurements
      BY <2>1 DEF HandlerInv, OpsAt, WellFormed, TypeOK, RequestType
    <2>3. held[p] = keyDisk[r] /\ keyDisk[r] # NoKey /\ m \in ever[r]
      BY <2>1 DEF GetInv, NoUncommittedRelease
    <2>4. Custody!Release(r, m)
      BY <2>1, <2>3 DEF Custody!Release
    <2> QED
      BY <2>2, <2>4 DEF Custody!Next
  <1> QED
    BY <1>1, <1>2, <1>3, CustodyFrame DEF Custody!cvars

(* The sealed files and the keys handed out behave as KeyCustody says:     *)
(* keys are installed once on the operator's word, enclaves are admitted   *)
(* by the operator or by a role with members, only the operator removes    *)
(* them, and a key goes only to an enclave that was admitted.              *)
THEOREM KeystoreImplementsCustody == Spec => CustodySpec
  <1>1. Init => Custody!Init
    BY DEF Init, Custody!Init
  <1>2. AuthorityInv /\ ReleaseInv /\ [Next]_vars => [Custody!Next]_(Custody!cvars)
    BY CustodyStep
  <1> QED
    BY <1>1, <1>2, AuthorityInvariant, ReleaseInvariant, PTL DEF Spec, CustodySpec, Custody!Spec

-----------------------------------------------------------------------------
(* The audit log.                                                          *)

(* auditLog.Append continues a chain.                                      *)
LEMMA ChainAppend ==
    ASSUME NEW log \in Seq(AuditEntry), verifyChain(log), NEW action, NEW role, NEW actor, NEW detail
    PROVE  verifyChain(Append(log, NewEntry(log, action, role, actor, detail)))
  <1> DEFINE e == NewEntry(log, action, role, actor, detail)
             new == Append(log, e)
  <1>1. e.seq = Len(log) + 1 /\ e.prev = IF Len(log) = 0 THEN Genesis ELSE Digest(log[Len(log)])
    <2>1. CASE log = <<>>
      BY <2>1 DEF NewEntry
    <2>2. CASE log # <<>>
      <3>1. Len(log) \in Nat /\ Len(log) # 0 /\ Len(log) \in DOMAIN log
        BY <2>2
      <3>2. log[Len(log)].seq = Len(log)
        BY <3>1 DEF verifyChain
      <3> QED
        BY <2>2, <3>1, <3>2 DEF NewEntry
    <2> QED
      BY <2>1, <2>2
  <1> HIDE DEF e
  <1>2. /\ DOMAIN new = 1..(Len(log) + 1) /\ new[Len(log) + 1] = e
        /\ \A i \in 1..Len(log) : new[i] = log[i]
    OBVIOUS
  <1>3. Len(log) \in Nat /\ DOMAIN log = 1..Len(log)
    OBVIOUS
  <1> HIDE DEF new
  <1>4. SUFFICES ASSUME NEW i \in 1..(Len(log) + 1)
                 PROVE  new[i].seq = i /\ new[i].prev = IF i = 1 THEN Genesis ELSE Digest(new[i - 1])
    BY <1>2 DEF verifyChain, new, e
  <1>5. CASE i = Len(log) + 1
    <2>1. i # 1 => i - 1 = Len(log) /\ i - 1 \in 1..Len(log)
      BY <1>3, <1>5
    <2>2. i = 1 <=> Len(log) = 0
      BY <1>3, <1>5
    <2> QED
      BY <1>1, <1>2, <1>5, <2>1, <2>2
  <1>6. CASE i \in 1..Len(log)
    <2>1. i # 1 => i - 1 \in 1..Len(log)
      BY <1>3, <1>6
    <2>2. log[i].seq = i /\ log[i].prev = IF i = 1 THEN Genesis ELSE Digest(log[i - 1])
      BY <1>3, <1>6 DEF verifyChain
    <2> QED
      BY <1>2, <1>6, <2>1, <2>2
  <1> QED
    BY <1>3, <1>5, <1>6

(* The entries that record no change of keys or allowlist.                 *)
Notes == {"startup", "shutdown", "get", "get-denied"}

Appended(action, role, actor, detail) ==
    auditDisk' = Append(auditDisk, NewEntry(auditDisk, action, role, actor, detail))

(* The audit file changes by one entry at a time, which records the write  *)
(* of the handler that makes it or no write at all.                        *)
LEMMA LogGrows ==
    ASSUME CoreInv, AuditChainIntact, [Next]_vars
    PROVE  \/ auditDisk' = auditDisk
           \/ \E p \in Procs : LET q == req[p] IN
                /\ LogWrite(p)
                /\ Appended(q.op, q.role, IF q.nonce = None THEN q.peer ELSE None, q.arg)
           \/ \E action \in Notes, role \in Roles \cup {None}, actor \in Measurements \cup {None} :
                Appended(action, role, actor, None)
  <1> USE DEF CoreInv, WriteInv
  <1>a. ASSUME NEW p \in Procs, pc[p] # "idle"
        PROVE  entries = auditDisk
    BY <1>a DEF AllowInv, AuditChainIntact
  <1>1. CASE Boot
    BY <1>1 DEF Boot, Appended, Notes
  <1>2. CASE Shutdown
    <2>1. entries = auditDisk
      BY <1>2 DEF Shutdown, AuditChainIntact
    <2> QED
      BY <1>2, <2>1 DEF Shutdown, AuditAppend, Appended, Notes
  <1>3. CASE Crash \/ DailySnapshot \/ UNCHANGED vars
    BY <1>3 DEF Crash, ProcessEnds, DailySnapshot, PackAllow, PackAudit, PackKeys, vars, diskVars
  <1>4. ASSUME NEW p \in Procs, LogWrite(p)
        PROVE  \/ auditDisk' = auditDisk
               \/ LET q == req[p] IN
                  /\ LogWrite(p)
                  /\ Appended(q.op, q.role, IF q.nonce = None THEN q.peer ELSE None, q.arg)
    <2>1. entries = auditDisk
      BY <1>4, <1>a DEF LogWrite
    <2> QED
      BY <1>4, <2>1 DEF LogWrite, AuditAppend, Appended
  <1>5. ASSUME NEW p \in Procs, GetDenied(p) \/ GetAnswer(p)
        PROVE  \/ auditDisk' = auditDisk
               \/ \E action \in Notes, role \in Roles \cup {None}, actor \in Measurements \cup {None} :
                    Appended(action, role, actor, None)
    <2>1. entries = auditDisk
      BY <1>5, <1>a DEF GetDenied, GetAnswer
    <2>2. req[p].role \in Roles \cup {None} /\ req[p].peer \in Measurements \cup {None}
      BY DEF TypeOK, RequestType
    <2>3. CASE GetDenied(p)
      BY <2>1, <2>2, <2>3 DEF GetDenied, AuditAppend, Appended, Notes
    <2>4. CASE GetAnswer(p)
      BY <2>1, <2>2, <2>4 DEF GetAnswer, AuditAppend, Appended, Notes
    <2> QED
      BY <1>5, <2>3, <2>4
  <1>6. ASSUME NEW p \in Procs, Arrive(p) \/ LockWrite(p) \/ Handler(p),
               ~LogWrite(p), ~GetDenied(p), ~GetAnswer(p)
        PROVE  auditDisk' = auditDisk
    BY <1>6 DEF Arrive, LockWrite, Handler, VerifySeen, VerifySign, DelegateMember, AllowMutate,
       AllowPersist, KeyHas, KeyWrite, PackAllow, PackAudit, PackKeys, GetAllowed,
       GetRead, ListAnswer, diskVars
  <1> QED
    BY <1>1, <1>2, <1>3, <1>4, <1>5, <1>6 DEF Next

(* Memory and file of the audit log stay equal while the process runs.     *)
LEMMA AuditCopiesStep ==
    ASSUME CoreInv, AuditChainIntact, [Next]_vars, phase' # "down"
    PROVE  entries' = auditDisk'
  <1> USE DEF CoreInv, WriteInv
  <1>1. CASE Boot
    BY <1>1 DEF Boot
  <1>2. CASE Shutdown
    BY <1>2 DEF Shutdown, AuditAppend, AuditChainIntact
  <1>3. CASE Crash
    BY <1>3 DEF Crash, ProcessEnds
  <1>4. CASE DailySnapshot \/ UNCHANGED vars
    BY <1>4 DEF DailySnapshot, PackAllow, PackAudit, PackKeys, vars, diskVars, memVars, AuditChainIntact, procVars
  <1>5. ASSUME NEW p \in Procs, LogWrite(p) \/ GetDenied(p) \/ GetAnswer(p)
        PROVE  entries' = auditDisk'
    BY <1>5 DEF LogWrite, GetDenied, GetAnswer, AuditAppend, AuditChainIntact
  <1>6. ASSUME NEW p \in Procs, Arrive(p) \/ LockWrite(p) \/ Handler(p),
               ~LogWrite(p), ~GetDenied(p), ~GetAnswer(p)
        PROVE  entries' = auditDisk'
    <2>1. UNCHANGED <<phase, entries, auditDisk>>
      BY <1>6 DEF Arrive, LockWrite, Handler, VerifySeen, VerifySign, DelegateMember, AllowMutate,
         AllowPersist, KeyHas, KeyWrite, PackAllow, PackAudit, PackKeys, GetAllowed,
         GetRead, ListAnswer, diskVars, memVars, procVars
    <2> QED
      BY <2>1 DEF AuditChainIntact
  <1> QED
    BY <1>1, <1>2, <1>3, <1>4, <1>5, <1>6 DEF Next

(* The chain of the audit file stays valid.                                *)
LEMMA ChainStep ==
    ASSUME CoreInv, AuditChainIntact, [Next]_vars
    PROVE  AuditChainIntact'
  <1>1. auditDisk \in Seq(AuditEntry) /\ verifyChain(auditDisk)
    BY DEF CoreInv, WriteInv, TypeOK, AuditChainIntact
  <1>2. ASSUME NEW action, NEW role, NEW actor, NEW detail, Appended(action, role, actor, detail)
        PROVE  verifyChain(auditDisk')
    BY <1>1, <1>2, ChainAppend DEF Appended
  <1>3. verifyChain(auditDisk')
    BY <1>1, <1>2, LogGrows
  <1>4. verifyChain(auditDisk)'
    BY <1>3 DEF verifyChain, Digest
  <1> QED
    BY <1>4, AuditCopiesStep DEF AuditChainIntact

(* What one more entry does to the replay of a log.                        *)
LEMMA ReplayAppend ==
    ASSUME NEW log \in Seq(AuditEntry), NEW e \in AuditEntry, NEW r \in Roles, NEW m \in Measurements
    PROVE  m \in Replay(Append(log, e), r) <=>
             \/ m \in Replay(log, r) /\ ~(e.action = "revoke" /\ e.role = r /\ e.detail = m)
             \/ e.action = "delegate" /\ e.role = r /\ e.detail = m
  <1> DEFINE new == Append(log, e)
             n == Len(log)
             Adds(x) == x.action = "delegate" /\ x.role = r /\ x.detail = m
             Takes(x) == x.action = "revoke" /\ x.role = r /\ x.detail = m
  <1>1. /\ n \in Nat /\ DOMAIN log = 1..n /\ DOMAIN new = 1..(n + 1) /\ Len(new) = n + 1
        /\ new[n + 1] = e /\ \A i \in 1..n : new[i] = log[i]
    OBVIOUS
  <1>2. m \in Replay(log, r) <=> \E i \in 1..n : Adds(log[i]) /\ \A j \in (i + 1)..n : ~Takes(log[j])
    BY <1>1 DEF Replay
  <1>3. m \in Replay(new, r) <=>
          \E i \in 1..(n + 1) : Adds(new[i]) /\ \A j \in (i + 1)..(n + 1) : ~Takes(new[j])
    BY <1>1 DEF Replay
  <1> HIDE DEF new, n
  <1>4. ASSUME NEW i \in 1..n
        PROVE  (Adds(new[i]) /\ \A j \in (i + 1)..(n + 1) : ~Takes(new[j])) <=>
               (Adds(log[i]) /\ (\A j \in (i + 1)..n : ~Takes(log[j])) /\ ~Takes(e))
    <2>1. \A j \in (i + 1)..(n + 1) : j = n + 1 \/ (j \in 1..n /\ j \in (i + 1)..n)
      BY <1>1
    <2>2. \A j \in (i + 1)..n : j \in 1..n /\ j \in (i + 1)..(n + 1)
      BY <1>1
    <2>3. n + 1 \in (i + 1)..(n + 1)
      BY <1>1
    <2> HIDE DEF Adds, Takes
    <2> QED
      BY <1>1, <2>1, <2>2, <2>3
  <1>5. (Adds(new[n + 1]) /\ \A j \in ((n + 1) + 1)..(n + 1) : ~Takes(new[j])) <=> Adds(e)
    BY <1>1
  <1>6. \A i : i \in 1..(n + 1) <=> i \in 1..n \/ i = n + 1
    BY <1>1
  <1>7. m \in Replay(new, r) <=> (m \in Replay(log, r) /\ ~Takes(e)) \/ Adds(e)
    <2> HIDE DEF Adds, Takes
    <2> QED
      BY <1>2, <1>3, <1>4, <1>5, <1>6
  <1> QED
    BY <1>7 DEF new

(* And to the roles it says were provisioned.                              *)
LEMMA ProvisionedAppend ==
    ASSUME NEW log \in Seq(AuditEntry), NEW e \in AuditEntry, NEW r \in Roles
    PROVE  Provisioned(Append(log, e), r) <=>
             Provisioned(log, r) \/ (e.action = "provision" /\ e.role = r)
  <1>1. /\ Len(log) \in Nat /\ DOMAIN log = 1..Len(log)
        /\ DOMAIN Append(log, e) = 1..(Len(log) + 1)
        /\ Append(log, e)[Len(log) + 1] = e /\ \A i \in 1..Len(log) : Append(log, e)[i] = log[i]
    OBVIOUS
  <1>2. \A i : i \in 1..(Len(log) + 1) <=> i \in 1..Len(log) \/ i = Len(log) + 1
    BY <1>1
  <1> QED
    BY <1>1, <1>2 DEF Provisioned

(* The entry LogWrite makes is about its request, and any other entry      *)
(* changes neither replay nor provisioned roles.                           *)
LEMMA LogEffect ==
    ASSUME auditDisk \in Seq(AuditEntry), NEW action \in AuditActions, NEW role \in Roles \cup {None},
           NEW actor \in Measurements \cup {None}, NEW detail \in Args,
           Appended(action, role, actor, detail), NEW r \in Roles
    PROVE  /\ \A m \in Measurements : m \in Replay(auditDisk', r) <=>
                \/ m \in Replay(auditDisk, r) /\ ~(action = "revoke" /\ role = r /\ detail = m)
                \/ action = "delegate" /\ role = r /\ detail = m
           /\ Provisioned(auditDisk', r) <=>
                Provisioned(auditDisk, r) \/ (action = "provision" /\ role = r)
  <1> DEFINE e == NewEntry(auditDisk, action, role, actor, detail)
  <1>1. e \in AuditEntry
    BY NewEntryType
  <1>2. e.action = action /\ e.role = role /\ e.detail = detail
    BY DEF NewEntry
  <1>3. auditDisk' = Append(auditDisk, e)
    BY DEF Appended
  <1> HIDE DEF e
  <1> QED
    BY <1>1, <1>2, <1>3, ReplayAppend, ProvisionedAppend

-----------------------------------------------------------------------------
(* Snapshots: the key files are read last.                                 *)

(* What the log calls provisioned has its key file, and so has what the    *)
(* log read by a packer calls provisioned.                                 *)
AuditedInv ==
    /\ \A r \in Roles : Provisioned(auditDisk, r) => keyDisk[r] # NoKey
    /\ \A p \in Packers, r \in Roles :
         pack[p].audit # None /\ Provisioned(pack[p].audit, r) => keyDisk[r] # NoKey

(* What a packer has read of the audit log changes only when it reads or   *)
(* is done.                                                                *)
LEMMA PackFrame ==
    ASSUME TypeOK, [Next]_vars, NEW p \in Packers
    PROVE  \/ pack'[p].audit = pack[p].audit
           \/ pack'[p].audit = auditDisk
           \/ pack'[p] = NoPack
  <1>1. CASE UNCHANGED pack
    BY <1>1
  <1>2. ASSUME NEW q \in Procs, Return(q)
        PROVE  \/ pack'[p].audit = pack[p].audit
               \/ pack'[p] = NoPack
    BY <1>2 DEF Return, TypeOK, Packers
  <1>3. CASE Crash
    BY <1>3 DEF Crash, ProcessEnds
  <1>4. ASSUME NEW q \in Packers, PackAllow(q)
        PROVE  pack'[p].audit = pack[p].audit
    <2>1. pack' = [pack EXCEPT ![q] = [pack[q] EXCEPT !.allow = allowDisk]]
      BY <1>4 DEF PackAllow
    <2> QED
      BY <2>1 DEF TypeOK
  <1>5. ASSUME NEW q \in Packers, PackAudit(q)
        PROVE  pack'[p].audit = pack[p].audit \/ pack'[p].audit = auditDisk
    <2>1. pack' = [pack EXCEPT ![q] = [pack[q] EXCEPT !.audit = auditDisk]]
      BY <1>5 DEF PackAudit
    <2> QED
      BY <2>1 DEF TypeOK
  <1>6. ASSUME NEW q \in Packers, PackKeys(q)
        PROVE  pack'[p].audit = pack[p].audit \/ pack'[p] = NoPack
    <2>1. CASE q = None
      BY <1>6, <2>1 DEF PackKeys, TypeOK
    <2>2. CASE q # None
      BY <1>2, <1>6, <2>2 DEF PackKeys, Packers
    <2> QED
      BY <2>1, <2>2
  <1>7. CASE Boot \/ Shutdown \/ UNCHANGED vars
    BY <1>1, <1>7 DEF Boot, Shutdown, vars, snapVars
  <1>8. ASSUME NEW q \in Procs, Arrive(q) \/ LockWrite(q) \/ Handler(q),
               ~Return(q), ~PackAllow(q), ~PackAudit(q), ~PackKeys(q)
        PROVE  UNCHANGED pack
    BY <1>8 DEF Arrive, LockWrite, Handler, VerifySeen, VerifySign, DelegateMember, AllowMutate,
       AllowPersist, KeyHas, KeyWrite, LogWrite, GetAllowed, GetDenied, GetRead, GetAnswer,
       ListAnswer, snapVars
  <1> QED
    BY <1>1, <1>2, <1>3, <1>4, <1>5, <1>6, <1>7, <1>8 DEF Next, DailySnapshot, Handler, Packers

(* The log does not run ahead of the key files.                            *)
LEMMA AuditedStep ==
    ASSUME CoreInv, AckedWriteInForce, AuditChainIntact, AuditedInv, [Next]_vars
    PROVE  AuditedInv'
  <1> USE DEF CoreInv, WriteInv
  <1>0. auditDisk \in Seq(AuditEntry) /\ \A r \in Roles : keyDisk[r] # NoKey => keyDisk'[r] # NoKey
    BY WriteOnceStep DEF TypeOK
  <1>1. ASSUME NEW r \in Roles, Provisioned(auditDisk', r), ~Provisioned(auditDisk, r)
        PROVE  keyDisk'[r] # NoKey
    <2>1. ASSUME NEW p \in Procs, LogWrite(p),
                 LET q == req[p] IN
                 Appended(q.op, q.role, IF q.nonce = None THEN q.peer ELSE None, q.arg)
          PROVE  keyDisk'[r] # NoKey
      <3>1. req[p] \in RequestType /\ pc[p] = "log" /\ req[p].op \in WriteOps
            /\ req[p].role \in Roles /\ (req[p].op = "provision" => req[p].arg \in Keys)
        BY <2>1 DEF LogWrite, HandlerInv, OpsAt, WellFormed, TypeOK, WriteOps
      <3>2. req[p].op \in AuditActions /\ req[p].arg \in Args /\ req[p].peer \in Measurements
        BY <3>1 DEF WriteOps, AuditActions, RequestType
      <3>3. req[p].op = "provision" /\ req[p].role = r
        BY <1>0, <1>1, <2>1, <3>1, <3>2, LogEffect
      <3>4. keyDisk[r] # NoKey
        BY <3>1, <3>3 DEF AckedWriteInForce
      <3> QED
        BY <1>0, <3>4
    <2>2. ASSUME NEW action \in Notes, NEW role \in Roles \cup {None},
                 NEW actor \in Measurements \cup {None}, Appended(action, role, actor, None)
          PROVE  FALSE
      <3>1. action \in AuditActions /\ None \in Args /\ action # "provision"
        BY DEF Notes, AuditActions, Args
      <3> QED
        BY <1>0, <1>1, <2>2, <3>1, LogEffect
    <2> QED
      BY <1>1, <2>1, <2>2, LogGrows
  <1>2. ASSUME NEW p \in Packers, NEW r \in Roles, pack'[p].audit # None, Provisioned(pack'[p].audit, r)
        PROVE  keyDisk'[r] # NoKey
    BY <1>0, <1>2, PackFrame DEF AuditedInv, NoPack
  <1>3. \A r \in Roles : Provisioned(auditDisk', r) => keyDisk'[r] # NoKey
    BY <1>0, <1>1 DEF AuditedInv
  <1> QED
    BY <1>2, <1>3 DEF AuditedInv, Provisioned

(* What a packer saves holds the keys of its log.                          *)
LEMMA SnapshotStep ==
    ASSUME CoreInv, AuditedInv, SnapshotHoldsAuditedKeys, [Next]_vars
    PROVE  SnapshotHoldsAuditedKeys'
  <1>1. CASE UNCHANGED lastSnap
    BY <1>1 DEF SnapshotHoldsAuditedKeys, Provisioned
  <1>2. ASSUME NEW p \in Packers, PackKeys(p)
        PROVE  SnapshotHoldsAuditedKeys'
    <2>1. CASE lastSnap' = [label |-> IF p = None THEN "daily" ELSE "post-write",
                            keys |-> keyDisk, allow |-> pack[p].allow, audit |-> pack[p].audit]
      <3>1. lastSnap'.audit = pack[p].audit /\ lastSnap'.keys = keyDisk /\ pack[p].audit # None
        BY <1>2, <2>1 DEF PackKeys
      <3> QED
        BY <3>1 DEF AuditedInv, SnapshotHoldsAuditedKeys, Provisioned
    <2> QED
      BY <1>1, <1>2, <2>1 DEF PackKeys
  <1>3. CASE Boot \/ Crash \/ Shutdown \/ UNCHANGED vars
    BY <1>1, <1>3 DEF Boot, Crash, ProcessEnds, Shutdown, vars, snapVars
  <1>4. ASSUME NEW p \in Packers, PackAllow(p) \/ PackAudit(p)
        PROVE  UNCHANGED lastSnap
    BY <1>4 DEF PackAllow, PackAudit
  <1>5. ASSUME NEW p \in Procs, Arrive(p) \/ LockWrite(p) \/ Handler(p),
               ~PackAllow(p), ~PackAudit(p), ~PackKeys(p)
        PROVE  UNCHANGED lastSnap
    BY <1>5 DEF Arrive, LockWrite, Handler, VerifySeen, VerifySign, DelegateMember, AllowMutate,
       AllowPersist, KeyHas, KeyWrite, LogWrite, GetAllowed, GetDenied, GetRead, GetAnswer,
       ListAnswer, snapVars
  <1> QED
    BY <1>1, <1>2, <1>3, <1>4, <1>5 DEF Next, DailySnapshot, Handler, Packers

ChainInv == CoreInv /\ AckedWriteInForce /\ AuditChainIntact /\ AuditedInv

(* The audit log is a valid chain, memory and file of it agree, and what   *)
(* it calls provisioned has its key.                                       *)
THEOREM ChainInvariant == Spec => []ChainInv
  <1>1. Init => AuditChainIntact /\ AuditedInv
    BY DEF Init, AuditChainIntact, verifyChain, AuditedInv, Provisioned, NoPack
  <1>2. ChainInv /\ [Next]_vars => (AuditChainIntact /\ AuditedInv)'
    BY ChainStep, AuditedStep DEF ChainInv
  <1> QED
    BY <1>1, <1>2, CoreInvariant, AckedWritesAreInForce, PTL DEF Spec, ChainInv

(* PackSealedDir reads the files one after the other without a lock, and   *)
(* still no snapshot's audit log speaks of a key the snapshot lacks.       *)
THEOREM SnapshotsHoldAuditedKeys == Spec => []SnapshotHoldsAuditedKeys
  <1>1. Init => SnapshotHoldsAuditedKeys
    BY DEF Init, NoSnap, SnapshotHoldsAuditedKeys, Provisioned
  <1>2. ChainInv /\ SnapshotHoldsAuditedKeys /\ [Next]_vars => SnapshotHoldsAuditedKeys'
    BY SnapshotStep DEF ChainInv
  <1> QED
    BY <1>1, <1>2, ChainInvariant, PTL DEF Spec

-----------------------------------------------------------------------------
(* Replaying the audit log.                                                *)

(* A write that has taken effect and is not in the log yet.                *)
Due(op, r, x) ==
    \E p \in Procs : pc[p] = "log" /\ req[p].op = op /\ req[p].role = r /\ req[p].arg = x

(* While nothing fails, the sealed state is the replay of the log with the *)
(* write of the handler that is about to log applied to it.                *)
ReplayInv ==
    /\ boots = 0 => /\ phase = "down" /\ auditDisk = <<>>
                    /\ \A r \in Roles : allowDisk[r] = {} /\ keyDisk[r] = NoKey
    /\ Unfailing /\ phase # "down" => \A r \in Roles :
         /\ \A m \in Measurements : m \in allowDisk[r] <=>
              \/ m \in Replay(auditDisk, r) /\ ~Due("revoke", r, m)
              \/ Due("delegate", r, m)
         /\ keyDisk[r] # NoKey <=>
              Provisioned(auditDisk, r) \/ \E k \in Keys : Due("provision", r, k)

(* Handlers come to their audit entry from a write that took effect ...    *)
LEMMA LogEntry ==
    ASSUME CoreInv, [Next]_vars, NEW p \in Procs, pc'[p] = "log"
    PROVE  /\ req'[p] = req[p]
           /\ pc[p] = "log" \/ AllowMutate(p) \/ AllowPersist(p) \/ KeyWrite(p)
  <1> USE DEF CoreInv, WriteInv
  <1>1. CASE ~LockWrite(p) /\ ~Handler(p) /\ ~Arrive(p)
    BY <1>1, Undisturbed
  <1>2. CASE Return(p)
    BY <1>2 DEF Return, TypeOK
  <1>3. CASE Arrive(p) \/ LockWrite(p)
    BY <1>3 DEF Arrive, LockWrite, Goto, TypeOK
  <1>4. CASE VerifySeen(p) \/ VerifySign(p) \/ DelegateMember(p) \/ KeyHas(p)
    BY <1>2, <1>4 DEF VerifySeen, VerifySign, DelegateMember, KeyHas, Goto, TypeOK
  <1>5. CASE AllowMutate(p) \/ AllowPersist(p) \/ KeyWrite(p)
    BY <1>2, <1>5 DEF AllowMutate, AllowPersist, KeyWrite
  <1>6. CASE LogWrite(p)
    BY <1>6 DEF LogWrite, Goto, TypeOK
  <1>7. CASE PackAllow(p)
    BY <1>7 DEF PackAllow
  <1>8. CASE PackAudit(p) \/ PackKeys(p)
    BY <1>2, <1>8 DEF PackAudit, PackKeys
  <1>9. CASE GetAllowed(p) \/ GetDenied(p) \/ GetRead(p) \/ GetAnswer(p) \/ ListAnswer(p)
    BY <1>2, <1>9 DEF GetAllowed, GetDenied, GetRead, GetAnswer, ListAnswer, Goto, TypeOK
  <1> QED
    BY <1>1, <1>3, <1>4, <1>5, <1>6, <1>7, <1>8, <1>9 DEF Handler

(* ... and leave it by making the entry, or with the process.              *)
LEMMA LogExit ==
    ASSUME CoreInv, [Next]_vars, NEW p \in Procs, pc[p] = "log", pc'[p] # "log"
    PROVE  LogWrite(p) \/ Crash
  <1> USE DEF CoreInv, WriteInv
  <1>1. CASE Boot \/ Shutdown \/ DailySnapshot \/ UNCHANGED vars
    BY <1>1 DEF Boot, Shutdown, DailySnapshot, PackAllow, PackAudit, PackKeys, vars
  <1>2. ASSUME NEW q \in Procs, Arrive(q)
        PROVE  FALSE
    BY <1>2 DEF Arrive, Goto, TypeOK
  <1>3. ASSUME NEW q \in Procs, LockWrite(q) \/ Handler(q)
        PROVE  LogWrite(p)
    <2>1. q = p
      BY <1>3, Frame
    <2> QED
      BY <1>3, <2>1 DEF LockWrite, Handler, VerifySeen, VerifySign, DelegateMember, AllowMutate,
         AllowPersist, KeyHas, KeyWrite, PackAllow, PackAudit, PackKeys, GetAllowed, GetDenied,
         GetRead, GetAnswer, ListAnswer
  <1> QED
    BY <1>1, <1>2, <1>3 DEF Next

(* What no failure and no restart after the step says about the step.      *)
LEMMA UnfailingStep ==
    ASSUME TypeOK, [Next]_vars, Unfailing'
    PROVE  Unfailing /\ ~Fault /\ (boots' # boots => Boot)
  <1>1. CASE Boot
    BY <1>1 DEF Boot, TypeOK, Unfailing, Fault
  <1>2. CASE Crash \/ DailySnapshot \/ UNCHANGED vars
    BY <1>2 DEF Crash, ProcessEnds, DailySnapshot, PackAllow, PackAudit, PackKeys, vars, TypeOK,
       Unfailing, Fault, procVars
  <1>3. ASSUME NEW p \in Procs, Arrive(p) \/ LockWrite(p) \/ Handler(p)
        PROVE  boots' = boots /\ (faults' = faults \/ faults' = faults + 1)
    BY <1>3 DEF Arrive, LockWrite, Handler, VerifySeen, VerifySign, DelegateMember, AllowMutate,
       AllowPersist, KeyHas, KeyWrite, LogWrite, PackAllow, PackAudit, PackKeys, GetAllowed,
       GetDenied, GetRead, GetAnswer, ListAnswer, AuditAppend, Fault, procVars
  <1>4. CASE Shutdown
    BY <1>4 DEF Shutdown, AuditAppend, Fault, TypeOK, Unfailing
  <1> QED
    BY <1>1, <1>2, <1>3, <1>4 DEF Next, TypeOK, Unfailing, Fault

(* At most one handler is about to log, since it holds writeMu.            *)
LEMMA OneDue ==
    ASSUME CoreInv, NEW p \in Procs, InCritical(p)
    PROVE  \A op, r, x : Due(op, r, x) <=>
             pc[p] = "log" /\ req[p].op = op /\ req[p].role = r /\ req[p].arg = x
  <1>1. \A q \in Procs : pc[q] = "log" => q = p
    BY DEF CoreInv, WriteInv, MutexInv, InCritical
  <1> QED
    BY <1>1 DEF Due

(* Before the first start nothing is stored.                               *)
LEMMA FreshStep ==
    ASSUME CoreInv, ReplayInv, [Next]_vars, boots' = 0
    PROVE  /\ phase' = "down" /\ auditDisk' = <<>>
           /\ \A r \in Roles : allowDisk'[r] = {} /\ keyDisk'[r] = NoKey
  <1> USE DEF CoreInv, WriteInv
  <1>1. CASE Boot
    BY <1>1 DEF Boot, TypeOK
  <1>2. CASE ~Boot
    <2>1. boots = 0
      BY <1>2, ZenonT(40) DEF Next, Crash, ProcessEnds, Shutdown, DailySnapshot, PackAllow, PackAudit, PackKeys,
         vars, procVars, Arrive, LockWrite, Handler, VerifySeen, VerifySign, DelegateMember,
         AllowMutate, AllowPersist, KeyHas, KeyWrite, LogWrite, GetAllowed,
         GetDenied, GetRead, GetAnswer, ListAnswer
    <2>2. phase = "down" /\ \A p \in Procs : pc[p] = "idle"
      BY <2>1 DEF ReplayInv, AllowInv
    <2>3. \A p \in Procs : ~Arrive(p) /\ ~LockWrite(p) /\ ~Handler(p)
      BY <2>2 DEF Arrive, LockWrite, Handler, VerifySeen, VerifySign, DelegateMember,
         AllowMutate, AllowPersist, KeyHas, KeyWrite, LogWrite, PackAllow, PackAudit, PackKeys,
         GetAllowed, GetDenied, GetRead, GetAnswer, ListAnswer
    <2>4. UNCHANGED <<phase, auditDisk, allowDisk, keyDisk>>
      BY <1>2, <2>2, <2>3 DEF Next, Crash, Shutdown, DailySnapshot, PackAllow, PackAudit, PackKeys,
         vars, procVars, diskVars
    <2> QED
      BY <2>1, <2>4 DEF ReplayInv
  <1> QED
    BY <1>1, <1>2

Replayed(r) ==
    /\ \A m \in Measurements : m \in allowDisk[r] <=>
         \/ m \in Replay(auditDisk, r) /\ ~Due("revoke", r, m)
         \/ Due("delegate", r, m)
    /\ keyDisk[r] # NoKey <=>
         Provisioned(auditDisk, r) \/ \E k \in Keys : Due("provision", r, k)

(* The first start writes the first entry.                                 *)
LEMMA ReplayBoot ==
    ASSUME CoreInv, ReplayInv, Boot, Unfailing', phase' # "down", NEW r \in Roles
    PROVE  Replayed(r)'
  <1> USE DEF CoreInv, WriteInv
  <1>1. boots = 0 /\ \A p \in Procs : pc'[p] = "idle"
    BY DEF Boot, Unfailing, TypeOK, AllowInv
  <1>2. auditDisk = <<>> /\ allowDisk'[r] = {} /\ keyDisk'[r] = NoKey
    BY <1>1 DEF Boot, ReplayInv
  <1>3. Appended("startup", None, None, None) /\ None \in Args /\ "startup" \in AuditActions
        /\ auditDisk \in Seq(AuditEntry)
    BY DEF Boot, Appended, Args, AuditActions, TypeOK
  <1>4. Replay(auditDisk, r) = {} /\ ~Provisioned(auditDisk, r)
    BY <1>2 DEF Replay, Provisioned
  <1>5. (\A m \in Measurements : m \notin Replay(auditDisk', r)) /\ ~Provisioned(auditDisk', r)
    BY <1>3, <1>4, LogEffect
  <1>6. \A op, x : ~Due(op, r, x)'
    BY <1>1 DEF Due
  <1> QED
    BY <1>2, <1>5, <1>6 DEF Replayed, Replay, Provisioned

(* The entry of a write brings the log up to date.                         *)
LEMMA ReplayLog ==
    ASSUME CoreInv, ReplayInv, [Next]_vars, Unfailing', NEW p \in Procs, LogWrite(p), NEW r \in Roles,
           AuditChainIntact
    PROVE  Replayed(r)'
  <1> USE DEF CoreInv, WriteInv
  <1> DEFINE q == req[p]
             actor == IF q.nonce = None THEN q.peer ELSE None
  <1>1. /\ pc[p] = "log" /\ phase # "down" /\ q \in RequestType /\ q.op \in WriteOps /\ WellFormed(q)
        /\ UNCHANGED <<keyDisk, allowDisk>> /\ pc'[p] = "snap"
    BY DEF LogWrite, AllowInv, HandlerInv, OpsAt, TypeOK, WriteOps, Goto
  <1>2. Unfailing /\ ~Fault
    BY UnfailingStep
  <1>3. Appended(q.op, q.role, actor, q.arg)
    <2>1. entries = auditDisk
      BY <1>1 DEF AuditChainIntact
    <2> QED
      BY <1>2, <2>1 DEF LogWrite, AuditAppend, Appended
  <1>4. Replayed(r)
    BY <1>1, <1>2 DEF ReplayInv, Replayed
  <1>5. \A op, x : Due(op, r, x) <=> q.op = op /\ q.role = r /\ q.arg = x
    BY <1>1, OneDue DEF InCritical
  <1>6. \A op, x : ~Due(op, r, x)'
    <2>1. \A o \in Procs : pc'[o] # "log"
      BY <1>1, LogEntry DEF MutexInv, InCritical, LogWrite, Goto, TypeOK
    <2> QED
      BY <2>1 DEF Due
  <1>7. /\ q.op \in AuditActions /\ q.role \in Roles \cup {None} /\ actor \in Measurements \cup {None}
        /\ q.arg \in Args /\ auditDisk \in Seq(AuditEntry)
    BY <1>1 DEF RequestType, WriteOps, AuditActions, TypeOK
  <1>8. /\ \A m \in Measurements : m \in Replay(auditDisk', r) <=>
             \/ m \in Replay(auditDisk, r) /\ ~(q.op = "revoke" /\ q.role = r /\ q.arg = m)
             \/ q.op = "delegate" /\ q.role = r /\ q.arg = m
        /\ Provisioned(auditDisk', r) <=> Provisioned(auditDisk, r) \/ (q.op = "provision" /\ q.role = r)
    BY <1>3, <1>7, LogEffect
  <1>9. (\E k \in Keys : Due("provision", r, k)) <=> q.op = "provision" /\ q.role = r
    BY <1>1, <1>5 DEF WellFormed
  <1>10. \A m \in Measurements : m \in allowDisk'[r] <=> m \in Replay(auditDisk', r)
    BY <1>1, <1>4, <1>5, <1>8 DEF Replayed
  <1>11. keyDisk'[r] # NoKey <=> Provisioned(auditDisk', r)
    BY <1>1, <1>4, <1>8, <1>9 DEF Replayed
  <1> QED
    BY <1>6, <1>10, <1>11 DEF Replayed, Replay, Provisioned

(* A write that takes effect becomes due.                                  *)
LEMMA ReplayWrite ==
    ASSUME CoreInv, ReplayInv, [Next]_vars, Unfailing', NEW p \in Procs, pc[p] # "log", pc'[p] = "log",
           NEW r \in Roles, AckedWriteInForce'
    PROVE  Replayed(r)'
  <1> USE DEF CoreInv, WriteInv
  <1> DEFINE q == req[p]
  <1>1. q' = q /\ (AllowMutate(p) \/ AllowPersist(p) \/ KeyWrite(p))
    BY LogEntry
  <1>2. InCritical(p) /\ pc[p] \in {"mutate", "persist", "store"}
    BY <1>1 DEF AllowMutate, AllowPersist, KeyWrite, InCritical
  <1>3. Unfailing /\ phase # "down" /\ UNCHANGED auditDisk
    BY <1>1, <1>2, UnfailingStep DEF AllowInv, AllowMutate, AllowPersist, KeyWrite, diskVars
  <1>4. \A op, x : ~Due(op, r, x)
    BY <1>2, OneDue
  <1>5. /\ \A m \in Measurements : m \in allowDisk[r] <=> m \in Replay(auditDisk, r)
        /\ keyDisk[r] # NoKey <=> Provisioned(auditDisk, r)
    BY <1>3, <1>4 DEF ReplayInv
  <1>6. \A op, x : Due(op, r, x)' <=> q.op = op /\ q.role = r /\ q.arg = x
    <2>1. CoreInv'
      BY TypeStep, HandlerStep, MutexStep, KeyStep, AllowStep
    <2>2. \A o \in Procs : pc'[o] = "log" => o = p
      BY <2>1 DEF MutexInv, InCritical
    <2> QED
      BY <1>1, <2>2 DEF Due
  <1>7. CASE AllowMutate(p) \/ AllowPersist(p)
    <2>1. /\ q.op \in {"delegate", "revoke"} /\ UNCHANGED keyDisk
      BY <1>7 DEF AllowMutate, AllowPersist, HandlerInv, OpsAt, diskVars
    <2>2. /\ q.op = "delegate" => q.arg \in allowDisk'[q.role]
          /\ q.op = "revoke" => q.arg \notin allowDisk'[q.role]
      BY <1>1 DEF AckedWriteInForce
    <2>3. \A m \in Measurements : ~(q.role = r /\ q.arg = m) => (m \in allowDisk'[r] <=> m \in allowDisk[r])
      <3>1. CASE AllowMutate(p)
        BY <3>1 DEF AllowMutate, diskVars
      <3>2. CASE AllowPersist(p)
        <4>1. allowDisk \in [Roles -> SUBSET Measurements]
          BY DEF TypeOK, AllowMap
        <4> QED
          BY <3>2, <4>1, PersistWrites
      <3> QED
        BY <1>7, <3>1, <3>2
    <2>4. \A m \in Measurements : m \in allowDisk'[r] <=>
            \/ m \in Replay(auditDisk, r) /\ ~(q.op = "revoke" /\ q.role = r /\ q.arg = m)
            \/ q.op = "delegate" /\ q.role = r /\ q.arg = m
      BY <1>5, <2>1, <2>2, <2>3
    <2> QED
      BY <1>3, <1>5, <1>6, <2>1, <2>4 DEF Replayed, Replay, Provisioned
  <1>8. CASE KeyWrite(p)
    <2>1. q.op = "provision" /\ q.role \in Roles /\ q.arg \in Keys /\ UNCHANGED allowDisk
          /\ keyDisk' = [keyDisk EXCEPT ![q.role] = q.arg]
      BY <1>8 DEF KeyWrite, HandlerInv, OpsAt, WellFormed, Return, TypeOK
    <2>2. keyDisk'[r] # NoKey <=> keyDisk[r] # NoKey \/ q.role = r
      BY <2>1 DEF TypeOK, KeyMap
    <2> QED
      BY <1>3, <1>5, <1>6, <2>1, <2>2 DEF Replayed, Replay, Provisioned
  <1> QED
    BY <1>1, <1>7, <1>8

(* Every other step leaves the sealed state, what is due and the replay.   *)
LEMMA ReplayOther ==
    ASSUME CoreInv, ReplayInv, AuditChainIntact, [Next]_vars, Unfailing', phase' # "down", ~Boot,
           \A p \in Procs : ~LogWrite(p) /\ (pc'[p] = "log" => pc[p] = "log"), NEW r \in Roles
    PROVE  Replayed(r)'
  <1> USE DEF CoreInv, WriteInv
  <1>1. Unfailing /\ ~Fault /\ ~Crash
    BY UnfailingStep DEF Crash, ProcessEnds
  <1>2. phase # "down"
    <2>1. ASSUME phase = "down" PROVE FALSE
      <3>1. \A p \in Procs : pc[p] = "idle"
        BY <2>1 DEF AllowInv
      <3>2. \A p \in Procs : ~Arrive(p) /\ ~LockWrite(p) /\ ~Handler(p)
        BY <2>1, <3>1 DEF Arrive, LockWrite, Handler, VerifySeen, VerifySign, DelegateMember,
           AllowMutate, AllowPersist, KeyHas, KeyWrite, LogWrite, PackAllow, PackAudit, PackKeys,
           GetAllowed, GetDenied, GetRead, GetAnswer, ListAnswer
      <3> QED
        BY <1>1, <2>1, <3>2 DEF Next, Shutdown, DailySnapshot, PackAllow, PackAudit, PackKeys,
           vars, procVars
    <2> QED
      BY <2>1
  <1>3. \A p \in Procs : (pc'[p] = "log" <=> pc[p] = "log") /\ (pc[p] = "log" => req'[p] = req[p])
    BY <1>1, LogEntry, LogExit
  <1>4. \A op, x : Due(op, r, x)' <=> Due(op, r, x)
    BY <1>3 DEF Due
  <1>5. allowDisk' = allowDisk
    <2>1. ASSUME NEW p \in Procs, AllowPersist(p)
          PROVE  allowDisk' = allowDisk
      BY <1>1, <2>1 DEF AllowPersist, Goto, TypeOK
    <2> QED
      BY <2>1, AllowDiskFrame
  <1>6. keyDisk' = keyDisk
    <2>1. ASSUME NEW p \in Procs, KeyWrite(p)
          PROVE  keyDisk' = keyDisk
      BY <1>1, <2>1 DEF KeyWrite, Goto, TypeOK
    <2> QED
      BY <2>1, KeyFrame
  <1>7. /\ \A m \in Measurements : m \in Replay(auditDisk', r) <=> m \in Replay(auditDisk, r)
        /\ Provisioned(auditDisk', r) <=> Provisioned(auditDisk, r)
    <2>1. ASSUME NEW action \in Notes, NEW role \in Roles \cup {None},
                 NEW actor \in Measurements \cup {None}, Appended(action, role, actor, None)
          PROVE  /\ \A m \in Measurements : m \in Replay(auditDisk', r) <=> m \in Replay(auditDisk, r)
                 /\ Provisioned(auditDisk', r) <=> Provisioned(auditDisk, r)
      <3>1. /\ action \in AuditActions /\ action \notin WriteOps /\ None \in Args
            /\ auditDisk \in Seq(AuditEntry)
        BY DEF Notes, AuditActions, WriteOps, Args, TypeOK
      <3> QED
        BY <2>1, <3>1, LogEffect DEF WriteOps
    <2> QED
      BY <2>1, LogGrows
  <1>8. Replayed(r)
    BY <1>1, <1>2 DEF ReplayInv, Replayed
  <1> QED
    BY <1>4, <1>5, <1>6, <1>7, <1>8 DEF Replayed, Replay, Provisioned

(* So the log replays to the sealed state throughout.                      *)
LEMMA ReplayStep ==
    ASSUME ChainInv, ReplayInv, [Next]_vars
    PROVE  ReplayInv'
  <1> USE DEF ChainInv
  <1>1. ASSUME Unfailing', phase' # "down", NEW r \in Roles
        PROVE  Replayed(r)'
    <2>1. CASE Boot
      BY <1>1, <2>1, ReplayBoot
    <2>2. ASSUME NEW p \in Procs, LogWrite(p)
          PROVE  Replayed(r)'
      BY <1>1, <2>2, ReplayLog
    <2>3. ASSUME NEW p \in Procs, pc'[p] = "log", pc[p] # "log"
          PROVE  Replayed(r)'
      <3>1. AckedWriteInForce'
        BY AckedStep
      <3> QED
        BY <1>1, <2>3, <3>1, ReplayWrite
    <2>4. CASE ~Boot /\ \A p \in Procs : ~LogWrite(p) /\ (pc'[p] = "log" => pc[p] = "log")
      BY <1>1, <2>4, ReplayOther
    <2> QED
      BY <2>1, <2>2, <2>3, <2>4
  <1>2. Unfailing' /\ phase' # "down" => \A r \in Roles : Replayed(r)'
    BY <1>1
  <1> QED
    BY <1>2, FreshStep DEF ReplayInv, Replayed

(* Where no write is due, the log replays to the sealed state.             *)
LEMMA NothingDue ==
    ASSUME TypeOK, ReplayInv, Unfailing, phase # "down", \A p \in Procs : pc[p] # "log", NEW r \in Roles
    PROVE  /\ Replay(auditDisk, r) = allowDisk[r]
           /\ Provisioned(auditDisk, r) <=> keyDisk[r] # NoKey
  <1>1. \A op, x : ~Due(op, r, x)
    BY DEF Due
  <1>2. \A m \in Measurements : m \in allowDisk[r] <=> m \in Replay(auditDisk, r)
    BY <1>1 DEF ReplayInv
  <1>3. allowDisk[r] \subseteq Measurements /\ Replay(auditDisk, r) \subseteq Measurements
    BY DEF TypeOK, AllowMap, Replay
  <1>4. Provisioned(auditDisk, r) <=> keyDisk[r] # NoKey
    BY <1>1 DEF ReplayInv
  <1> QED
    BY <1>2, <1>3, <1>4

(* While writeMu is held by nobody, or by a handler that takes its         *)
(* snapshot, nobody is about to log.                                       *)
LEMMA NoLogger ==
    ASSUME CoreInv, writeMu = None \/ \E q \in Procs : pc[q] = "snap"
    PROVE  \A p \in Procs : pc[p] # "log"
  BY DEF CoreInv, WriteInv, MutexInv, InCritical

(* A log that replays to the sealed state.                                 *)
Complete(log) == \A r \in Roles :
    /\ Replay(log, r) = allowDisk[r]
    /\ Provisioned(log, r) <=> keyDisk[r] # NoKey

(* A handler packs with writeMu held: while nothing fails, the files it    *)
(* has read are still the ones on disk and agree with each other.          *)
PackInv == \A p \in Procs :
    /\ pc[p] # "snap" => pack[p] = NoPack
    /\ pack[p].audit # None => pack[p].allow # None
    /\ Unfailing /\ pc[p] = "snap" =>
         /\ pack[p].allow # None => pack[p].allow = allowDisk
         /\ pack[p].audit # None => Complete(pack[p].audit)

(* Nobody else touches what a handler has packed.                          *)
LEMMA PackKept ==
    ASSUME CoreInv, [Next]_vars, NEW p \in Procs, ~Arrive(p), ~LockWrite(p), ~Handler(p), ~Crash
    PROVE  pack'[p] = pack[p] /\ pc'[p] = pc[p]
  <1> USE DEF CoreInv, WriteInv
  <1>1. CASE Boot \/ Shutdown \/ UNCHANGED vars
    BY <1>1 DEF Boot, Shutdown, vars, snapVars
  <1>2. CASE DailySnapshot
    BY <1>2 DEF DailySnapshot, PackAllow, PackAudit, PackKeys, TypeOK, Packers
  <1>3. ASSUME NEW q \in Procs, q # p, Arrive(q) \/ LockWrite(q) \/ Handler(q)
        PROVE  pack'[p] = pack[p] /\ pc'[p] = pc[p]
    <2>1. pc'[p] = pc[p]
      BY <1>3, Frame DEF Arrive, Goto, TypeOK
    <2>2. CASE Return(q)
      BY <1>3, <2>1, <2>2 DEF Return, TypeOK, Packers
    <2>3. CASE PackAllow(q) \/ PackAudit(q)
      BY <1>3, <2>1, <2>3 DEF PackAllow, PackAudit, TypeOK, Packers
    <2>4. CASE ~Return(q) /\ ~PackAllow(q) /\ ~PackAudit(q)
      BY <1>3, <2>1, <2>4 DEF Arrive, LockWrite, Handler, VerifySeen, VerifySign, DelegateMember,
         AllowMutate, AllowPersist, KeyHas, KeyWrite, LogWrite, PackKeys, GetAllowed, GetDenied,
         GetRead, GetAnswer, ListAnswer, snapVars
    <2> QED
      BY <2>2, <2>3, <2>4
  <1> QED
    BY <1>1, <1>2, <1>3 DEF Next

(* A handler starts a pack after its entry, reads under writeMu, and drops *)
(* the pack when it returns.                                               *)
LEMMA PackStep ==
    ASSUME CoreInv, ReplayInv, PackInv, [Next]_vars
    PROVE  PackInv'
  <1> USE DEF CoreInv, WriteInv
  <1> DEFINE Fits(p) ==
        /\ pc[p] # "snap" => pack[p] = NoPack
        /\ pack[p].audit # None => pack[p].allow # None
        /\ Unfailing /\ pc[p] = "snap" =>
             /\ pack[p].allow # None => pack[p].allow = allowDisk
             /\ pack[p].audit # None => Complete(pack[p].audit)
  <1> SUFFICES ASSUME NEW p \in Procs
               PROVE  Fits(p)'
    BY DEF PackInv, Complete, Replay, Provisioned
  <1>0. Fits(p) /\ (Unfailing' => Unfailing)
    BY UnfailingStep DEF PackInv
  <1>1. CASE pack'[p] = NoPack
    BY <1>1 DEF NoPack
  <1>2. CASE Crash
    BY <1>1, <1>2 DEF Crash, ProcessEnds, Packers
  <1>3. CASE ~Arrive(p) /\ ~LockWrite(p) /\ ~Handler(p) /\ ~Crash
    <2>1. pack'[p] = pack[p] /\ pc'[p] = pc[p]
      BY <1>3, PackKept
    <2>2. CASE pc[p] = "snap"
      <3>1. UNCHANGED <<allowDisk, keyDisk>>
        BY <1>3, <2>1, <2>2, Undisturbed DEF InCritical
      <3> QED
        BY <1>0, <2>1, <3>1 DEF Complete, Replay, Provisioned
    <2>3. CASE pc[p] # "snap"
      BY <1>0, <1>1, <2>1, <2>3
    <2> QED
      BY <2>2, <2>3
  <1>4. CASE Return(p)
    BY <1>1, <1>4 DEF Return, TypeOK, Packers
  <1>5. CASE LogWrite(p) \/ Arrive(p) \/ LockWrite(p)
    BY <1>0, <1>1, <1>5 DEF LogWrite, Arrive, LockWrite, snapVars
  <1>6. CASE PackAllow(p)
    <2>1. pack' = [pack EXCEPT ![p] = [pack[p] EXCEPT !.allow = allowDisk]] /\ pack[p] = NoPack
      BY <1>6 DEF PackAllow
    <2>2. pack'[p].allow = allowDisk /\ pack'[p].audit = None
      BY <2>1 DEF TypeOK, NoPack, Packers
    <2> QED
      BY <1>6, <2>2 DEF PackAllow, diskVars
  <1>7. CASE PackAudit(p)
    <2>1. pack' = [pack EXCEPT ![p] = [pack[p] EXCEPT !.audit = auditDisk]] /\ pc[p] = "snap"
          /\ pack[p].allow # None
      BY <1>7 DEF PackAudit
    <2>2. pack'[p].audit = auditDisk /\ pack'[p].allow = pack[p].allow
      BY <2>1 DEF TypeOK, Packers
    <2>3. Unfailing => Complete(auditDisk)
      BY <2>1, NoLogger, NothingDue DEF Complete, AllowInv
    <2> QED
      BY <1>0, <1>7, <2>1, <2>2, <2>3 DEF PackAudit, diskVars, procVars, Unfailing, Complete, Replay, Provisioned
  <1>8. CASE PackKeys(p)
    BY <1>4, <1>8 DEF PackKeys
  <1>9. CASE Handler(p) /\ ~Return(p) /\ ~LogWrite(p) /\ ~PackAllow(p) /\ ~PackAudit(p) /\ ~PackKeys(p)
    <2>1. pack' = pack /\ pc[p] # "snap"
      BY <1>9 DEF Handler, VerifySeen, VerifySign, DelegateMember,
         AllowMutate, AllowPersist, KeyHas, KeyWrite, GetAllowed, GetDenied,
         GetRead, GetAnswer, ListAnswer, snapVars
    <2> QED
      BY <1>0, <1>1, <2>1
  <1> QED
    BY <1>2, <1>3, <1>4, <1>5, <1>6, <1>7, <1>8, <1>9

(* The snapshot of a write handler holds one consistent state.             *)
LEMMA PostWriteStep ==
    ASSUME CoreInv, PackInv, PostWriteSnapshotConsistent, [Next]_vars
    PROVE  PostWriteSnapshotConsistent'
  <1> USE DEF CoreInv, WriteInv
  <1>1. CASE UNCHANGED lastSnap
    BY <1>1, UnfailingStep DEF PostWriteSnapshotConsistent, Replay, Provisioned
  <1>2. ASSUME NEW p \in Procs, PackKeys(p)
        PROVE  PostWriteSnapshotConsistent'
    <2>1. CASE lastSnap' = [label |-> "post-write", keys |-> keyDisk, allow |-> pack[p].allow,
                            audit |-> pack[p].audit]
      <3>1. pc[p] = "snap" /\ pack[p].audit # None
        BY <1>2 DEF PackKeys
      <3>2. Unfailing' => pack[p].allow = allowDisk /\ Complete(pack[p].audit)
        BY <3>1, UnfailingStep DEF PackInv
      <3>3. lastSnap'.keys = keyDisk /\ lastSnap'.allow = pack[p].allow /\ lastSnap'.audit = pack[p].audit
        BY <2>1
      <3> QED
        BY <3>2, <3>3 DEF PostWriteSnapshotConsistent, Complete, Replay, Provisioned
    <2> QED
      BY <1>1, <1>2, <2>1 DEF PackKeys
  <1>3. CASE PackKeys(None)
    <2>1. lastSnap' = lastSnap \/ lastSnap'.label = "daily"
      BY <1>3 DEF PackKeys
    <2> QED
      BY <1>1, <2>1 DEF PostWriteSnapshotConsistent
  <1>4. CASE Boot \/ Crash \/ Shutdown \/ UNCHANGED vars
    BY <1>1, <1>4 DEF Boot, Crash, ProcessEnds, Shutdown, vars, snapVars
  <1>5. ASSUME NEW p \in Packers, PackAllow(p) \/ PackAudit(p)
        PROVE  UNCHANGED lastSnap
    BY <1>5 DEF PackAllow, PackAudit
  <1>6. ASSUME NEW p \in Procs, Arrive(p) \/ LockWrite(p) \/ Handler(p),
               ~PackAllow(p), ~PackAudit(p), ~PackKeys(p)
        PROVE  UNCHANGED lastSnap
    BY <1>6 DEF Arrive, LockWrite, Handler, VerifySeen, VerifySign, DelegateMember, AllowMutate,
       AllowPersist, KeyHas, KeyWrite, LogWrite, GetAllowed, GetDenied, GetRead, GetAnswer,
       ListAnswer, snapVars
  <1> QED
    BY <1>1, <1>2, <1>3, <1>4, <1>5, <1>6 DEF Next, DailySnapshot, Handler, Packers

(* The audit log keeps its promises: a chain every start accepts, in step  *)
(* with the sealed files while nothing fails, post-write snapshots that    *)
(* agree with the log they hold, and no key released on a delegation that  *)
(* was rolled back.                                                        *)
THEOREM AuditLogIsFaithful == Spec => []AuditInv
  <1>1. Init => ReplayInv /\ PackInv /\ PostWriteSnapshotConsistent
    BY DEF Init, ReplayInv, PackInv, PostWriteSnapshotConsistent, NoPack, NoSnap, Packers
  <1>2. ChainInv /\ ReplayInv /\ PackInv /\ PostWriteSnapshotConsistent /\ [Next]_vars
          => (ReplayInv /\ PackInv /\ PostWriteSnapshotConsistent)'
    BY ReplayStep, PackStep, PostWriteStep DEF ChainInv
  <1>3. ChainInv /\ ReplayInv => AuditReplays
    BY NothingDue, NoLogger DEF ChainInv, CoreInv, WriteInv, AuditReplays
  <1>4. ChainInv => AuditChainIntact
    BY DEF ChainInv
  <1>5. ReleaseInv => NoUncommittedRelease
    BY DEF ReleaseInv
  <1> QED
    BY <1>1, <1>2, <1>3, <1>4, <1>5, ChainInvariant, ReleaseInvariant, PTL DEF Spec, AuditInv
=============================================================================
