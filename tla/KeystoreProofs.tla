--------------------------- MODULE KeystoreProofs ---------------------------
(* Proofs about Keystore, for every set of handlers, roles, measurements,  *)
(* keys, signed proofs and requests, and every bound.                      *)
EXTENDS Keystore, TLAPS

USE KeystoreAssumption

-----------------------------------------------------------------------------
(* Type correctness.                                                       *)

(* An entry built on a well-typed log is well-typed.                       *)
LEMMA NewEntryType ==
    ASSUME NEW log \in Seq(AuditEntry), NEW action \in AuditActions,
           NEW role \in Roles \cup {None}, NEW actor \in Measurements \cup {None},
           NEW detail \in Args
    PROVE  NewEntry(log, action, role, actor, detail) \in AuditEntry
  <1>1. CASE log = <<>>
    BY <1>1 DEF NewEntry, AuditEntry
  <1>2. CASE log # <<>>
    <2>1. Len(log) \in 1..Len(log) /\ log[Len(log)] \in AuditEntry
      BY <1>2
    <2>2. Digest(log[Len(log)]) \in Nat \X AuditActions \X (Roles \cup {None})
                \X (Measurements \cup {None}) \X Args
      BY <2>1 DEF Digest, AuditEntry
    <2>3. log[Len(log)].seq + 1 \in Nat
      BY <2>1 DEF AuditEntry
    <2> QED
      BY <1>2, <2>2, <2>3 DEF NewEntry, AuditEntry
  <1> QED
    BY <1>1, <1>2

(* auditLog.Append keeps both copies of the log well-typed.                *)
LEMMA AuditAppendType ==
    ASSUME entries \in Seq(AuditEntry), auditDisk \in Seq(AuditEntry), faults \in Nat,
           NEW action \in AuditActions, NEW role \in Roles \cup {None},
           NEW actor \in Measurements \cup {None}, NEW detail \in Args,
           AuditAppend(action, role, actor, detail)
    PROVE  entries' \in Seq(AuditEntry) /\ auditDisk' \in Seq(AuditEntry) /\ faults' \in Nat
  <1> DEFINE e == NewEntry(entries, action, role, actor, detail)
  <1>1. e \in AuditEntry
    BY NewEntryType
  <1> HIDE DEF e
  <1>2. CASE entries' = Append(entries, e) /\ auditDisk' = entries' /\ UNCHANGED faults
    BY <1>1, <1>2
  <1>3. CASE Fault /\ UNCHANGED <<entries, auditDisk>>
    BY <1>3 DEF Fault
  <1> QED
    BY <1>2, <1>3 DEF AuditAppend, e

(* The idle request is a request.                                          *)
LEMMA IdleType == Idle \in RequestType /\ NoPack \in [allow : AllowMap \cup {None},
                              audit : Seq(AuditEntry) \cup {None}]
  BY DEF Idle, RequestType, Ops, Args, NoPack

(* Returning from a handler keeps the handler's variables well-typed.      *)
LEMMA ReturnType ==
    ASSUME TypeOK, NEW p \in Procs, Return(p)
    PROVE  /\ pc' \in [Procs -> Pcs] /\ req' \in [Procs -> RequestType]
           /\ held' \in [Procs -> Keys \cup {NoKey}] /\ memb' \in [Procs -> BOOLEAN]
           /\ pack' \in [Packers -> [allow : AllowMap \cup {None},
                                     audit : Seq(AuditEntry) \cup {None}]]
           /\ writeMu' \in Procs \cup {None}
  <1>1. pc' \in [Procs -> Pcs] /\ writeMu' \in Procs \cup {None}
    BY DEF TypeOK, Return, Pcs
  <1>2. req' \in [Procs -> RequestType]
    BY IdleType DEF TypeOK, Return
  <1>3. held' \in [Procs -> Keys \cup {NoKey}] /\ memb' \in [Procs -> BOOLEAN]
    BY DEF TypeOK, Return
  <1>4. pack' \in [Packers -> [allow : AllowMap \cup {None},
                              audit : Seq(AuditEntry) \cup {None}]]
    BY IdleType DEF TypeOK, Return, Packers
  <1> QED
    BY <1>1, <1>2, <1>3, <1>4

(* The operations whose handler can be at a control point.                 *)
OpsAt(l) ==
    CASE l = "lock" -> WriteOps
      [] l \in {"verify", "signature"} -> WriteOps \cup {"list"}
      [] l = "member" -> {"delegate"}
      [] l \in {"mutate", "persist"} -> {"delegate", "revoke"}
      [] l \in {"has", "store"} -> {"provision"}
      [] l \in {"log", "snap"} -> WriteOps
      [] l \in {"allowed", "denied", "read", "answer"} -> {"get"}
      [] l = "list" -> {"list"}
      [] OTHER -> {}

(* A running handler has a well-formed request of an operation that        *)
(* reaches its control point, with a nonce once Verify has looked at it.   *)
HandlerInv ==
    /\ \A p \in Procs : pc[p] # "idle" =>
         /\ WellFormed(req[p])
         /\ req[p].op \in OpsAt(pc[p])
         /\ pc[p] = "signature" => req[p].nonce # None
    /\ \A p \in Packers : pack[p].audit # None => pack[p].allow # None

(* Boot, crashes and shutdown keep the types.                              *)
LEMMA LifeCycleType ==
    ASSUME TypeOK, Boot \/ Crash \/ Shutdown
    PROVE  TypeOK'
  <1>1. CASE Boot
    <2> DEFINE e == NewEntry(auditDisk, "startup", None, None, None)
    <2>a. e \in AuditEntry
      BY NewEntryType DEF TypeOK, AuditActions, Args
    <2>b. \/ entries' = Append(auditDisk, e) /\ auditDisk' = entries'
          \/ UNCHANGED <<entries, auditDisk>>
      BY <1>1 DEF Boot
    <2> HIDE DEF e
    <2>c. auditDisk \in Seq(AuditEntry) /\ entries \in Seq(AuditEntry)
      BY DEF TypeOK
    <2>d. Append(auditDisk, e) \in Seq(AuditEntry)
      BY <2>a, <2>c
    <2>1. auditDisk' \in Seq(AuditEntry) /\ entries' \in Seq(AuditEntry)
      BY <2>b, <2>c, <2>d
    <2>2. faults' \in Nat /\ boots' \in Nat /\ allow' \in AllowMap
          /\ phase' \in {"down", "serving", "closing"}
      BY <1>1 DEF Boot, TypeOK, Fault
    <2>3. seen' \in SUBSET Nonces /\ uses' \in [Nonces -> Nat]
      BY <1>1 DEF Boot, TypeOK
    <2> QED
      BY <1>1, <2>1, <2>2, <2>3 DEF Boot, TypeOK, muVars, snapVars
  <1>2. CASE Crash
    <2>1. allow' \in AllowMap /\ entries' \in Seq(AuditEntry) /\ seen' \in SUBSET Nonces
      BY <1>2 DEF Crash, ProcessEnds, AllowMap
    <2>2. pc' \in [Procs -> Pcs] /\ req' \in [Procs -> RequestType]
          /\ held' \in [Procs -> Keys \cup {NoKey}] /\ memb' \in [Procs -> BOOLEAN]
      BY <1>2, IdleType DEF Crash, ProcessEnds, Pcs
    <2>3. pack' \in [Packers -> [allow : AllowMap \cup {None},
                                 audit : Seq(AuditEntry) \cup {None}]]
      BY <1>2, IdleType DEF Crash, ProcessEnds
    <2> QED
      BY <1>2, <2>1, <2>2, <2>3 DEF Crash, ProcessEnds, TypeOK, diskVars
  <1>3. CASE Shutdown
    <2>1. entries' \in Seq(AuditEntry) /\ auditDisk' \in Seq(AuditEntry) /\ faults' \in Nat
      BY <1>3, AuditAppendType DEF Shutdown, TypeOK, AuditActions, Args
    <2> QED
      BY <1>3, <2>1 DEF Shutdown, TypeOK, muVars, snapVars, obsVars
  <1> QED
    BY <1>1, <1>2, <1>3

(* A jump within a handler keeps the program counters in range.            *)
LEMMA GotoType ==
    ASSUME TypeOK, NEW p \in Procs, NEW l \in Pcs, Goto(p, l)
    PROVE  pc' \in [Procs -> Pcs]
  BY DEF TypeOK, Goto

(* So do the steps from a request's arrival to its authorisation.          *)
LEMMA AuthorisationType ==
    ASSUME TypeOK, HandlerInv, NEW p \in Procs,
           Arrive(p) \/ LockWrite(p) \/ VerifySeen(p) \/ VerifySign(p) \/ DelegateMember(p)
    PROVE  TypeOK'
  <1>1. CASE Arrive(p)
    <2> PICK q \in Requests :
          /\ req' = [req EXCEPT ![p] = q]
          /\ memb' = [memb EXCEPT ![p] = q.op = "get" /\ q.peer \in allowDisk[q.role]]
          /\ Goto(p, CASE q.op = "get" -> "allowed" [] q.op = "list" -> "verify" [] OTHER -> "lock")
      BY <1>1 DEF Arrive
    <2>1. req' \in [Procs -> RequestType] /\ memb' \in [Procs -> BOOLEAN]
      BY DEF TypeOK
    <2>2. pc' \in [Procs -> Pcs]
      BY GotoType DEF Pcs
    <2> QED
      BY <1>1, <2>1, <2>2 DEF Arrive, TypeOK, diskVars, memVars, muVars, snapVars
  <1>2. CASE LockWrite(p)
    BY <1>2 DEF LockWrite, Goto, TypeOK, Pcs, procVars, diskVars, memVars, snapVars, obsVars
  <1>3. CASE VerifySeen(p)
    <2>1. CASE Goto(p, "signature") /\ UNCHANGED <<writeMu, req, held, memb, pack>>
      BY <1>3, <2>1 DEF VerifySeen, Goto, TypeOK, Pcs, procVars, diskVars, memVars
    <2>2. CASE Return(p)
      BY <1>3, <2>2, ReturnType DEF VerifySeen, TypeOK, procVars, diskVars, memVars
    <2> QED
      BY <1>3, <2>1, <2>2 DEF VerifySeen
  <1>4. CASE VerifySign(p)
    <2>1. CASE Signed(req[p])
      <3>1. req[p] \in RequestType /\ req[p].nonce \in Nonces
        BY <1>4 DEF VerifySign, TypeOK, HandlerInv, RequestType
      <3>a. /\ seen' = seen \cup {req[p].nonce}
            /\ uses' = [uses EXCEPT ![req[p].nonce] = @ + 1]
            /\ accepted' = accepted \cup {ProofOf(req[p])}
        BY <1>4, <2>1 DEF VerifySign
      <3>2. seen' \in SUBSET Nonces /\ uses' \in [Nonces -> Nat]
        BY <3>1, <3>a DEF TypeOK
      <3>b. accepted' \in SUBSET SignedProofs
        BY <2>1, <3>a DEF TypeOK, Signed
      <3>3. pc' \in [Procs -> Pcs]
        BY <1>4, <2>1, GotoType DEF VerifySign, Pcs
      <3> QED
        BY <1>4, <2>1, <3>2, <3>3, <3>b DEF VerifySign, TypeOK, procVars, diskVars
    <2>2. CASE ~Signed(req[p])
      BY <1>4, <2>2, ReturnType DEF VerifySign, TypeOK, procVars, diskVars
    <2> QED
      BY <2>1, <2>2
  <1>5. CASE DelegateMember(p)
    <2>1. CASE Goto(p, "mutate") /\ UNCHANGED <<writeMu, req, held, memb, pack>>
      BY <1>5, <2>1 DEF DelegateMember, Goto, TypeOK, Pcs, procVars, diskVars, memVars
    <2>2. CASE Return(p)
      BY <1>5, <2>2, ReturnType DEF DelegateMember, TypeOK, procVars, diskVars, memVars
    <2> QED
      BY <1>5, <2>1, <2>2 DEF DelegateMember
  <1> QED
    BY <1>1, <1>2, <1>3, <1>4, <1>5

(* So do the steps that change and log the sealed state.                   *)
LEMMA MutationType ==
    ASSUME TypeOK, HandlerInv, NEW p \in Procs,
           AllowMutate(p) \/ AllowPersist(p) \/ KeyHas(p) \/ KeyWrite(p) \/ LogWrite(p)
    PROVE  TypeOK'
  <1>0. req[p] \in RequestType
    BY DEF TypeOK
  <1>1. CASE AllowMutate(p)
    <2>1. Mutated(req[p]) \in AllowMap
      <3>1. req[p].role \in Roles /\ req[p].arg \in Measurements
        BY <1>1 DEF AllowMutate, HandlerInv, OpsAt, WellFormed
      <3> QED
        BY <3>1 DEF Mutated, TypeOK, AllowMap
    <2>2. allow' \in AllowMap /\ allowMu' \in Procs \cup {None}
      BY <1>1, <2>1 DEF AllowMutate, TypeOK
    <2>3. pc' \in [Procs -> Pcs]
      BY <1>1, GotoType DEF AllowMutate, Pcs
    <2> QED
      BY <1>1, <2>2, <2>3 DEF AllowMutate, TypeOK, procVars, diskVars, snapVars, obsVars
  <1>2. CASE AllowPersist(p)
    <2>1. CASE /\ allowDisk' = allow
               /\ ever' = [r \in Roles |-> ever[r] \cup allow[r]]
               /\ memb' = [q \in Procs |-> memb[q] \/ (pc[q] # "idle" /\ req[q].op = "get"
                                             /\ req[q].peer \in allow[req[q].role])]
               /\ Goto(p, "log")
               /\ UNCHANGED <<faults, allow, writeMu, req, held, pack>>
      <3>a. ever' \in AllowMap
        BY <2>1 DEF TypeOK, AllowMap
      <3>b. memb' \in [Procs -> BOOLEAN]
        BY <2>1 DEF TypeOK
      <3>c. pc' \in [Procs -> Pcs]
        BY <2>1, GotoType DEF Pcs
      <3>1. ever' \in AllowMap /\ memb' \in [Procs -> BOOLEAN] /\ pc' \in [Procs -> Pcs]
        BY <3>a, <3>b, <3>c
      <3> QED
        BY <1>2, <2>1, <3>1 DEF AllowPersist, TypeOK
    <2>2. CASE Fault /\ allow' = RolledBack(req[p]) /\ Return(p) /\ UNCHANGED <<allowDisk, ever>>
      <3>1. req[p].role \in Roles /\ req[p].arg \in Measurements
        BY <1>2 DEF AllowPersist, HandlerInv, OpsAt, WellFormed
      <3>2. allow' \in AllowMap /\ faults' \in Nat
        BY <2>2, <3>1 DEF RolledBack, TypeOK, AllowMap, Fault
      <3> QED
        BY <1>2, <2>2, <3>2, ReturnType DEF AllowPersist, TypeOK
    <2> QED
      BY <1>2, <2>1, <2>2 DEF AllowPersist
  <1>3. CASE KeyHas(p)
    <2>1. CASE Goto(p, "store") /\ UNCHANGED <<writeMu, req, held, memb, pack>>
      BY <1>3, <2>1 DEF KeyHas, Goto, TypeOK, Pcs, procVars, diskVars, memVars
    <2>2. CASE Return(p)
      BY <1>3, <2>2, ReturnType DEF KeyHas, TypeOK, procVars, diskVars, memVars
    <2> QED
      BY <1>3, <2>1, <2>2 DEF KeyHas
  <1>4. CASE KeyWrite(p)
    <2>1. CASE keyDisk' = [keyDisk EXCEPT ![req[p].role] = req[p].arg] /\ Goto(p, "log")
               /\ UNCHANGED <<faults, writeMu, req, held, memb, pack>>
      <3>1. req[p].role \in Roles /\ req[p].arg \in Keys
        BY <1>4 DEF KeyWrite, HandlerInv, OpsAt, WellFormed
      <3>2. keyDisk' \in KeyMap /\ pc' \in [Procs -> Pcs]
        BY <2>1, <3>1 DEF TypeOK, KeyMap, Goto, Pcs
      <3> QED
        BY <1>4, <2>1, <3>2 DEF KeyWrite, TypeOK, memVars
    <2>2. CASE Fault /\ Return(p) /\ UNCHANGED keyDisk
      <3>1. faults' \in Nat /\ keyDisk' \in KeyMap
        BY <2>2 DEF Fault, TypeOK
      <3> QED
        BY <1>4, <2>2, <3>1, ReturnType DEF KeyWrite, TypeOK, memVars
    <2> QED
      BY <1>4, <2>1, <2>2 DEF KeyWrite
  <1>5. CASE LogWrite(p)
    <2>1. req[p].op \in AuditActions
      BY <1>5 DEF LogWrite, HandlerInv, OpsAt, WriteOps, AuditActions
    <2>2. entries' \in Seq(AuditEntry) /\ auditDisk' \in Seq(AuditEntry) /\ faults' \in Nat
      BY <1>0, <1>5, <2>1, AuditAppendType DEF LogWrite, TypeOK, RequestType
    <2> QED
      BY <1>5, <2>2 DEF LogWrite, Goto, TypeOK, Pcs, muVars, snapVars, obsVars
  <1> QED
    BY <1>1, <1>2, <1>3, <1>4, <1>5

(* So does packing a snapshot, by a handler or by the daily snapshotter.   *)
LEMMA SnapshotType ==
    ASSUME TypeOK, HandlerInv, NEW p \in Packers,
           PackAllow(p) \/ PackAudit(p) \/ PackKeys(p)
    PROVE  TypeOK'
  <1>1. CASE PackAllow(p)
    <2>0. pack[p] \in [allow : AllowMap \cup {None}, audit : Seq(AuditEntry) \cup {None}]
          /\ allowDisk \in AllowMap
      BY DEF TypeOK
    <2>a. [pack[p] EXCEPT !.allow = allowDisk] \in [allow : AllowMap \cup {None},
                                              audit : Seq(AuditEntry) \cup {None}]
      BY <2>0
    <2>b. pack' = [pack EXCEPT ![p] = [pack[p] EXCEPT !.allow = allowDisk]]
      BY <1>1 DEF PackAllow
    <2>1. pack' \in [Packers -> [allow : AllowMap \cup {None},
                                 audit : Seq(AuditEntry) \cup {None}]]
      BY <2>a, <2>b DEF TypeOK
    <2> QED
      BY <1>1, <2>1 DEF PackAllow, TypeOK, diskVars, memVars, muVars, obsVars
  <1>2. CASE PackAudit(p)
    <2>0. pack[p] \in [allow : AllowMap \cup {None}, audit : Seq(AuditEntry) \cup {None}]
          /\ auditDisk \in Seq(AuditEntry)
      BY DEF TypeOK
    <2>a. [pack[p] EXCEPT !.audit = auditDisk] \in [allow : AllowMap \cup {None},
                                              audit : Seq(AuditEntry) \cup {None}]
      BY <2>0
    <2>b. pack' = [pack EXCEPT ![p] = [pack[p] EXCEPT !.audit = auditDisk]]
      BY <1>2 DEF PackAudit
    <2>1. pack' \in [Packers -> [allow : AllowMap \cup {None},
                                 audit : Seq(AuditEntry) \cup {None}]]
      BY <2>a, <2>b DEF TypeOK
    <2> QED
      BY <1>2, <2>1 DEF PackAudit, TypeOK, procVars, diskVars, memVars, muVars, obsVars
  <1>3. CASE PackKeys(p)
    <2>1. pack[p].allow \in AllowMap /\ pack[p].audit \in Seq(AuditEntry)
      BY <1>3 DEF PackKeys, TypeOK, HandlerInv
    <2>2. lastSnap' \in [label : {"none", "daily", "post-write"}, keys : KeyMap,
                         allow : AllowMap, audit : Seq(AuditEntry)] /\ faults' \in Nat
      BY <1>3, <2>1 DEF PackKeys, TypeOK, Fault
    <2>3. CASE p = None
      <3>1. pack' \in [Packers -> [allow : AllowMap \cup {None},
                                   audit : Seq(AuditEntry) \cup {None}]]
        BY <1>3, <2>3, IdleType DEF PackKeys, TypeOK
      <3> QED
        BY <1>3, <2>2, <2>3, <3>1 DEF PackKeys, TypeOK, diskVars, memVars
    <2>4. CASE p # None
      <3>1. p \in Procs /\ Return(p)
        BY <1>3, <2>4 DEF PackKeys, Packers
      <3> QED
        BY <1>3, <2>2, <3>1, ReturnType DEF PackKeys, TypeOK, diskVars, memVars
    <2> QED
      BY <2>3, <2>4
  <1> QED
    BY <1>1, <1>2, <1>3

(* And so do the steps of get and list.                                    *)
LEMMA ReadType ==
    ASSUME TypeOK, HandlerInv, NEW p \in Procs,
           GetAllowed(p) \/ GetDenied(p) \/ GetRead(p) \/ GetAnswer(p) \/ ListAnswer(p)
    PROVE  TypeOK'
  <1>0. req[p] \in RequestType
    BY DEF TypeOK
  <1>1. CASE GetAllowed(p)
    BY <1>1 DEF GetAllowed, Goto, TypeOK, Pcs, procVars, diskVars, memVars, muVars, snapVars, obsVars
  <1>2. CASE GetDenied(p)
    <2>1. entries' \in Seq(AuditEntry) /\ auditDisk' \in Seq(AuditEntry) /\ faults' \in Nat
      BY <1>0, <1>2, AuditAppendType DEF GetDenied, TypeOK, RequestType, AuditActions, Args
    <2> QED
      BY <1>2, <2>1, ReturnType DEF GetDenied, TypeOK
  <1>3. CASE GetRead(p)
    <2>1. CASE held' = [held EXCEPT ![p] = keyDisk[req[p].role]] /\ Goto(p, "answer")
               /\ UNCHANGED <<faults, writeMu, req, memb, pack>>
      <3>1. req[p].role \in Roles
        BY <1>3 DEF GetRead, HandlerInv, OpsAt, WellFormed
      <3>2. held' \in [Procs -> Keys \cup {NoKey}] /\ pc' \in [Procs -> Pcs]
        BY <2>1, <3>1 DEF TypeOK, KeyMap, Goto, Pcs
      <3> QED
        BY <1>3, <2>1, <3>2 DEF GetRead, TypeOK, diskVars, memVars
    <2>2. CASE Return(p) /\ (UNCHANGED faults \/ Fault)
      BY <1>3, <2>2, ReturnType DEF GetRead, TypeOK, diskVars, memVars, Fault
    <2> QED
      BY <1>3, <2>1, <2>2 DEF GetRead
  <1>4. CASE GetAnswer(p)
    <2>1. entries' \in Seq(AuditEntry) /\ auditDisk' \in Seq(AuditEntry) /\ faults' \in Nat
      BY <1>0, <1>4, AuditAppendType DEF GetAnswer, TypeOK, RequestType, AuditActions, Args
    <2>2. req[p].role \in Roles /\ req[p].peer \in Measurements /\ held[p] \in Keys \cup {NoKey}
      BY <1>0, <1>4 DEF GetAnswer, HandlerInv, OpsAt, WellFormed, RequestType, TypeOK
    <2>3. released' \in SUBSET [role : Roles, peer : Measurements, key : Keys \cup {NoKey}]
      BY <1>4, <2>2 DEF GetAnswer, TypeOK
    <2> QED
      BY <1>4, <2>1, <2>3, ReturnType DEF GetAnswer, TypeOK
  <1>5. CASE ListAnswer(p)
    BY <1>5, ReturnType DEF ListAnswer, TypeOK, procVars, diskVars, memVars
  <1> QED
    BY <1>1, <1>2, <1>3, <1>4, <1>5

-----------------------------------------------------------------------------
(* The handler invariant.                                                  *)

(* A handler that moves to a control point of its operation, or returns,   *)
(* keeps HandlerInv.                                                       *)
LEMMA GotoInv ==
    ASSUME TypeOK, HandlerInv, NEW p \in Procs, NEW l \in Pcs,
           Goto(p, l), UNCHANGED <<req, pack>>,
           pc[p] # "idle", req[p].op \in OpsAt(l), l = "signature" => req[p].nonce # None
    PROVE  HandlerInv'
  BY DEF HandlerInv, Goto, TypeOK

(* A handler that returns keeps HandlerInv.                                *)
LEMMA ReturnInv ==
    ASSUME TypeOK, HandlerInv, NEW p \in Procs, Return(p)
    PROVE  HandlerInv'
  <1>1. \A q \in Procs : pc'[q] # "idle" => q # p /\ pc'[q] = pc[q] /\ req'[q] = req[q]
    BY DEF Return, TypeOK
  <1>2. \A q \in Packers : pack'[q].audit # None => pack'[q] = pack[q]
    BY DEF Return, TypeOK, NoPack
  <1> QED
    BY <1>1, <1>2 DEF HandlerInv

(* Every step keeps the handlers at control points of their operation.     *)
LEMMA HandlerStep ==
    ASSUME TypeOK, HandlerInv, [Next]_vars
    PROVE  HandlerInv'
  <1> USE DEF WriteOps
  <1>1. CASE Boot
    BY <1>1 DEF Boot, HandlerInv, snapVars
  <1>2. CASE Crash
    BY <1>2 DEF Crash, ProcessEnds, HandlerInv, NoPack
  <1>3. CASE Shutdown
    BY <1>3 DEF Shutdown, HandlerInv, snapVars
  <1>4. ASSUME NEW p \in Packers, PackAllow(p) \/ PackAudit(p) \/ PackKeys(p)
        PROVE  HandlerInv'
    <2>1. CASE PackAllow(p)
      BY <2>1 DEF PackAllow, HandlerInv, TypeOK, NoPack
    <2>2. CASE PackAudit(p)
      <3>1. pack' = [pack EXCEPT ![p] = [pack[p] EXCEPT !.audit = auditDisk]] /\ pack[p].allow # None
        BY <2>2 DEF PackAudit
      <3>2. pack'[p].allow = pack[p].allow /\ \A q \in Packers \ {p} : pack'[q] = pack[q]
        BY <3>1 DEF TypeOK
      <3> QED
        BY <2>2, <3>1, <3>2 DEF PackAudit, HandlerInv
    <2>3. CASE PackKeys(p) /\ p = None
      <3>1. pack' = [pack EXCEPT ![p] = NoPack] /\ UNCHANGED <<pc, req>>
        BY <2>3 DEF PackKeys
      <3>2. pack'[p] = NoPack /\ \A q \in Packers \ {p} : pack'[q] = pack[q]
        BY <3>1 DEF TypeOK
      <3> QED
        BY <3>1, <3>2 DEF HandlerInv, NoPack
    <2>4. CASE PackKeys(p) /\ p # None
      BY <2>4, ReturnInv DEF PackKeys, Packers
    <2> QED
      BY <1>4, <2>1, <2>2, <2>3, <2>4
  <1>5. ASSUME NEW p \in Procs, Arrive(p)
        PROVE  HandlerInv'
    <2> PICK q \in Requests :
          /\ req' = [req EXCEPT ![p] = q]
          /\ Goto(p, CASE q.op = "get" -> "allowed" [] q.op = "list" -> "verify" [] OTHER -> "lock")
      BY <1>5 DEF Arrive
    <2>1. q.op \in Ops /\ WellFormed(q) /\ UNCHANGED pack
      BY <1>5 DEF RequestType, Arrive, snapVars
    <2>2. pc'[p] \in {"allowed", "verify", "lock"} /\ q.op \in OpsAt(pc'[p])
      BY <2>1 DEF Goto, TypeOK, OpsAt, Ops
    <2>3. \A r \in Procs \ {p} : pc'[r] = pc[r] /\ req'[r] = req[r]
      BY DEF Goto, TypeOK
    <2>4. req'[p] = q
      BY DEF TypeOK
    <2> QED
      BY <2>1, <2>2, <2>3, <2>4 DEF HandlerInv
  <1>6. ASSUME NEW p \in Procs, LockWrite(p)
        PROVE  HandlerInv'
    <2>1. req[p].op \in WriteOps
      BY <1>6 DEF LockWrite, HandlerInv, OpsAt
    <2> QED
      BY <1>6, <2>1, GotoInv DEF LockWrite, OpsAt, Pcs, snapVars
  <1>7. ASSUME NEW p \in Procs, VerifySeen(p) \/ VerifySign(p) \/ DelegateMember(p)
        PROVE  HandlerInv'
    <2>1. CASE Return(p)
      BY <2>1, ReturnInv
    <2>2. CASE VerifySeen(p) /\ ~Return(p)
      <3>1. req[p].op \in OpsAt("signature")
        BY <2>2 DEF VerifySeen, HandlerInv, OpsAt
      <3> QED
        BY <2>2, <3>1, GotoInv DEF VerifySeen, Pcs
    <2>3. CASE VerifySign(p) /\ ~Return(p)
      <3>1. req[p].op \in WriteOps \cup {"list"}
        BY <2>3 DEF VerifySign, HandlerInv, OpsAt
      <3>2. CASE req[p].op = "provision"
        BY <2>3, <3>2, GotoInv DEF VerifySign, Pcs, OpsAt
      <3>3. CASE req[p].op = "list"
        BY <2>3, <3>3, GotoInv DEF VerifySign, Pcs, OpsAt
      <3>4. CASE req[p].op \in {"delegate", "revoke"}
        BY <2>3, <3>4, GotoInv DEF VerifySign, Pcs, OpsAt
      <3> QED
        BY <3>1, <3>2, <3>3, <3>4
    <2>4. CASE DelegateMember(p) /\ ~Return(p)
      <3>1. req[p].op \in OpsAt("mutate")
        BY <2>4 DEF DelegateMember, HandlerInv, OpsAt
      <3> QED
        BY <2>4, <3>1, GotoInv DEF DelegateMember, Pcs
    <2> QED
      BY <1>7, <2>1, <2>2, <2>3, <2>4
  <1>8. ASSUME NEW p \in Procs, AllowMutate(p) \/ AllowPersist(p)
        PROVE  HandlerInv'
    <2>0. req[p].op \in {"delegate", "revoke"} /\ pc[p] # "idle"
      BY <1>8 DEF AllowMutate, AllowPersist, HandlerInv, OpsAt
    <2>1. CASE Return(p)
      BY <2>1, ReturnInv
    <2>2. CASE Goto(p, "log") /\ UNCHANGED <<req, pack>>
      BY <2>0, <2>2, GotoInv DEF OpsAt, Pcs
    <2>3. CASE Goto(p, "persist") /\ UNCHANGED <<req, pack>>
      BY <2>0, <2>3, GotoInv DEF OpsAt, Pcs
    <2> QED
      BY <1>8, <2>1, <2>2, <2>3 DEF AllowMutate, AllowPersist, snapVars
  <1>9. ASSUME NEW p \in Procs, KeyHas(p) \/ KeyWrite(p) \/ LogWrite(p)
        PROVE  HandlerInv'
    <2>1. CASE Return(p)
      BY <2>1, ReturnInv
    <2>2. CASE KeyHas(p) /\ ~Return(p)
      <3>1. req[p].op \in OpsAt("store")
        BY <2>2 DEF KeyHas, HandlerInv, OpsAt
      <3> QED
        BY <2>2, <3>1, GotoInv DEF KeyHas, Pcs
    <2>3. CASE KeyWrite(p) /\ ~Return(p)
      <3>1. req[p].op \in OpsAt("log")
        BY <2>3 DEF KeyWrite, HandlerInv, OpsAt
      <3> QED
        BY <2>3, <3>1, GotoInv DEF KeyWrite, Pcs
    <2>4. CASE LogWrite(p)
      <3>1. req[p].op \in OpsAt("snap")
        BY <2>4 DEF LogWrite, HandlerInv, OpsAt
      <3> QED
        BY <2>4, <3>1, GotoInv DEF LogWrite, Pcs, snapVars
    <2> QED
      BY <1>9, <2>1, <2>2, <2>3, <2>4
  <1>10. ASSUME NEW p \in Procs, GetAllowed(p) \/ GetDenied(p) \/ GetRead(p)
                                  \/ GetAnswer(p) \/ ListAnswer(p)
         PROVE  HandlerInv'
    <2>1. CASE Return(p)
      BY <2>1, ReturnInv
    <2>2. CASE GetAllowed(p)
      <3>1. req[p].op \in OpsAt("read") /\ req[p].op \in OpsAt("denied")
        BY <2>2 DEF GetAllowed, HandlerInv, OpsAt
      <3> QED
        BY <2>2, <3>1, GotoInv DEF GetAllowed, Pcs, snapVars
    <2>3. CASE GetRead(p) /\ ~Return(p)
      <3>1. req[p].op \in OpsAt("answer")
        BY <2>3 DEF GetRead, HandlerInv, OpsAt
      <3> QED
        BY <2>3, <3>1, GotoInv DEF GetRead, Pcs
    <2> QED
      BY <1>10, <2>1, <2>2, <2>3 DEF GetDenied, GetAnswer, ListAnswer
  <1>11. CASE UNCHANGED vars
    BY <1>11 DEF vars, HandlerInv
  <1> QED
    BY <1>1, <1>2, <1>3, <1>4, <1>5, <1>6, <1>7, <1>8, <1>9, <1>10, <1>11
       DEF Next, DailySnapshot, Handler, Packers

(* Every step keeps the types.                                             *)
LEMMA TypeStep ==
    ASSUME TypeOK, HandlerInv, [Next]_vars
    PROVE  TypeOK'
  <1>1. CASE UNCHANGED vars
    BY <1>1 DEF vars, TypeOK
  <1>2. ASSUME NEW p \in Packers, PackAllow(p) \/ PackAudit(p) \/ PackKeys(p)
        PROVE  TypeOK'
    BY <1>2, SnapshotType
  <1> QED
    BY <1>1, <1>2, LifeCycleType, AuthorisationType, MutationType, ReadType
       DEF Next, DailySnapshot, Handler, Packers

(* The initial state is well-typed and has no running handler.             *)
LEMMA InitInv == Init => TypeOK /\ HandlerInv
  <1> SUFFICES ASSUME Init PROVE TypeOK /\ HandlerInv
    OBVIOUS
  <1>1. HandlerInv
    BY DEF Init, HandlerInv, NoPack
  <1>2. /\ req \in [Procs -> RequestType]
        /\ pack \in [Packers -> [allow : AllowMap \cup {None},
                                 audit : Seq(AuditEntry) \cup {None}]]
    BY IdleType DEF Init
  <1>3. /\ keyDisk \in KeyMap /\ allowDisk \in AllowMap /\ allow \in AllowMap
        /\ ever \in AllowMap
    BY DEF Init, KeyMap, AllowMap
  <1>4. lastSnap \in [label : {"none", "daily", "post-write"}, keys : KeyMap,
                      allow : AllowMap, audit : Seq(AuditEntry)]
    BY DEF Init, NoSnap, KeyMap, AllowMap
  <1>5. pc \in [Procs -> Pcs] /\ held \in [Procs -> Keys \cup {NoKey}]
    BY DEF Init, Pcs
  <1> QED
    BY <1>1, <1>2, <1>3, <1>4, <1>5 DEF Init, TypeOK

(* Keystore's variables keep their types, and its handlers run only at     *)
(* control points of their own operation, in every behaviour.              *)
THEOREM TypeCorrect == Spec => [](TypeOK /\ HandlerInv)
  <1>1. TypeOK /\ HandlerInv /\ [Next]_vars => (TypeOK /\ HandlerInv)'
    BY TypeStep, HandlerStep
  <1> QED
    BY <1>1, InitInv, PTL DEF Spec

-----------------------------------------------------------------------------
(* Mutual exclusion of the write handlers, and what it protects.           *)

InCritical(p) ==
    \/ pc[p] \in {"member", "mutate", "persist", "has", "store", "log", "snap"}
    \/ pc[p] \in {"verify", "signature"} /\ req[p].op \in WriteOps

(* A handler in the critical section of the writes holds writeMu.          *)
MutexInv == \A p \in Procs : InCritical(p) => writeMu = p

(* The role is still free when Provision writes its file.                  *)
KeyInv == \A p \in Procs : pc[p] = "store" => keyDisk[req[p].role] = NoKey

(* allowlist.mu is held exactly while a change awaits its write; undoing   *)
(* the change gives what is on disk; otherwise memory and disk agree.      *)
AllowInv ==
    /\ phase = "down" => \A p \in Procs : pc[p] = "idle"
    /\ \A p \in Procs : pc[p] = "persist" <=> allowMu = p
    /\ allowMu = None /\ phase # "down" => allow = allowDisk
    /\ \A p \in Procs : pc[p] = "persist" =>
         /\ allowDisk = RolledBack(req[p])
         /\ allow = Mutated(req[p])

(* Every handler's step leaves the other handlers where they are.          *)
LEMMA Frame ==
    ASSUME TypeOK, NEW p \in Procs, LockWrite(p) \/ Handler(p)
    PROVE  /\ \A q \in Procs \ {p} : pc'[q] = pc[q] /\ req'[q] = req[q]
           /\ \/ req'[p] = req[p]
              \/ pc'[p] = "idle"
  <1>1. CASE Return(p)
    BY <1>1 DEF Return, TypeOK
  <1>2. ASSUME NEW l, Goto(p, l), UNCHANGED req
        PROVE  \A q \in Procs \ {p} : pc'[q] = pc[q] /\ req'[q] = req[q]
    BY <1>2 DEF Goto, TypeOK
  <1>3. CASE UNCHANGED <<pc, req>>
    BY <1>3
  <1>4. CASE LockWrite(p) \/ VerifySeen(p) \/ VerifySign(p) \/ DelegateMember(p)
    BY <1>1, <1>2, <1>4 DEF LockWrite, VerifySeen, VerifySign, DelegateMember
  <1>5. CASE AllowMutate(p) \/ AllowPersist(p) \/ KeyHas(p) \/ KeyWrite(p) \/ LogWrite(p)
    BY <1>1, <1>2, <1>5 DEF AllowMutate, AllowPersist, KeyHas, KeyWrite, LogWrite
  <1>6. CASE PackAllow(p) \/ PackAudit(p) \/ PackKeys(p)
    BY <1>1, <1>3, <1>6 DEF PackAllow, PackAudit, PackKeys
  <1>7. CASE GetAllowed(p) \/ GetDenied(p) \/ GetRead(p) \/ GetAnswer(p) \/ ListAnswer(p)
    BY <1>1, <1>2, <1>7 DEF GetAllowed, GetDenied, GetRead, GetAnswer, ListAnswer
  <1> QED
    BY <1>4, <1>5, <1>6, <1>7 DEF Handler

(* Every step keeps the write handlers exclusive: writeMu is held from the *)
(* lock to the return.                                                     *)
LEMMA MutexStep ==
    ASSUME TypeOK, HandlerInv, MutexInv, [Next]_vars
    PROVE  MutexInv'
  <1> USE DEF WriteOps
  <1>1. CASE Boot \/ Shutdown \/ DailySnapshot \/ UNCHANGED vars
    BY <1>1 DEF Boot, Shutdown, DailySnapshot, PackAllow, PackAudit, PackKeys, vars,
                MutexInv, InCritical, muVars
  <1>2. CASE Crash
    BY <1>2 DEF Crash, ProcessEnds, MutexInv, InCritical
  <1>3. ASSUME NEW p \in Procs, Arrive(p)
        PROVE  MutexInv'
    <2>1. PICK q \in Requests :
          /\ req' = [req EXCEPT ![p] = q]
          /\ Goto(p, CASE q.op = "get" -> "allowed" [] q.op = "list" -> "verify" [] OTHER -> "lock")
      BY <1>3 DEF Arrive
    <2>2. ~InCritical(p)'
      BY <2>1 DEF Goto, TypeOK, InCritical
    <2>3. \A r \in Procs \ {p} : pc'[r] = pc[r] /\ req'[r] = req[r]
      BY <2>1 DEF Goto, TypeOK
    <2> QED
      BY <1>3, <2>2, <2>3 DEF Arrive, muVars, MutexInv, InCritical
  <1>4. ASSUME NEW p \in Procs, LockWrite(p) \/ Handler(p)
        PROVE  MutexInv'
    <2>1. \A q \in Procs \ {p} : InCritical(q)' => InCritical(q) /\ writeMu = q
      BY <1>4, Frame DEF InCritical, MutexInv
    <2>2. CASE Return(p)
      <3>1. ~InCritical(p)'
        BY <2>2 DEF Return, InCritical, TypeOK
      <3> QED
        BY <2>1, <2>2, <3>1 DEF Return, MutexInv
    <2>3. CASE LockWrite(p)
      BY <2>1, <2>3 DEF LockWrite, MutexInv
    <2>4. CASE Handler(p) /\ ~Return(p)
      <3>1. UNCHANGED <<writeMu, req>>
        BY <2>4 DEF Handler, VerifySeen, VerifySign, DelegateMember, AllowMutate, AllowPersist,
             KeyHas, KeyWrite, LogWrite, PackAllow, PackAudit, PackKeys, GetAllowed,
             GetDenied, GetRead, GetAnswer, ListAnswer, muVars
      <3>2. InCritical(p)' => InCritical(p)
        <4>0. req[p].op \in OpsAt(pc[p]) \/ pc[p] = "idle"
          BY DEF HandlerInv
        <4>1. CASE VerifySeen(p) \/ VerifySign(p) \/ DelegateMember(p)
          BY <2>4, <3>1, <4>0, <4>1 DEF VerifySeen, VerifySign, DelegateMember, Goto, TypeOK, InCritical, OpsAt
        <4>2. CASE AllowMutate(p) \/ AllowPersist(p) \/ KeyHas(p) \/ KeyWrite(p) \/ LogWrite(p)
          BY <4>2 DEF AllowMutate, AllowPersist, KeyHas, KeyWrite, LogWrite, InCritical
        <4>3. CASE PackAllow(p) \/ PackAudit(p) \/ PackKeys(p)
          BY <2>4, <4>3 DEF PackAllow, PackAudit, PackKeys, InCritical
        <4>4. CASE GetAllowed(p) \/ GetDenied(p) \/ GetRead(p) \/ GetAnswer(p) \/ ListAnswer(p)
          BY <2>4, <4>4 DEF GetAllowed, GetDenied, GetRead, GetAnswer, ListAnswer, Goto, TypeOK, InCritical
        <4> QED
          BY <2>4, <4>1, <4>2, <4>3, <4>4 DEF Handler
      <3> QED
        BY <2>1, <3>1, <3>2 DEF MutexInv
    <2> QED
      BY <1>4, <2>2, <2>3, <2>4
  <1> QED
    BY <1>1, <1>2, <1>3, <1>4 DEF Next

(* Every step other than KeyWrite leaves the key files alone.              *)
LEMMA KeyFrame ==
    ASSUME [Next]_vars, \A p \in Procs : ~KeyWrite(p)
    PROVE  UNCHANGED keyDisk
  <1>1. CASE Boot \/ Crash \/ Shutdown \/ DailySnapshot \/ UNCHANGED vars
    BY <1>1 DEF Boot, Crash, ProcessEnds, Shutdown, DailySnapshot, PackAllow, PackAudit,
       PackKeys, vars, diskVars
  <1>2. ASSUME NEW p \in Procs, Arrive(p) \/ LockWrite(p) \/ VerifySeen(p) \/ VerifySign(p)
                               \/ DelegateMember(p) \/ AllowMutate(p)
        PROVE  UNCHANGED keyDisk
    BY <1>2 DEF Arrive, LockWrite, VerifySeen, VerifySign, DelegateMember, AllowMutate, diskVars
  <1>3. ASSUME NEW p \in Procs, AllowPersist(p) \/ KeyHas(p) \/ LogWrite(p) \/ PackAllow(p)
                               \/ PackAudit(p) \/ PackKeys(p)
        PROVE  UNCHANGED keyDisk
    BY <1>3 DEF AllowPersist, KeyHas, LogWrite, PackAllow, PackAudit, PackKeys, diskVars
  <1>4. ASSUME NEW p \in Procs, GetAllowed(p) \/ GetDenied(p) \/ GetRead(p) \/ GetAnswer(p)
                               \/ ListAnswer(p)
        PROVE  UNCHANGED keyDisk
    BY <1>4 DEF GetAllowed, GetDenied, GetRead, GetAnswer, ListAnswer, diskVars
  <1> QED
    BY <1>1, <1>2, <1>3, <1>4 DEF Next, Handler

(* No step stores a key under the role that a Provision is about to write. *)
LEMMA KeyStep ==
    ASSUME TypeOK, HandlerInv, MutexInv, KeyInv, [Next]_vars
    PROVE  KeyInv'
  <1>1. ASSUME NEW p \in Procs, KeyWrite(p)
        PROVE  KeyInv'
    <2>1. \A q \in Procs \ {p} : pc'[q] # "store"
      BY <1>1, Frame DEF KeyWrite, MutexInv, InCritical, Handler
    <2>2. pc'[p] # "store"
      BY <1>1 DEF KeyWrite, Goto, Return, TypeOK
    <2> QED
      BY <2>1, <2>2 DEF KeyInv
  <1>2. ASSUME NEW p \in Procs, LockWrite(p) \/ Handler(p), ~KeyWrite(p), UNCHANGED keyDisk
        PROVE  KeyInv'
    <2>1. pc'[p] = "store" => (pc[p] = "store" \/ keyDisk[req[p].role] = NoKey) /\ req'[p] = req[p]
      <3>1. CASE Return(p)
        BY <3>1 DEF Return, TypeOK
      <3>2. CASE KeyHas(p)
        BY <3>2 DEF KeyHas, Goto, Return, TypeOK
      <3>3. CASE LockWrite(p) \/ VerifySeen(p) \/ VerifySign(p) \/ DelegateMember(p)
        BY <3>1, <3>3 DEF LockWrite, VerifySeen, VerifySign, DelegateMember, Goto, TypeOK
      <3>4. CASE AllowMutate(p) \/ AllowPersist(p) \/ LogWrite(p)
        BY <3>1, <3>4 DEF AllowMutate, AllowPersist, LogWrite, Goto, TypeOK
      <3>5. CASE PackAllow(p) \/ PackAudit(p) \/ PackKeys(p)
        BY <3>1, <3>5 DEF PackAllow, PackAudit, PackKeys
      <3>6. CASE GetAllowed(p) \/ GetDenied(p) \/ GetRead(p) \/ GetAnswer(p) \/ ListAnswer(p)
        BY <3>1, <3>6 DEF GetAllowed, GetDenied, GetRead, GetAnswer, ListAnswer, Goto, TypeOK
      <3> QED
        BY <1>2, <3>2, <3>3, <3>4, <3>5, <3>6 DEF Handler
    <2> QED
      BY <1>2, <2>1, Frame DEF KeyInv
  <1>3. ASSUME NEW p \in Procs, Arrive(p)
        PROVE  KeyInv'
    <2>1. \A r \in Procs \ {p} : pc'[r] = pc[r] /\ req'[r] = req[r]
      BY <1>3 DEF Arrive, Goto, TypeOK
    <2>2. pc'[p] # "store" /\ UNCHANGED keyDisk
      BY <1>3 DEF Arrive, Goto, TypeOK, diskVars
    <2> QED
      BY <2>1, <2>2 DEF KeyInv
  <1>4. CASE Boot \/ Shutdown \/ DailySnapshot \/ UNCHANGED vars
    BY <1>4 DEF Boot, Shutdown, DailySnapshot, PackAllow, PackAudit, PackKeys, vars, KeyInv, diskVars
  <1>5. CASE Crash
    BY <1>5 DEF Crash, ProcessEnds, KeyInv
  <1> QED
    BY <1>1, <1>2, <1>3, <1>4, <1>5, KeyFrame DEF Next

WriteInv == TypeOK /\ HandlerInv /\ MutexInv /\ KeyInv

(* No step changes the key of a role that has one.                         *)
LEMMA WriteOnceStep ==
    ASSUME WriteInv, [Next]_vars
    PROVE  \A r \in Roles : keyDisk[r] # NoKey => keyDisk'[r] = keyDisk[r]
  <1>1. ASSUME NEW p \in Procs, KeyWrite(p)
        PROVE  \A r \in Roles : keyDisk[r] # NoKey => keyDisk'[r] = keyDisk[r]
    BY <1>1 DEF KeyWrite, WriteInv, KeyInv, TypeOK, KeyMap
  <1> QED
    BY <1>1, KeyFrame

(* Mutual exclusion and the freedom of the role about to be provisioned    *)
(* hold in every behaviour.                                                *)
THEOREM WriteInvariant == Spec => []WriteInv
  <1>1. Init => WriteInv
    BY InitInv DEF WriteInv, Init, MutexInv, InCritical, KeyInv
  <1>2. WriteInv /\ [Next]_vars => WriteInv'
    BY TypeStep, HandlerStep, MutexStep, KeyStep DEF WriteInv
  <1> QED
    BY <1>1, <1>2, PTL DEF Spec

(* keyStore.Provision is one-shot for every set of concurrent requests,    *)
(* failed writes and restarts: a role's key never changes once stored.     *)
THEOREM KeysAreWriteOnce == Spec => WriteOnceKey
  <1>1. WriteInv /\ [Next]_vars =>
          [\A r \in Roles : keyDisk[r] # NoKey => keyDisk'[r] = keyDisk[r]]_vars
    BY WriteOnceStep
  <1> QED
    BY <1>1, WriteInvariant, PTL DEF Spec, WriteOnceKey

-----------------------------------------------------------------------------
(* The allowlist: memory, file and lock.                                   *)

(* Only Boot, the end of the process and the two steps of Add and Remove   *)
(* touch the allowlist.                                                    *)
LEMMA AllowFrame ==
    ASSUME NEW p \in Procs, LockWrite(p) \/ Handler(p), ~AllowMutate(p), ~AllowPersist(p)
    PROVE  UNCHANGED <<phase, allow, allowDisk, allowMu>>
  BY DEF Handler, LockWrite, VerifySeen, VerifySign, DelegateMember, KeyHas, KeyWrite, LogWrite,
     PackAllow, PackAudit, PackKeys, GetAllowed, GetDenied, GetRead, GetAnswer, ListAnswer,
     vars, procVars, diskVars, memVars, muVars

(* Nothing else brings a handler to the write of the allowlist, or takes   *)
(* it away from there.                                                     *)
LEMMA PersistFrame ==
    ASSUME TypeOK, NEW p \in Procs, LockWrite(p) \/ Handler(p), ~AllowMutate(p), ~AllowPersist(p)
    PROVE  pc[p] # "persist" /\ pc'[p] # "persist"
  <1>1. CASE pc[p] # "persist" /\ Return(p)
    BY <1>1 DEF Return, TypeOK
  <1>2. CASE LockWrite(p) \/ VerifySeen(p) \/ VerifySign(p) \/ DelegateMember(p)
    BY <1>1, <1>2 DEF LockWrite, VerifySeen, VerifySign, DelegateMember, Goto, TypeOK
  <1>3. CASE KeyHas(p) \/ KeyWrite(p) \/ LogWrite(p)
    BY <1>1, <1>3 DEF KeyHas, KeyWrite, LogWrite, Goto, TypeOK
  <1>4. CASE PackAllow(p)
    BY <1>4 DEF PackAllow
  <1>5. CASE PackAudit(p) \/ PackKeys(p)
    BY <1>1, <1>5 DEF PackAudit, PackKeys
  <1>6. CASE GetAllowed(p) \/ GetDenied(p) \/ GetRead(p) \/ GetAnswer(p) \/ ListAnswer(p)
    BY <1>1, <1>6 DEF GetAllowed, GetDenied, GetRead, GetAnswer, ListAnswer, Goto, TypeOK
  <1> QED
    BY <1>2, <1>3, <1>4, <1>5, <1>6 DEF Handler

(* allowlist.Add and Remove change memory only: undoing the change gives   *)
(* back what is on disk.                                                   *)
LEMMA MutateStep ==
    ASSUME TypeOK, HandlerInv, AllowInv, NEW p \in Procs, AllowMutate(p)
    PROVE  AllowInv'
  <1>1. /\ req[p].role \in Roles /\ req[p].arg \in Measurements
        /\ req[p].op \in {"delegate", "revoke"} /\ pc[p] = "mutate" /\ phase # "down"
    BY DEF AllowMutate, HandlerInv, OpsAt, WellFormed, AllowInv, TypeOK
  <1>2. allowMu = None /\ allow = allowDisk /\ UNCHANGED <<phase, req, allowDisk>>
    BY <1>1 DEF AllowMutate, AllowInv, procVars, diskVars
  <1>3. \A q \in Procs : pc[q] # "persist"
    BY <1>2 DEF AllowInv
  <1>4. CASE UNCHANGED <<allow, allowMu>> /\ Goto(p, "log")
    BY <1>1, <1>2, <1>3, <1>4 DEF AllowInv, Goto, TypeOK
  <1>5. CASE Mutated(req[p]) # allow /\ allow' = Mutated(req[p]) /\ allowMu' = p /\ Goto(p, "persist")
    <2>1. \A q \in Procs : pc'[q] = "persist" <=> q = p
      BY <1>3, <1>5 DEF Goto, TypeOK
    <2>2. phase' = "down" => \A q \in Procs : pc'[q] = "idle"
      BY <1>1, <1>2
    <2>3. allow \in AllowMap
      BY DEF TypeOK
    <2>4. Mutated(req[p])' = allow' /\ RolledBack(req[p])' = allowDisk'
      <3> DEFINE r == req[p].role
                 m == req[p].arg
      <3>1. CASE req[p].op = "delegate"
        <4>1. m \notin allow[r]
          BY <1>1, <1>5, <2>3, <3>1 DEF Mutated, AllowMap
        <4>2. allow' = [allow EXCEPT ![r] = allow[r] \cup {m}]
          BY <1>5, <3>1 DEF Mutated
        <4>3. /\ Mutated(req[p])' = [allow' EXCEPT ![r] = allow'[r] \cup {m}]
              /\ RolledBack(req[p])' = [allow' EXCEPT ![r] = allow'[r] \ {m}]
          BY <1>2, <3>1 DEF Mutated, RolledBack
        <4>4. allow'[r] = allow[r] \cup {m}
          BY <1>1, <2>3, <4>2 DEF AllowMap
        <4>5. allow'[r] \cup {m} = allow'[r] /\ allow'[r] \ {m} = allow[r]
          BY <4>1, <4>4
        <4>6. [allow' EXCEPT ![r] = allow'[r]] = allow'
          BY <2>3, <4>2 DEF AllowMap
        <4>7. [allow' EXCEPT ![r] = allow[r]] = allow
          BY <2>3, <4>2 DEF AllowMap
        <4> QED
          BY <1>2, <4>3, <4>5, <4>6, <4>7
      <3>2. CASE req[p].op = "revoke"
        <4>1. m \in allow[r]
          BY <1>1, <1>5, <2>3, <3>2 DEF Mutated, AllowMap
        <4>2. allow' = [allow EXCEPT ![r] = allow[r] \ {m}]
          BY <1>5, <3>2 DEF Mutated
        <4>3. /\ Mutated(req[p])' = [allow' EXCEPT ![r] = allow'[r] \ {m}]
              /\ RolledBack(req[p])' = [allow' EXCEPT ![r] = allow'[r] \cup {m}]
          BY <1>2, <3>2 DEF Mutated, RolledBack
        <4>4. allow'[r] = allow[r] \ {m}
          BY <1>1, <2>3, <4>2 DEF AllowMap
        <4>5. allow'[r] \ {m} = allow'[r] /\ allow'[r] \cup {m} = allow[r]
          BY <4>1, <4>4
        <4>6. [allow' EXCEPT ![r] = allow'[r]] = allow'
          BY <2>3, <4>2 DEF AllowMap
        <4>7. [allow' EXCEPT ![r] = allow[r]] = allow
          BY <2>3, <4>2 DEF AllowMap
        <4> QED
          BY <1>2, <4>3, <4>5, <4>6, <4>7
      <3> QED
        BY <1>1, <3>1, <3>2
    <2> QED
      BY <1>2, <1>5, <2>1, <2>2, <2>4 DEF AllowInv
  <1> QED
    BY <1>4, <1>5 DEF AllowMutate

(* persistLocked leaves memory and disk equal, written or rolled back.     *)
LEMMA PersistStep ==
    ASSUME TypeOK, HandlerInv, AllowInv, NEW p \in Procs, AllowPersist(p)
    PROVE  AllowInv'
  <1>1. /\ pc[p] = "persist" /\ allowMu = p /\ phase # "down"
        /\ allowMu' = None /\ UNCHANGED phase
    BY DEF AllowPersist, AllowInv, TypeOK
  <1>2. \A q \in Procs \ {p} : pc[q] # "persist" /\ pc'[q] = pc[q]
    BY <1>1, Frame DEF AllowInv, Handler
  <1>3. pc'[p] # "persist"
    BY DEF AllowPersist, Goto, Return, TypeOK
  <1>4. allow' = allowDisk'
    BY <1>1 DEF AllowPersist, AllowInv
  <1> QED
    BY <1>1, <1>2, <1>3, <1>4 DEF AllowInv

(* Every step keeps the agreement of the allowlist with its file and lock. *)
LEMMA AllowStep ==
    ASSUME TypeOK, HandlerInv, AllowInv, [Next]_vars
    PROVE  AllowInv'
  <1>1. CASE Boot
    <2>1. \A q \in Procs : pc[q] = "idle"
      BY <1>1 DEF Boot, AllowInv
    <2>2. allowMu = None
      BY <2>1 DEF AllowInv, TypeOK
    <2> QED
      BY <1>1, <2>1, <2>2 DEF Boot, AllowInv, muVars
  <1>2. CASE Crash
    BY <1>2 DEF Crash, ProcessEnds, AllowInv
  <1>3. CASE Shutdown
    BY <1>3 DEF Shutdown, AllowInv, muVars, Mutated, RolledBack
  <1>4. CASE DailySnapshot \/ UNCHANGED vars
    BY <1>4 DEF DailySnapshot, PackAllow, PackAudit, PackKeys, vars, AllowInv, procVars,
                diskVars, memVars, muVars, Mutated, RolledBack
  <1>5. ASSUME NEW p \in Procs, Arrive(p)
        PROVE  AllowInv'
    <2>1. \A r \in Procs \ {p} : pc'[r] = pc[r] /\ req'[r] = req[r]
      BY <1>5 DEF Arrive, Goto, TypeOK
    <2>2. pc'[p] # "persist" /\ pc[p] # "persist" /\ phase # "down"
          /\ UNCHANGED <<phase, allow, allowDisk, allowMu>>
      BY <1>5 DEF Arrive, Goto, TypeOK, diskVars, memVars, muVars
    <2> QED
      BY <2>1, <2>2 DEF AllowInv, Mutated, RolledBack
  <1>6. ASSUME NEW p \in Procs, LockWrite(p) \/ Handler(p), ~AllowMutate(p), ~AllowPersist(p)
        PROVE  AllowInv'
    <2>1. UNCHANGED <<phase, allow, allowDisk, allowMu>>
      BY <1>6, AllowFrame
    <2>2. \A r \in Procs \ {p} : pc'[r] = pc[r] /\ req'[r] = req[r]
      BY <1>6, Frame
    <2>3. pc[p] # "persist" /\ pc'[p] # "persist"
      BY <1>6, PersistFrame
    <2>4. phase # "down"
      BY <1>6 DEF AllowInv, Handler, LockWrite, VerifySeen, VerifySign, DelegateMember, KeyHas,
         KeyWrite, LogWrite, PackAllow, PackAudit, PackKeys, GetAllowed, GetDenied, GetRead,
         GetAnswer, ListAnswer
    <2> QED
      BY <2>1, <2>2, <2>3, <2>4 DEF AllowInv, Mutated, RolledBack
  <1> QED
    BY <1>1, <1>2, <1>3, <1>4, <1>5, <1>6, MutateStep, PersistStep DEF Next

CoreInv == WriteInv /\ AllowInv

(* Types, control points, mutual exclusion and the agreement of allowlist  *)
(* and file hold in every behaviour of the keystore.                       *)
THEOREM CoreInvariant == Spec => []CoreInv
  <1>1. Init => WriteInv
    BY InitInv DEF WriteInv, Init, MutexInv, InCritical, KeyInv
  <1>2. Init => AllowInv
    BY DEF Init, AllowInv
  <1>3. CoreInv /\ [Next]_vars => CoreInv'
    BY TypeStep, HandlerStep, MutexStep, KeyStep, AllowStep DEF WriteInv, CoreInv
  <1> QED
    BY <1>1, <1>2, <1>3, PTL DEF Spec, CoreInv

-----------------------------------------------------------------------------
(* What the sealed files say when a handler acts on them or answers.       *)

(* A step outside the handlers, or of another handler, does not touch the  *)
(* allowlist and the keys under a handler that holds writeMu.              *)
LEMMA Undisturbed ==
    ASSUME CoreInv, [Next]_vars, NEW p \in Procs,
           ~LockWrite(p), ~Handler(p), pc'[p] # "idle", ~Arrive(p)
    PROVE  /\ pc'[p] = pc[p] /\ req'[p] = req[p]
           /\ InCritical(p) => UNCHANGED <<allow, allowDisk, keyDisk>>
  <1>1. CASE Boot \/ Crash
    BY <1>1 DEF Boot, Crash, ProcessEnds, CoreInv, AllowInv
  <1>2. CASE Shutdown \/ DailySnapshot \/ UNCHANGED vars
    BY <1>2 DEF Shutdown, DailySnapshot, PackAllow, PackAudit, PackKeys, vars, diskVars, memVars
  <1>3. ASSUME NEW q \in Procs, Arrive(q)
        PROVE  pc'[p] = pc[p] /\ req'[p] = req[p] /\ UNCHANGED <<allow, allowDisk, keyDisk>>
    BY <1>3 DEF Arrive, Goto, CoreInv, WriteInv, TypeOK, diskVars, memVars
  <1>4. ASSUME NEW q \in Procs, LockWrite(q) \/ Handler(q)
        PROVE  /\ pc'[p] = pc[p] /\ req'[p] = req[p]
               /\ InCritical(p) => UNCHANGED <<allow, allowDisk, keyDisk>>
    <2>1. q # p
      BY <1>4
    <2>2. pc'[p] = pc[p] /\ req'[p] = req[p]
      BY <1>4, <2>1, Frame DEF CoreInv, WriteInv
    <2>3. InCritical(p) => ~AllowMutate(q) /\ ~AllowPersist(q) /\ ~KeyWrite(q)
      BY <2>1 DEF CoreInv, WriteInv, MutexInv, InCritical, AllowMutate, AllowPersist, KeyWrite,
                  TypeOK
    <2>4. InCritical(p) => UNCHANGED <<allow, allowDisk>>
      BY <1>4, <2>3, AllowFrame
    <2>5. InCritical(p) => UNCHANGED keyDisk
      BY <1>4, <2>3 DEF Handler, LockWrite, VerifySeen, VerifySign, DelegateMember, AllowMutate,
         AllowPersist, KeyHas, LogWrite, PackAllow, PackAudit, PackKeys, GetAllowed, GetDenied,
         GetRead, GetAnswer, ListAnswer, vars, diskVars
    <2> QED
      BY <2>2, <2>4, <2>5
  <1> QED
    BY <1>1, <1>2, <1>3, <1>4 DEF Next

(* The enclave that vouches is on the sealed allowlist when its delegation *)
(* is applied.                                                             *)
LEMMA DelegatorStep ==
    ASSUME CoreInv, DelegatorStillMember, [Next]_vars
    PROVE  DelegatorStillMember'
  <1> SUFFICES ASSUME NEW p \in Procs, pc'[p] \in {"mutate", "persist"},
                      req'[p].op = "delegate", req'[p].nonce = None
               PROVE  req'[p].peer \in allowDisk'[req'[p].role]
    BY DEF DelegatorStillMember
  <1> USE DEF CoreInv, WriteInv
  <1>1. CASE ~LockWrite(p) /\ ~Handler(p) /\ ~Arrive(p)
    <2>1. pc'[p] = pc[p] /\ req'[p] = req[p] /\ InCritical(p)
      BY <1>1, Undisturbed DEF InCritical
    <2> QED
      BY <1>1, <2>1, Undisturbed DEF DelegatorStillMember
  <1>2. CASE Arrive(p) \/ LockWrite(p)
    BY <1>2 DEF Arrive, LockWrite, Goto, TypeOK
  <1>3. CASE DelegateMember(p)
    <2>1. req[p].peer \in allow[req[p].role] /\ allowMu = None /\ UNCHANGED <<allowDisk, req>>
      BY <1>3 DEF DelegateMember, Return, TypeOK, diskVars
    <2>2. phase # "down"
      BY <1>3 DEF DelegateMember, AllowInv
    <2> QED
      BY <2>1, <2>2 DEF AllowInv
  <1>4. CASE AllowMutate(p)
    BY <1>4 DEF AllowMutate, diskVars, DelegatorStillMember
  <1>5. CASE Handler(p) /\ ~DelegateMember(p) /\ ~AllowMutate(p)
    <2>1. CASE VerifySign(p)
      <3>1. req[p].nonce # None /\ (req' = req \/ Return(p))
        BY <2>1 DEF VerifySign, HandlerInv
      <3> QED
        BY <3>1 DEF Return, TypeOK
    <2>2. CASE VerifySeen(p) \/ KeyHas(p) \/ KeyWrite(p) \/ LogWrite(p) \/ AllowPersist(p)
      BY <2>2 DEF VerifySeen, KeyHas, KeyWrite, LogWrite, AllowPersist, Goto, Return, TypeOK
    <2>3. CASE PackAllow(p) \/ PackAudit(p) \/ PackKeys(p)
      BY <2>3 DEF PackAllow, PackAudit, PackKeys, Return, TypeOK
    <2>4. CASE GetAllowed(p) \/ GetDenied(p) \/ GetRead(p) \/ GetAnswer(p) \/ ListAnswer(p)
      BY <2>4 DEF GetAllowed, GetDenied, GetRead, GetAnswer, ListAnswer, Goto, Return, TypeOK
    <2> QED
      BY <1>5, <2>1, <2>2, <2>3, <2>4 DEF Handler
  <1> QED
    BY <1>1, <1>2, <1>3, <1>4, <1>5

(* handleDelegate never applies a chained delegation of an enclave that a  *)
(* revocation removed after the check, whatever else runs.                 *)
THEOREM DelegationsAreVouched == Spec => []DelegatorStillMember
  <1>1. Init => DelegatorStillMember
    BY DEF Init, DelegatorStillMember
  <1>2. CoreInv /\ DelegatorStillMember /\ [Next]_vars => DelegatorStillMember'
    BY DelegatorStep
  <1> QED
    BY <1>1, <1>2, CoreInvariant, PTL DEF Spec

(* A write reaches its audit entry only when its effect is on disk and in  *)
(* memory.                                                                 *)
LEMMA AckedStep ==
    ASSUME CoreInv, AckedWriteInForce, [Next]_vars
    PROVE  AckedWriteInForce'
  <1> DEFINE InForce(q) ==
        /\ q.op = "delegate" => q.arg \in allowDisk[q.role] \cap allow[q.role]
        /\ q.op = "revoke" => q.arg \notin allowDisk[q.role] \cup allow[q.role]
        /\ q.op = "provision" => keyDisk[q.role] = q.arg
  <1> SUFFICES ASSUME NEW p \in Procs, pc'[p] \in {"log", "snap"}
               PROVE  InForce(req[p])'
    BY DEF AckedWriteInForce
  <1> USE DEF CoreInv, WriteInv
  <1>0. pc[p] \in {"log", "snap"} => InForce(req[p])
    BY DEF AckedWriteInForce
  <1>1. CASE ~LockWrite(p) /\ ~Handler(p) /\ ~Arrive(p)
    <2>1. pc'[p] = pc[p] /\ req'[p] = req[p] /\ InCritical(p)
      BY <1>1, Undisturbed DEF InCritical
    <2>2. UNCHANGED <<allow, allowDisk, keyDisk>>
      BY <1>1, <2>1, Undisturbed
    <2> QED
      BY <1>0, <2>1, <2>2
  <1>2. CASE Arrive(p) \/ LockWrite(p)
    BY <1>2 DEF Arrive, LockWrite, Goto, TypeOK
  <1>3. CASE AllowMutate(p) \/ AllowPersist(p)
    <2>1. /\ req[p].role \in Roles /\ req[p].op \in {"delegate", "revoke"} /\ phase # "down"
      BY <1>3 DEF AllowMutate, AllowPersist, HandlerInv, OpsAt, WellFormed, AllowInv
    <2>2. allow' = Mutated(req[p]) /\ allowDisk' = allow' /\ req' = req /\ allow \in AllowMap
      BY <1>3, <2>1 DEF AllowMutate, AllowPersist, AllowInv, Return, Goto, TypeOK, diskVars
    <2>3. req[p].op = "delegate" => req[p].arg \in allow'[req[p].role]
      BY <2>1, <2>2 DEF Mutated, AllowMap
    <2>4. req[p].op = "revoke" => req[p].arg \notin allow'[req[p].role]
      BY <2>1, <2>2 DEF Mutated, AllowMap
    <2> QED
      BY <2>1, <2>2, <2>3, <2>4
  <1>4. CASE KeyWrite(p)
    <2>1. /\ keyDisk' = [keyDisk EXCEPT ![req[p].role] = req[p].arg] /\ req' = req
          /\ req[p].role \in Roles /\ req[p].op = "provision"
      BY <1>4 DEF KeyWrite, Return, TypeOK, HandlerInv, OpsAt, WellFormed
    <2> QED
      BY <2>1 DEF TypeOK, KeyMap
  <1>5. CASE LogWrite(p) \/ PackAllow(p) \/ PackAudit(p) \/ PackKeys(p)
    <2>1. pc[p] \in {"log", "snap"} /\ UNCHANGED <<req, allow, allowDisk, keyDisk>>
      <3>1. CASE LogWrite(p)
        BY <3>1 DEF LogWrite
      <3>2. CASE PackAllow(p) \/ PackAudit(p)
        BY <3>2 DEF PackAllow, PackAudit, diskVars, memVars
      <3>3. CASE PackKeys(p)
        BY <3>3 DEF PackKeys, Return, TypeOK
      <3> QED
        BY <1>5, <3>1, <3>2, <3>3
    <2> QED
      BY <1>0, <2>1
  <1>6. CASE VerifySeen(p) \/ VerifySign(p) \/ DelegateMember(p) \/ KeyHas(p)
    BY <1>6 DEF VerifySeen, VerifySign, DelegateMember, KeyHas, Goto, Return, TypeOK
  <1>7. CASE GetAllowed(p) \/ GetDenied(p) \/ GetRead(p) \/ GetAnswer(p) \/ ListAnswer(p)
    BY <1>7 DEF GetAllowed, GetDenied, GetRead, GetAnswer, ListAnswer, Goto, Return, TypeOK
  <1> QED
    BY <1>1, <1>2, <1>3, <1>4, <1>5, <1>6, <1>7 DEF Handler

(* When a delegate, revoke or provision is about to be acknowledged, its   *)
(* effect is sealed on disk and visible to gets, for any number of         *)
(* concurrent handlers, failed writes and restarts.                        *)
THEOREM AckedWritesAreInForce == Spec => []AckedWriteInForce
  <1>1. Init => AckedWriteInForce
    BY DEF Init, AckedWriteInForce
  <1>2. CoreInv /\ AckedWriteInForce /\ [Next]_vars => AckedWriteInForce'
    BY AckedStep
  <1> QED
    BY <1>1, <1>2, CoreInvariant, PTL DEF Spec

=============================================================================
