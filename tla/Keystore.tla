------------------------------ MODULE Keystore ------------------------------
(***************************************************************************)
(* The keystore enclave (internal/keystore): the HTTPS handlers get,       *)
(* delegate, provision, revoke and list as concurrent goroutines over the  *)
(* sealed state (one key file per role, allowlist.bin, audit.bin), with    *)
(* the locks they take, failed disk writes, crashes and restarts, and the  *)
(* snapshots packed file by file from the sealed directory.                *)
(*                                                                         *)
(* A handler is a process with a program counter; a step is what runs      *)
(* between two points where another goroutine can be observed: taking or   *)
(* leaving writeMu, allowlist.mu or breakGlass.mu, and writing a file.     *)
(* auditLog.mu covers a whole Append, so an Append is one step.            *)
(* keyStore.mu is only taken by Provision, which already holds writeMu.    *)
(*                                                                         *)
(* Not enumerated: requests refused before they touch any state (a body    *)
(* that does not decode, an invalid role, an empty key, no TLS peer), and  *)
(* the disabled break-glass mode, which is SignedProofs = {}.              *)
(***************************************************************************)
EXTENDS Naturals, Sequences, FiniteSets

CONSTANTS
    Procs,         \* handler goroutines that may run at the same time
    Roles,         \* key roles
    Measurements,  \* MRENCLAVE values; callers without a valid quote have Zero
    Zero,          \* the all-zero MRENCLAVE
    Keys,          \* key material
    Nonces,        \* break-glass nonces
    SignedProofs,  \* what the offline operator has signed: [op, role, arg, nonce]
    Requests,      \* the requests the environment sends
    MaxRequests,   \* bound: requests accepted in a behaviour
    MaxBoots,      \* bound: process starts
    MaxFaults,     \* bound: failed disk or snapshot writes
    MaxDaily,      \* bound: runs of the daily snapshotter
    None, NoKey    \* markers outside the sets above

Ops == {"get", "delegate", "provision", "revoke", "list"}
WriteOps == {"delegate", "provision", "revoke"}
Args == Measurements \cup Keys \cup {None}

RequestType == [op : Ops, role : Roles \cup {None}, peer : Measurements,
                arg : Args, nonce : Nonces \cup {None}]

WellFormed(q) ==
    /\ q.op # "list" => q.role \in Roles
    /\ q.op \in {"delegate", "revoke"} => q.arg \in Measurements
    /\ q.op = "provision" => q.arg \in Keys

ProofType == [op : Ops, role : Roles \cup {None}, arg : Args, nonce : Nonces]

ASSUME KeystoreAssumption ==
    /\ Zero \in Measurements
    /\ None \notin Roles \cup Measurements \cup Keys \cup Nonces \cup Procs
    /\ NoKey \notin Keys
    /\ Requests \subseteq RequestType
    /\ \A q \in Requests : WellFormed(q)
    /\ SignedProofs \subseteq ProofType
    \* the operator's tool draws a fresh nonce for every signature
    /\ \A a, b \in SignedProofs : a.nonce = b.nonce => a = b
    /\ MaxRequests \in Nat /\ MaxBoots \in Nat
    /\ MaxFaults \in Nat /\ MaxDaily \in Nat

VARIABLES
    \* the process
    phase,      \* "down", "serving" or "closing"
    boots, faults, issued, dailies,   \* counters behind the bounds
    \* the sealed directory
    keyDisk,    \* keys/<role>.bin : the key, or NoKey when there is no file
    allowDisk,  \* allowlist.bin
    auditDisk,  \* audit.bin
    \* memory of the process
    allow,      \* allowlist.roles
    entries,    \* auditLog.entries
    seen,       \* breakGlass.seenNonces
    writeMu,    \* holder of Server.writeMu, or None
    allowMu,    \* holder of allowlist.mu for writing, or None
    pc, req, held,   \* per handler: control point, request, key read by get
    \* snapshots
    pack,       \* per packer: the files read so far
    lastSnap,   \* the last archive saved
    \* observations
    uses,       \* times each nonce was accepted since the process started
    accepted,   \* every proof Verify has accepted, over all process lifetimes
    memb,       \* per handler: caller was on the sealed allowlist meanwhile
    ever,       \* per role: every MRENCLAVE that was ever on the sealed allowlist
    released    \* keys handed out: [role, peer, key]

procVars == <<phase, boots, faults, issued, dailies>>
diskVars == <<keyDisk, allowDisk, auditDisk>>
memVars  == <<allow, entries, seen>>
muVars   == <<writeMu, allowMu>>
snapVars == <<pack, lastSnap>>
obsVars  == <<uses, accepted, memb, ever, released>>
vars == <<phase, boots, faults, issued, dailies, keyDisk, allowDisk, auditDisk, allow,
          entries, seen, writeMu, allowMu, pc, req, held, pack, lastSnap,
          uses, accepted, memb, ever, released>>

-----------------------------------------------------------------------------
(* The audit log.  A digest stands for canonicalHash: it tells two entries *)
(* of a chain apart by their sequence number and content.                  *)

AuditActions == {"startup", "shutdown", "get", "get-denied", "delegate",
                 "provision", "revoke"}
(* mutant: the hash leaves the content out *)
DigestOfSeq(e) == <<e.seq>>


Digest(e) == <<e.seq, e.action, e.role, e.actor, e.detail>>
Genesis == <<>>

(* mutant: numbering restarts from the length and skips one *)
NewEntryGap(log, action, role, actor, detail) ==
    [seq |-> Len(log) + 2, action |-> action, role |-> role, actor |-> actor,
     detail |-> detail, prev |-> IF log = <<>> THEN Genesis ELSE Digest(log[Len(log)])]


NewEntry(log, action, role, actor, detail) ==
    [seq    |-> IF log = <<>> THEN 1 ELSE log[Len(log)].seq + 1,
     action |-> action, role |-> role, actor |-> actor, detail |-> detail,
     prev   |-> IF log = <<>> THEN Genesis ELSE Digest(log[Len(log)])]

verifyChain(log) ==
    \A i \in DOMAIN log :
        /\ log[i].seq = i
        /\ log[i].prev = IF i = 1 THEN Genesis ELSE Digest(log[i - 1])

Fault == faults < MaxFaults /\ faults' = faults + 1

(* auditLog.Append: the entry reaches memory and file, or a failed write   *)
(* rolls it back.  The handlers ignore the error.                          *)
AuditAppend(action, role, actor, detail) ==
    \/ /\ entries' = Append(entries, NewEntry(entries, action, role, actor, detail))
       /\ auditDisk' = entries'
       /\ UNCHANGED faults
    \/ /\ Fault
       /\ UNCHANGED <<entries, auditDisk>>

-----------------------------------------------------------------------------
Idle == [op |-> "list", role |-> None, peer |-> Zero, arg |-> None, nonce |-> None]
Packers == Procs \cup {None}      \* None stands for the daily snapshotter
NoPack == [allow |-> None, audit |-> None]
NoSnap == [label |-> "none", keys |-> [r \in Roles |-> NoKey],
           allow |-> [r \in Roles |-> {}], audit |-> <<>>]

Init ==
    /\ phase = "down" /\ boots = 0 /\ faults = 0 /\ issued = 0 /\ dailies = 0
    /\ keyDisk = [r \in Roles |-> NoKey]
    /\ allowDisk = [r \in Roles |-> {}]
    /\ auditDisk = <<>>
    /\ allow = [r \in Roles |-> {}] /\ entries = <<>> /\ seen = {}
    /\ writeMu = None /\ allowMu = None
    /\ pc = [p \in Procs |-> "idle"]
    /\ req = [p \in Procs |-> Idle]
    /\ held = [p \in Procs |-> NoKey]
    /\ pack = [p \in Packers |-> NoPack] /\ lastSnap = NoSnap
    /\ uses = [n \in Nonces |-> 0] /\ accepted = {} /\ memb = [p \in Procs |-> FALSE]
    /\ ever = [r \in Roles |-> {}] /\ released = {}

-----------------------------------------------------------------------------
(* Process life cycle.                                                     *)

(* New and Start: load the sealed files, refuse a broken audit chain,      *)
(* append "startup" (a failure of which is fatal: the process stays down). *)
Boot ==
    /\ phase = "down" /\ boots < MaxBoots
    /\ verifyChain(auditDisk)
    /\ boots' = boots + 1
    /\ \/ /\ phase' = "serving"
          /\ allow' = allowDisk
          /\ entries' = Append(auditDisk, NewEntry(auditDisk, "startup", None, None, None))
          /\ auditDisk' = entries'
          /\ UNCHANGED faults
       \/ /\ Fault
          /\ UNCHANGED <<phase, allow, entries, auditDisk>>
    /\ seen' = {} /\ uses' = [n \in Nonces |-> 0]
    /\ UNCHANGED <<issued, dailies, keyDisk, allowDisk, muVars, pc, req, held, snapVars,
                   accepted, memb, ever, released>>

(* The process ends: memory, locks and requests in flight are gone.        *)
ProcessEnds ==
    /\ phase' = "down"
    /\ allow' = [r \in Roles |-> {}] /\ entries' = <<>> /\ seen' = {}
    /\ writeMu' = None /\ allowMu' = None
    /\ pc' = [p \in Procs |-> "idle"]
    /\ req' = [p \in Procs |-> Idle]
    /\ held' = [p \in Procs |-> NoKey]
    /\ pack' = [p \in Packers |-> NoPack]
    /\ memb' = [p \in Procs |-> FALSE]
    /\ uses' = [n \in Nonces |-> 0]
    /\ UNCHANGED <<boots, faults, issued, dailies, diskVars, lastSnap, accepted, ever, released>>

Crash == phase # "down" /\ ProcessEnds

(* SIGTERM: append "shutdown" and stop listening; Start then returns at    *)
(* once, so the exit (a Crash step) does not wait for running handlers.    *)
Shutdown ==
    /\ phase = "serving"
    /\ phase' = "closing"
    /\ AuditAppend("shutdown", None, None, None)
    /\ UNCHANGED <<boots, issued, dailies, keyDisk, allowDisk, allow, seen, muVars, pc,
                   req, held, snapVars, obsVars>>

-----------------------------------------------------------------------------
(* Handlers.                                                               *)

Goto(p, l) == pc' = [pc EXCEPT ![p] = l]

(* mutant: an early return without the Unlock *)
ReturnLocked(p) ==
    /\ pc' = [pc EXCEPT ![p] = "idle"]
    /\ req' = [req EXCEPT ![p] = Idle]
    /\ held' = [held EXCEPT ![p] = NoKey]
    /\ memb' = [memb EXCEPT ![p] = FALSE]
    /\ pack' = [pack EXCEPT ![p] = NoPack]
    /\ UNCHANGED writeMu

(* The handler returns; the deferred Unlock runs if it holds writeMu.      *)
Return(p) ==
    /\ pc' = [pc EXCEPT ![p] = "idle"]
    /\ req' = [req EXCEPT ![p] = Idle]
    /\ held' = [held EXCEPT ![p] = NoKey]
    /\ memb' = [memb EXCEPT ![p] = FALSE]
    /\ pack' = [pack EXCEPT ![p] = NoPack]
    /\ writeMu' = IF writeMu = p THEN None ELSE writeMu

Arrive(p) ==
    /\ phase = "serving" /\ pc[p] = "idle" /\ issued < MaxRequests
    /\ issued' = issued + 1
    /\ \E q \in Requests :
        /\ req' = [req EXCEPT ![p] = q]
        /\ memb' = [memb EXCEPT ![p] = q.op = "get" /\ q.peer \in allowDisk[q.role]]
        /\ Goto(p, CASE q.op = "get" -> "allowed"
                     [] q.op = "list" -> "verify"
                     [] OTHER -> "lock")
    /\ UNCHANGED <<phase, boots, faults, dailies, diskVars, memVars, muVars, held,
                   snapVars, uses, accepted, ever, released>>

(* mutant: the handlers do not exclude each other *)
LockWriteShared(p) ==
    /\ pc[p] = "lock"
    /\ writeMu' = p
    /\ Goto(p, IF req[p].op = "delegate" /\ req[p].nonce = None
               THEN "member" ELSE "verify")
    /\ UNCHANGED <<procVars, diskVars, memVars, allowMu, req, held, snapVars, obsVars>>

(* Every write handler takes writeMu; delegate without a proof goes on to  *)
(* the membership check, everything else to breakGlass.Verify.             *)
LockWrite(p) ==
    /\ pc[p] = "lock" /\ writeMu = None
    /\ writeMu' = p
    /\ Goto(p, IF req[p].op = "delegate" /\ req[p].nonce = None
               THEN "member" ELSE "verify")
    /\ UNCHANGED <<procVars, diskVars, memVars, allowMu, req, held, snapVars, obsVars>>

(* breakGlass.Verify looks the nonce up and lets go of the lock ...        *)
VerifySeen(p) ==
    /\ pc[p] = "verify"
    /\ \/ /\ req[p].nonce # None /\ req[p].nonce \notin seen
          /\ Goto(p, "signature")
          /\ UNCHANGED <<writeMu, req, held, memb, pack>>
       \/ /\ req[p].nonce = None \/ req[p].nonce \in seen
          /\ Return(p)
    /\ UNCHANGED <<procVars, diskVars, memVars, allowMu, lastSnap, uses, accepted, ever, released>>

ProofOf(q) == [op |-> q.op, role |-> q.role, arg |-> q.arg, nonce |-> q.nonce]

(* mutant: the signing input leaves role and payload out *)
SignedAnyPayload(q) == \E s \in SignedProofs : s.op = q.op /\ s.nonce = q.nonce
Signed(q) == ProofOf(q) \in SignedProofs

(* ... checks the signature, and takes it again to insert the nonce.       *)
VerifySign(p) ==
    LET q == req[p] IN
    /\ pc[p] = "signature"
    /\ \/ /\ Signed(q)
          /\ seen' = seen \cup {q.nonce}
          /\ uses' = [uses EXCEPT ![q.nonce] = @ + 1]
          /\ accepted' = accepted \cup {ProofOf(q)}
          /\ Goto(p, CASE q.op = "provision" -> "has"
                       [] q.op = "list" -> "list"
                       [] OTHER -> "mutate")
          /\ UNCHANGED <<writeMu, req, held, memb, pack>>
       \/ /\ ~Signed(q)
          /\ Return(p)
          /\ UNCHANGED <<seen, uses, accepted>>
    /\ UNCHANGED <<procVars, diskVars, allow, entries, allowMu, lastSnap, ever, released>>

(* mutant: any attested caller may delegate *)
DelegateAnyone(p) ==
    /\ pc[p] = "member" /\ allowMu = None
    /\ Goto(p, "mutate")
    /\ UNCHANGED <<procVars, diskVars, memVars, muVars, req, held, snapVars, obsVars>>

(* handleDelegate, chained: the caller must be on the role's allowlist.    *)
DelegateMember(p) ==
    /\ pc[p] = "member" /\ allowMu = None
    /\ \/ /\ req[p].peer \in allow[req[p].role]
          /\ Goto(p, "mutate")
          /\ UNCHANGED <<writeMu, req, held, memb, pack>>
       \/ /\ req[p].peer \notin allow[req[p].role]
          /\ Return(p)
    /\ UNCHANGED <<procVars, diskVars, memVars, allowMu, lastSnap, uses, accepted, ever, released>>

(* allowlist.Add and allowlist.Remove, memory part: nothing to do when the *)
(* entry is already present (absent), otherwise change the map and keep    *)
(* the lock while the file is written.                                     *)
Mutated(q) ==
    IF q.op = "delegate"
    THEN [allow EXCEPT ![q.role] = @ \cup {q.arg}]
    ELSE [allow EXCEPT ![q.role] = @ \ {q.arg}]

RolledBack(q) ==
    IF q.op = "delegate"
    THEN [allow EXCEPT ![q.role] = @ \ {q.arg}]
    ELSE [allow EXCEPT ![q.role] = @ \cup {q.arg}]

AllowMutate(p) ==
    /\ pc[p] = "mutate" /\ allowMu = None
    /\ \/ /\ Mutated(req[p]) = allow
          /\ Goto(p, "log")
          /\ UNCHANGED <<allow, allowMu>>
       \/ /\ Mutated(req[p]) # allow
          /\ allow' = Mutated(req[p])
          /\ allowMu' = p
          /\ Goto(p, "persist")
    /\ UNCHANGED <<procVars, diskVars, entries, seen, writeMu, req, held, snapVars, obsVars>>

(* allowlist.persistLocked: the rename makes the change durable, or the    *)
(* failure undoes it in memory; either way allowlist.mu is released.       *)
AllowPersist(p) ==
    /\ pc[p] = "persist"
    /\ allowMu' = None
    /\ \/ /\ allowDisk' = allow
          /\ ever' = [r \in Roles |-> ever[r] \cup allow[r]]
          /\ memb' = [q \in Procs |-> memb[q] \/ (pc[q] # "idle" /\ req[q].op = "get"
                                        /\ req[q].peer \in allow[req[q].role])]
          /\ Goto(p, "log")
          /\ UNCHANGED <<faults, allow, writeMu, req, held, pack>>
       \/ /\ Fault
          /\ allow' = RolledBack(req[p])
          /\ Return(p)
          /\ UNCHANGED <<allowDisk, ever>>
    /\ UNCHANGED <<phase, boots, issued, dailies, keyDisk, auditDisk, entries, seen,
                   lastSnap, uses, accepted, released>>

(* mutant: the stat is skipped *)
KeyHasSkipped(p) ==
    /\ pc[p] = "has"
    /\ Goto(p, "store")
    /\ UNCHANGED <<procVars, diskVars, memVars, muVars, req, held, snapVars, obsVars>>

(* mutant: the entry is logged without the file being written *)
KeyHasUnwritten(p) ==
    /\ pc[p] = "has"
    /\ Goto(p, "log")
    /\ UNCHANGED <<procVars, diskVars, memVars, muVars, req, held, snapVars, obsVars>>

(* keyStore.Provision: stat the role's file ...                            *)
KeyHas(p) ==
    /\ pc[p] = "has"
    /\ \/ /\ keyDisk[req[p].role] = NoKey
          /\ Goto(p, "store")
          /\ UNCHANGED <<writeMu, req, held, memb, pack>>
       \/ /\ keyDisk[req[p].role] # NoKey
          /\ Return(p)
    /\ UNCHANGED <<procVars, diskVars, memVars, allowMu, lastSnap, uses, accepted, ever, released>>

(* ... and write it (temporary file, fsync, rename).                       *)
KeyWrite(p) ==
    /\ pc[p] = "store"
    /\ \/ /\ keyDisk' = [keyDisk EXCEPT ![req[p].role] = req[p].arg]
          /\ Goto(p, "log")
          /\ UNCHANGED <<faults, writeMu, req, held, memb, pack>>
       \/ /\ Fault
          /\ Return(p)
          /\ UNCHANGED keyDisk
    /\ UNCHANGED <<phase, boots, issued, dailies, allowDisk, auditDisk, memVars, allowMu,
                   lastSnap, uses, accepted, ever, released>>

(* The audit entry of a write; its actor is the operator (None) or the     *)
(* delegating enclave.                                                     *)
LogWrite(p) ==
    LET q == req[p] IN
    /\ pc[p] = "log"
    /\ AuditAppend(q.op, q.role, IF q.nonce = None THEN q.peer ELSE None, q.arg)
    /\ Goto(p, "snap")
    /\ UNCHANGED <<phase, boots, issued, dailies, keyDisk, allowDisk, allow, seen, muVars,
                   req, held, snapVars, obsVars>>

-----------------------------------------------------------------------------
(* Snapshots: PackSealedDir reads allowlist.bin, audit.bin and keys/ one   *)
(* after the other.  The write handlers do it before they unlock; the      *)
(* daily snapshotter holds no lock.                                        *)

PackAllow(p) ==
    /\ pack[p] = NoPack
    /\ \/ p # None /\ pc[p] = "snap" /\ UNCHANGED dailies
       \/ p = None /\ phase = "serving" /\ dailies < MaxDaily /\ dailies' = dailies + 1
    /\ pack' = [pack EXCEPT ![p].allow = allowDisk]
    /\ UNCHANGED <<phase, boots, faults, issued, diskVars, memVars, muVars, pc, req, held, lastSnap, obsVars>>

PackAudit(p) ==
    /\ p # None => pc[p] = "snap"
    /\ pack[p].allow # None /\ pack[p].audit = None
    /\ pack' = [pack EXCEPT ![p].audit = auditDisk]
    /\ UNCHANGED <<procVars, diskVars, memVars, muVars, pc, req, held, lastSnap, obsVars>>

PackKeys(p) ==
    /\ p # None => pc[p] = "snap"
    /\ pack[p].audit # None
    /\ \/ /\ lastSnap' = [label |-> IF p = None THEN "daily" ELSE "post-write",
                          keys |-> keyDisk, allow |-> pack[p].allow,
                          audit |-> pack[p].audit]
          /\ UNCHANGED faults
       \/ /\ Fault               \* Save failed: logged, the request succeeds
          /\ UNCHANGED lastSnap
    /\ IF p = None
       THEN /\ pack' = [pack EXCEPT ![p] = NoPack]
            /\ UNCHANGED <<pc, req, held, memb, writeMu>>
       ELSE Return(p)
    /\ UNCHANGED <<phase, boots, issued, dailies, diskVars, memVars, allowMu, uses, accepted, ever, released>>

-----------------------------------------------------------------------------
(* handleGet.                                                              *)

(* mutant: Allowed reads the map without allowlist.mu *)
GetAllowedUnlocked(p) ==
    /\ pc[p] = "allowed"
    /\ Goto(p, IF req[p].peer \in allow[req[p].role] THEN "read" ELSE "denied")
    /\ UNCHANGED <<procVars, diskVars, memVars, muVars, req, held, snapVars, obsVars>>


GetAllowed(p) ==
    /\ pc[p] = "allowed" /\ allowMu = None
    /\ Goto(p, IF req[p].peer \in allow[req[p].role] THEN "read" ELSE "denied")
    /\ UNCHANGED <<procVars, diskVars, memVars, muVars, req, held, snapVars, obsVars>>

GetDenied(p) ==
    /\ pc[p] = "denied"
    /\ AuditAppend("get-denied", req[p].role, req[p].peer, None)
    /\ Return(p)
    /\ UNCHANGED <<phase, boots, issued, dailies, keyDisk, allowDisk, allow, seen, allowMu,
                   lastSnap, uses, accepted, ever, released>>

GetRead(p) ==
    /\ pc[p] = "read"
    /\ \/ /\ keyDisk[req[p].role] # NoKey
          /\ held' = [held EXCEPT ![p] = keyDisk[req[p].role]]
          /\ Goto(p, "answer")
          /\ UNCHANGED <<faults, writeMu, req, memb, pack>>
       \/ /\ keyDisk[req[p].role] = NoKey    \* 404
          /\ Return(p)
          /\ UNCHANGED faults
       \/ /\ Fault                           \* the file does not read or unseal
          /\ Return(p)
    /\ UNCHANGED <<phase, boots, issued, dailies, diskVars, memVars, allowMu, lastSnap,
                   uses, accepted, ever, released>>

GetAnswer(p) ==
    /\ pc[p] = "answer"
    /\ AuditAppend("get", req[p].role, req[p].peer, None)
    /\ released' = released \cup
         {[role |-> req[p].role, peer |-> req[p].peer, key |-> held[p]]}
    /\ Return(p)
    /\ UNCHANGED <<phase, boots, issued, dailies, keyDisk, allowDisk, allow, seen, allowMu,
                   lastSnap, uses, accepted, ever>>

(* handleList reads keys, allowlist and audit tail; nothing changes.       *)
ListAnswer(p) ==
    /\ pc[p] = "list" /\ allowMu = None
    /\ Return(p)
    /\ UNCHANGED <<procVars, diskVars, memVars, allowMu, lastSnap, uses, accepted, ever, released>>

-----------------------------------------------------------------------------
Handler(p) ==
    \/ VerifySeen(p) \/ VerifySign(p) \/ DelegateMember(p)
    \/ AllowMutate(p) \/ AllowPersist(p) \/ KeyHas(p) \/ KeyWrite(p)
    \/ LogWrite(p) \/ PackAllow(p) \/ PackAudit(p) \/ PackKeys(p)
    \/ GetAllowed(p) \/ GetDenied(p) \/ GetRead(p) \/ GetAnswer(p)
    \/ ListAnswer(p)

DailySnapshot == PackAllow(None) \/ PackAudit(None) \/ PackKeys(None)

Next ==
    \/ Boot \/ Crash \/ Shutdown \/ DailySnapshot
    \/ \E p \in Procs : Arrive(p) \/ LockWrite(p) \/ Handler(p)

(* Handlers keep running while the process does, and sync.Mutex serves a   *)
(* waiter that keeps waiting (its starvation mode); when requests arrive,  *)
(* the process crashes or the daily snapshot runs is up to the environment.*)
Fairness == \A p \in Procs : WF_vars(Handler(p)) /\ SF_vars(LockWrite(p))

Spec == Init /\ [][Next]_vars
FairSpec == Spec /\ Fairness

-----------------------------------------------------------------------------
(* Properties.                                                             *)

Pcs == {"idle", "lock", "verify", "signature", "member", "mutate", "persist",
        "has", "store", "log", "snap", "allowed", "denied", "read", "answer",
        "list"}
AuditEntry == [seq : Nat, action : AuditActions, role : Roles \cup {None},
               actor : Measurements \cup {None}, detail : Args,
               prev : {Genesis} \cup (Nat \X AuditActions \X (Roles \cup {None})
                        \X (Measurements \cup {None}) \X Args)]
AllowMap == [Roles -> SUBSET Measurements]
KeyMap == [Roles -> Keys \cup {NoKey}]

(* Every variable keeps its type.                                          *)
TypeOK ==
    /\ phase \in {"down", "serving", "closing"}
    /\ boots \in Nat /\ faults \in Nat /\ issued \in Nat /\ dailies \in Nat
    /\ keyDisk \in KeyMap
    /\ allowDisk \in AllowMap /\ allow \in AllowMap
    /\ auditDisk \in Seq(AuditEntry) /\ entries \in Seq(AuditEntry)
    /\ seen \in SUBSET Nonces
    /\ writeMu \in Procs \cup {None} /\ allowMu \in Procs \cup {None}
    /\ pc \in [Procs -> Pcs]
    /\ req \in [Procs -> RequestType]
    /\ held \in [Procs -> Keys \cup {NoKey}]
    /\ pack \in [Packers -> [allow : AllowMap \cup {None},
                              audit : Seq(AuditEntry) \cup {None}]]
    /\ lastSnap \in [label : {"none", "daily", "post-write"}, keys : KeyMap,
                      allow : AllowMap, audit : Seq(AuditEntry)]
    /\ uses \in [Nonces -> Nat] /\ accepted \in SUBSET SignedProofs
    /\ memb \in [Procs -> BOOLEAN]
    /\ ever \in AllowMap
    /\ released \in SUBSET [role : Roles, peer : Measurements, key : Keys \cup {NoKey}]

(* keyStore.Provision installs the first key of a role only: no later      *)
(* request, crash or failed write ever changes or loses it.                *)
WriteOnceKey ==
    [][\A r \in Roles : keyDisk[r] # NoKey => keyDisk'[r] = keyDisk[r]]_vars

(* A stored key and an allowlist that is not empty go back to an operator  *)
(* proof accepted for that very role (and that very key): delegation by    *)
(* peers can extend an allowlist but never start one, across restarts.     *)
RootedInOperator ==
    \A r \in Roles :
        /\ keyDisk[r] # NoKey =>
             \E s \in accepted : s.op = "provision" /\ s.role = r /\ s.arg = keyDisk[r]
        /\ allowDisk[r] # {} =>
             \E s \in accepted : s.op = "delegate" /\ s.role = r

(* breakGlass.Verify: within one process lifetime a proof for a write      *)
(* authorises one write at most, although the nonce is looked up and       *)
(* inserted in two separate critical sections.                             *)
WriteProofUsedOnce ==
    \A s \in SignedProofs : s.op \in WriteOps => uses[s.nonce] <= 1

(* handleDelegate: when a chained delegation is applied, the enclave that  *)
(* vouches is still on the sealed allowlist: no revocation slips between   *)
(* the check and the change.                                               *)
DelegatorStillMember ==
    \A p \in Procs :
        pc[p] \in {"mutate", "persist"} /\ req[p].op = "delegate" /\ req[p].nonce = None
            => req[p].peer \in allowDisk[req[p].role]

(* A write that is about to be acknowledged is on disk and in force: its   *)
(* effect was not undone by another handler before the answer.             *)
AckedWriteInForce ==
    \A p \in Procs : pc[p] \in {"log", "snap"} =>
        LET q == req[p] IN
        /\ q.op = "delegate" => q.arg \in allowDisk[q.role] \cap allow[q.role]
        /\ q.op = "revoke" => q.arg \notin allowDisk[q.role] \cup allow[q.role]
        /\ q.op = "provision" => keyDisk[q.role] = q.arg

(* handleGet hands out a key only if the caller was on the sealed          *)
(* allowlist at some moment of the request: a delegation that is rolled    *)
(* back because its write failed is never visible to a get.                *)
NoUncommittedRelease ==
    \A p \in Procs : pc[p] \in {"read", "answer"} => memb[p]

(* audit.bin passes verifyChain at every moment, so that no crash can      *)
(* leave a log the next start refuses; memory never runs ahead of it.      *)
AuditChainIntact ==
    /\ verifyChain(auditDisk)
    /\ phase # "down" => entries = auditDisk

(* The allowlist that replaying the log's delegate and revoke entries in   *)
(* order gives for a role.                                                 *)
Replay(log, r) ==
    {m \in Measurements : \E i \in DOMAIN log :
        /\ log[i].action = "delegate" /\ log[i].role = r /\ log[i].detail = m
        /\ \A j \in (i + 1)..Len(log) :
              ~(log[j].action = "revoke" /\ log[j].role = r /\ log[j].detail = m)}

Provisioned(log, r) == \E i \in DOMAIN log :
    log[i].action = "provision" /\ log[i].role = r

(* No disk write has failed and the process has not been restarted: what   *)
(* the audit log needs to be complete, since a failed append is ignored.   *)
Unfailing == faults = 0 /\ boots <= 1

(* While no disk write fails and the process has not crashed, replaying    *)
(* the audit log yields exactly the sealed allowlist and the stored roles: *)
(* entries appear in the order in which the changes took effect.           *)
AuditReplays ==
    Unfailing /\ phase # "down" /\ writeMu = None => \A r \in Roles :
        /\ Replay(auditDisk, r) = allowDisk[r]
        /\ Provisioned(auditDisk, r) <=> keyDisk[r] # NoKey

(* The audit log records every state-changing operation, as the comment on *)
(* auditLog says: every stored key and allowlist member has its entry once *)
(* the handler that made it has returned.                                  *)
MutationsAudited ==
    phase # "down" /\ writeMu = None => \A r \in Roles :
        /\ keyDisk[r] # NoKey => Provisioned(auditDisk, r)
        /\ allowDisk[r] \subseteq {auditDisk[i].detail : i \in
               {j \in DOMAIN auditDisk : auditDisk[j].action = "delegate" /\ auditDisk[j].role = r}}

(* Whatever handlers did while it was packed, a snapshot holds the key of  *)
(* every role its own audit log says was provisioned.                      *)
SnapshotHoldsAuditedKeys ==
    \A r \in Roles : Provisioned(lastSnap.audit, r) => lastSnap.keys[r] # NoKey

(* A snapshot taken by a write handler is consistent: its allowlist is the *)
(* one its audit log replays to (while no write fails).                    *)
PostWriteSnapshotConsistent ==
    Unfailing /\ lastSnap.label = "post-write" => \A r \in Roles :
        /\ Replay(lastSnap.audit, r) = lastSnap.allow[r]
        /\ Provisioned(lastSnap.audit, r) <=> lastSnap.keys[r] # NoKey

(* What the audit log promises: its chain passes verifyChain at every      *)
(* moment, replaying it gives the allowlist and the roles in force, the    *)
(* snapshot of a write handler agrees with the log it holds, and handleGet *)
(* releases no key on a delegation that was rolled back.                   *)
AuditInv ==
    /\ AuditChainIntact
    /\ AuditReplays
    /\ PostWriteSnapshotConsistent
    /\ NoUncommittedRelease

(* Every accepted request is answered, or dropped with the process: no     *)
(* path returns with writeMu or allowlist.mu held.                         *)
RequestsAnswered == \A p \in Procs : pc[p] # "idle" ~> pc[p] = "idle"

(* The keystore implements the custody contract.                           *)
Custody == INSTANCE KeyCustody WITH
    key <- keyDisk, granted <- allowDisk,
    Installable <- {<<s.role, s.arg>> : s \in {t \in SignedProofs : t.op = "provision"}},
    Endorsed <- {<<s.role, s.arg>> : s \in {t \in SignedProofs : t.op = "delegate"}},
    Revocable <- {<<s.role, s.arg>> : s \in {t \in SignedProofs : t.op = "revoke"}}
(* The custody contract holds of the sealed files and the keys released.   *)
CustodySpec == Custody!Spec
=============================================================================
