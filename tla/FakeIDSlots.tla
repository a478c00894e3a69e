----------------------------- MODULE FakeIDSlots -----------------------------
(***************************************************************************)
(* Fake ID credentials of the payment enclave (cmd/payment): blind-signed  *)
(* tokens, attested primary tags, and the two tables that make a token and *)
(* a primary's slot usable once, under concurrent requests, failing        *)
(* inserts, crashes and sealed keys that do not unseal.                    *)
(*                                                                         *)
(* A request runs in a handler; the database calls of a handler are        *)
(* separate steps.  A client may combine any token with any attested tag.  *)
(* A signature is the pair of what is signed and the generation of the     *)
(* key; the primary tag is the pair of the tag key's generation and the    *)
(* primary.  Requests that do not decode or verify change nothing and are  *)
(* not enumerated.                                                         *)
(***************************************************************************)
EXTENDS Naturals, FiniteSets

CONSTANTS
    Primaries,   \* primary accounts, each with one subscription
    Tokens,      \* tokens clients blind
    Handlers,    \* requests in progress at a time
    MaxFaults,   \* bound: failed database calls or signings
    MaxCrashes,  \* bound: process crashes
    MaxKeyLoss   \* bound: keys that do not unseal or are not saved, per boot

ASSUME SlotsAssumption ==
    /\ Primaries # {} /\ Tokens # {}
    /\ MaxFaults \in Nat /\ MaxCrashes \in Nat /\ MaxKeyLoss \in Nat

Keys == {"tag", "att", "mint"}

VARIABLES
    up,         \* the process runs
    key,        \* per key: generation in memory
    disk,       \* per key: generation in the sealed file, 0 if there is none
    gen,        \* generations drawn so far
    spent,      \* spent_tokens
    consumed,   \* fakeid_consumed_slots: primary tags
    flag,       \* per primary: fakeid_mint_flags, "recent", or "free" if there is no row or
                \*   one older than the cooldown
    pc, req,    \* per handler: control point and request
    creds,      \* signed tokens clients hold: [tok, k]
    tags,       \* attested tags clients hold: [tag, k]
    faults, crashes, losses,
    \* observations
    registered, \* <<tok, tag>> accepted by verify-credential
    uses,       \* per token: requests that accepted it
    seeded      \* primaries whose row the backfill inserted

keyVars == <<key, disk, gen>>
dbVars == <<spent, consumed, flag>>
clientVars == <<creds, tags>>
boundVars == <<faults, crashes, losses>>
obsVars == <<registered, uses, seeded>>
vars == <<up, keyVars, dbVars, pc, req, clientVars, boundVars, obsVars>>

Tag(k, p) == [k |-> k, p |-> p]
DerivePrimaryTag(p) == Tag(key["tag"], p)
NoRequest == [op |-> "none", p |-> CHOOSE p \in Primaries : TRUE,
              tok |-> CHOOSE t \in Tokens : TRUE,
              tag |-> Tag(0, CHOOSE p \in Primaries : TRUE)]

Init ==
    /\ up = FALSE
    /\ key = [k \in Keys |-> 0] /\ disk = [k \in Keys |-> 0] /\ gen = 0
    /\ spent = {} /\ consumed = {} /\ flag = [p \in Primaries |-> "free"]
    /\ pc = [h \in Handlers |-> "idle"] /\ req = [h \in Handlers |-> NoRequest]
    /\ creds = {} /\ tags = {}
    /\ faults = 0 /\ crashes = 0 /\ losses = 0
    /\ registered = {} /\ uses = [t \in Tokens |-> 0] /\ seeded = {}

-----------------------------------------------------------------------------
(* Start-up and crash.                                                     *)

(* mutant: the new key is used but never written *)
LoadOrSealUnsaved(unread, unsaved) ==
    LET fresh == {k \in Keys : disk[k] = 0} \cup unread IN
    /\ key' = [k \in Keys |-> IF k \in fresh THEN gen + 1 ELSE disk[k]]
    /\ UNCHANGED disk

(* LoadOrSealBytes: a file that is missing or does not unseal is replaced  *)
(* by a new key; a file that cannot be written is only logged.             *)
LoadOrSealBytes(unread, unsaved) ==
    LET fresh == {k \in Keys : disk[k] = 0} \cup unread IN
    /\ key' = [k \in Keys |-> IF k \in fresh THEN gen + 1 ELSE disk[k]]
    /\ disk' = [k \in Keys |-> IF k \in fresh \ unsaved THEN gen + 1 ELSE disk[k]]

Boot ==
    /\ ~up
    /\ up' = TRUE
    /\ \E unread, unsaved \in SUBSET Keys :    \* of the files read, and of those written
        /\ unread \subseteq {k \in Keys : disk[k] # 0}
        /\ unsaved \subseteq {k \in Keys : disk[k] = 0} \cup unread
        /\ losses + Cardinality(unread) + Cardinality(unsaved) <= MaxKeyLoss
        /\ losses' = losses + Cardinality(unread) + Cardinality(unsaved)
        /\ LoadOrSealBytes(unread, unsaved)
    /\ gen' = gen + 1
    /\ UNCHANGED <<dbVars, pc, req, clientVars, faults, crashes, obsVars>>

Crash ==
    /\ up /\ crashes < MaxCrashes
    /\ crashes' = crashes + 1
    /\ up' = FALSE
    /\ pc' = [h \in Handlers |-> "idle"] /\ req' = [h \in Handlers |-> NoRequest]
    /\ UNCHANGED <<keyVars, dbVars, clientVars, faults, losses, obsVars>>

-----------------------------------------------------------------------------
(* Handlers.                                                               *)

Accept(h, l, r) ==
    /\ up /\ pc[h] = "idle"
    /\ pc' = [pc EXCEPT ![h] = l]
    /\ req' = [req EXCEPT ![h] = r]

At(h, l) == up /\ pc[h] = l
Goto(h, l) == pc' = [pc EXCEPT ![h] = l] /\ UNCHANGED req
Reply(h) ==
    /\ pc' = [pc EXCEPT ![h] = "idle"]
    /\ req' = [req EXCEPT ![h] = NoRequest]
Fault == faults < MaxFaults /\ faults' = faults + 1

(* handleFakeIDMintV2: StatusForTag, then the signatures.                  *)
MintCheck(h, p, tok) ==
    /\ DerivePrimaryTag(p) \notin consumed
    /\ Accept(h, "sign", [op |-> "mint", p |-> p, tok |-> tok, tag |-> DerivePrimaryTag(p)])
    /\ UNCHANGED <<up, keyVars, dbVars, clientVars, boundVars, obsVars>>

MintSign(h) ==
    LET r == req[h] IN
    /\ At(h, "sign")
    /\ \/ /\ creds' = creds \cup {[tok |-> r.tok, k |-> key["mint"]]}
          /\ tags' = tags \cup {[tag |-> r.tag, k |-> key["att"]]}
          /\ UNCHANGED faults
       \/ Fault /\ UNCHANGED <<creds, tags>>
    /\ Reply(h)
    /\ UNCHANGED <<up, keyVars, dbVars, crashes, losses, obsVars>>

(* handleFakeIDMint: MarkFakeIDMinted, then the signature.                 *)
LegacyMark(h, p, tok) ==
    /\ flag[p] # "recent"
    /\ flag' = [flag EXCEPT ![p] = "recent"]
    /\ Accept(h, "legacy", [op |-> "legacy", p |-> p, tok |-> tok, tag |-> NoRequest.tag])
    /\ UNCHANGED <<up, keyVars, spent, consumed, clientVars, boundVars, obsVars>>

LegacySign(h) ==
    LET r == req[h] IN
    /\ At(h, "legacy")
    /\ \/ /\ creds' = creds \cup {[tok |-> r.tok, k |-> key["mint"]]}
          /\ UNCHANGED faults
       \/ Fault /\ UNCHANGED creds
    /\ Reply(h)
    /\ UNCHANGED <<up, keyVars, dbVars, tags, crashes, losses, obsVars>>

(* Thirty seconds pass since a subscription's last mint.                   *)
Cooldown(p) ==
    /\ flag[p] = "recent"
    /\ flag' = [flag EXCEPT ![p] = "free"]
    /\ UNCHANGED <<up, keyVars, spent, consumed, pc, req, clientVars, boundVars, obsVars>>

(* mutant: the slot is taken before the token is spent *)
VerifySlotFirst(h, c, t) ==
    /\ c \in creds /\ c.k = key["mint"]
    /\ t \in tags /\ t.k = key["att"]
    /\ Accept(h, "consume", [op |-> "verify", p |-> t.tag.p, tok |-> c.tok, tag |-> t.tag])
    /\ UNCHANGED <<up, keyVars, dbVars, clientVars, boundVars, obsVars>>

(* handleFakeIDVerifyCredential and handleRedeem up to the first insert:   *)
(* the signatures verify under the keys in memory.                         *)
Verify(h, c, t) ==
    /\ c \in creds /\ c.k = key["mint"]
    /\ t \in tags /\ t.k = key["att"]
    /\ Accept(h, "spend", [op |-> "verify", p |-> t.tag.p, tok |-> c.tok, tag |-> t.tag])
    /\ UNCHANGED <<up, keyVars, dbVars, clientVars, boundVars, obsVars>>

Redeem(h, c) ==
    /\ c \in creds /\ c.k = key["mint"]
    /\ Accept(h, "spend", [op |-> "redeem", p |-> NoRequest.p, tok |-> c.tok, tag |-> NoRequest.tag])
    /\ UNCHANGED <<up, keyVars, dbVars, clientVars, boundVars, obsVars>>

(* mutant: the conflict on the token is not noticed *)
TokenFreeAlways(tok) == TRUE
TokenFree(tok) == tok \notin spent

(* mutant: the slot is inserted like the backfill does, without conflict *)
SlotFreeAlways(tag) == TRUE
SlotFree(tag) == tag \notin consumed

SpendFails(h) == Fault /\ Reply(h)

(* InsertSpentToken.  A call that fails may have been applied: the request *)
(* context ends while the answer of the database is on its way.            *)
Spend(h) ==
    LET r == req[h] IN
    /\ At(h, "spend")
    /\ \/ /\ ~TokenFree(r.tok)
          /\ Reply(h)
          /\ UNCHANGED <<spent, faults, uses>>
       \/ /\ TokenFree(r.tok)
          /\ spent' = spent \cup {r.tok}
          /\ \/ r.op = "verify" /\ Goto(h, "consume") /\ UNCHANGED uses
             \/ r.op = "redeem" /\ Reply(h) /\ uses' = [uses EXCEPT ![r.tok] = @ + 1]
          /\ UNCHANGED faults
       \/ /\ SpendFails(h)
          /\ spent' \in {spent, spent \cup {r.tok}}
          /\ UNCHANGED uses
    /\ UNCHANGED <<up, keyVars, consumed, flag, clientVars, crashes, losses, registered, seeded>>

(* InsertConsumed; only its success is answered with OK.                   *)
Consume(h) ==
    LET r == req[h] IN
    /\ At(h, "consume")
    /\ \/ /\ ~SlotFree(r.tag)
          /\ UNCHANGED <<consumed, faults, registered, uses>>
       \/ /\ SlotFree(r.tag)
          /\ consumed' = consumed \cup {r.tag}
          /\ registered' = registered \cup {<<r.tok, r.tag>>}
          /\ uses' = [uses EXCEPT ![r.tok] = @ + 1]
          /\ UNCHANGED faults
       \/ /\ Fault
          /\ consumed' \in {consumed, consumed \cup {r.tag}}
          /\ UNCHANGED <<registered, uses>>
    /\ Reply(h)
    /\ UNCHANGED <<up, keyVars, spent, flag, clientVars, crashes, losses, seeded>>

(* handleFakeIDSeedConsumed for a primary that already has a Fake ID.      *)
SeedConsumed(p) ==
    /\ up
    /\ consumed' = consumed \cup {DerivePrimaryTag(p)}
    /\ seeded' = IF DerivePrimaryTag(p) \in consumed THEN seeded ELSE seeded \cup {p}
    /\ UNCHANGED <<up, keyVars, spent, flag, pc, req, clientVars, boundVars, registered, uses>>

Next ==
    \/ Boot \/ Crash
    \/ \E p \in Primaries : Cooldown(p) \/ SeedConsumed(p)
    \/ \E h \in Handlers :
        \/ \E p \in Primaries, tok \in Tokens : MintCheck(h, p, tok) \/ LegacyMark(h, p, tok)
        \/ \E c \in creds, t \in tags : Verify(h, c, t)
        \/ \E c \in creds : Redeem(h, c)
        \/ MintSign(h) \/ LegacySign(h) \/ Spend(h) \/ Consume(h)

Spec == Init /\ [][Next]_vars

-----------------------------------------------------------------------------
(* Properties.                                                             *)

TagType == [k : Nat, p : Primaries]

AtOwnPoint(l, op) ==
    \/ l = "idle" /\ op = "none"
    \/ l = "sign" /\ op = "mint"
    \/ l = "legacy" /\ op = "legacy"
    \/ l = "spend" /\ op \in {"verify", "redeem"}
    \/ l = "consume" /\ op = "verify"

(* Every variable keeps its type, and a handler is only at the control     *)
(* points of its own operation.                                            *)
TypeOK ==
    /\ up \in BOOLEAN
    /\ key \in [Keys -> Nat] /\ disk \in [Keys -> Nat] /\ gen \in Nat
    /\ spent \subseteq Tokens /\ consumed \subseteq TagType
    /\ flag \in [Primaries -> {"free", "recent"}]
    /\ pc \in [Handlers -> {"idle", "sign", "legacy", "spend", "consume"}]
    /\ req \in [Handlers -> [op : {"none", "mint", "legacy", "verify", "redeem"},
                             p : Primaries, tok : Tokens, tag : TagType]]
    /\ \A h \in Handlers : AtOwnPoint(pc[h], req[h].op)
    /\ creds \subseteq [tok : Tokens, k : Nat] /\ tags \subseteq [tag : TagType, k : Nat]
    /\ faults \in 0..MaxFaults /\ crashes \in 0..MaxCrashes /\ losses \in 0..MaxKeyLoss
    /\ registered \subseteq Tokens \X TagType /\ uses \in [Tokens -> Nat]
    /\ seeded \subseteq Primaries

(* A token is accepted once at most, by /payment/redeem and                *)
(* verify-credential together, whatever fails, crashes or loses its key.   *)
TokenUsedOnce == \A t \in Tokens : uses[t] <= 1

(* A primary gets one Fake ID at most, and none next to a backfilled one,  *)
(* while the tag key is not lost: concurrent verifies with different       *)
(* credentials, retries after a failure and restarts included.             *)
OneFakeIDPerPrimary ==
    losses = 0 =>
        /\ \A x, y \in registered : x[2].p = y[2].p => x = y
        /\ \A x \in registered : x[2].p \notin seeded

(* Also after a key loss a slot row is used for one registration at most.  *)
OneFakeIDPerTag == \A x, y \in registered : x[2] = y[2] => x = y

(* A registration that was answered OK is recorded: its token is spent and *)
(* its slot consumed, so neither can be used again after a restart.        *)
RegistrationRecorded ==
    \A x \in registered : x[1] \in spent /\ x[2] \in consumed

(* Slots are taken at the price of a token: the primaries that cannot mint *)
(* any more, other than the backfilled ones, are no more than the tokens   *)
(* spent, since the token is spent first.                                  *)
SlotsCostTokens ==
    Cardinality({x \in consumed : x.p \notin seeded}) <= Cardinality(spent)

(* A credential a client holds still verifies after any number of restarts *)
(* while the sealed keys can be read and written.                          *)
CredentialsSurviveRestart ==
    up /\ losses = 0 =>
        /\ \A c \in creds : c.k = key["mint"]
        /\ \A t \in tags : t.k = key["att"] /\ t.tag.k = key["tag"]

(* Racing verifies leave no partially applied state, as the comment in     *)
(* handleFakeIDVerifyCredential says: a spent token was accepted by        *)
(* somebody, or its request is still between the two inserts.              *)
NoPartialState ==
    \A t \in spent : uses[t] > 0 \/ \E h \in Handlers : pc[h] = "consume" /\ req[h].tok = t
=============================================================================
