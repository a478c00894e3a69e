---------------------------- MODULE PaymentTokens ----------------------------
(***************************************************************************)
(* The blind-signing keys of the payment service and the tokens signed     *)
(* with them (cmd/payment/main.go, internal/payment/service.go,            *)
(* processor.go) over restarts, the loss of the disk, and the backups of   *)
(* internal/payment/snapshot.go.  A token is modelled by the tier and the  *)
(* key that signed it.                                                     *)
(***************************************************************************)
EXTENDS Naturals, FiniteSets

CONSTANTS
    SigningTiers,  \* Tiers
    MaxKeys,       \* bound: keys generated for a tier
    MaxMishaps     \* bound: faults of disk, seal, snapshot and restore

ASSUME TokensAssumption == MaxKeys \in Nat \ {0} /\ MaxMishaps \in Nat

NoKey == 0
Torn == MaxKeys + 1  \* what a write that fails after os.WriteFile truncated the file leaves
MemoryKeys == [SigningTiers -> 0..MaxKeys]
KeyFiles == [SigningTiers -> 0..Torn]

VARIABLES
    running,    \* whether the service is up
    sealedKey,  \* tier -> the key in its sealed file, NoKey or Torn
    signingKey, \* tier -> the key in memory
    generated,  \* tier -> keys generated so far
    handedOut,  \* tokens handed out: <<tier, key>>
    redeemed,   \* observation: <<token, tier>> accepted by redeem
    archives,   \* the snapshots kept: subsets of the key files
    snapDue,    \* whether no snapshot has been saved since the start
    mishaps,
    forsaken    \* observation: keys that a mishap took from disk, or kept from it

tokVars == <<running, sealedKey, signingKey, generated, handedOut, redeemed, archives, snapDue, mishaps, forsaken>>

TierKeys == SigningTiers \X (1..MaxKeys)

TokTypeOK ==
    /\ running \in BOOLEAN /\ snapDue \in BOOLEAN /\ mishaps \in 0..MaxMishaps
    /\ sealedKey \in KeyFiles /\ signingKey \in MemoryKeys /\ generated \in MemoryKeys
    /\ handedOut \subseteq TierKeys /\ forsaken \subseteq TierKeys
    /\ redeemed \subseteq TierKeys \X SigningTiers
    /\ archives \subseteq KeyFiles

TokInit ==
    /\ running = FALSE /\ snapDue = FALSE /\ mishaps = 0
    /\ sealedKey = [t \in SigningTiers |-> NoKey]
    /\ signingKey = sealedKey /\ generated = sealedKey
    /\ handedOut = {} /\ redeemed = {} /\ archives = {} /\ forsaken = {}

-----------------------------------------------------------------------------
\* A fault that keeps its action from doing its work.
Mishap == mishaps < MaxMishaps /\ mishaps' = mishaps + 1

Held(files) == {k \in TierKeys : files[k[1]] = k[2]}

(* mutant: a key is generated whether or not there is one on disk *)
LoadOrSealAlways(bad) == {t \in SigningTiers : generated[t] < MaxKeys}

\* The tiers LoadOrSealBytes generates a key for: those without a file, and those whose file
\* does not unseal, which is overwritten.
LoadOrSealTierKeys(bad) == {t \in SigningTiers : sealedKey[t] \in {NoKey, Torn} \/ t \in bad}

\* run: loadOrGenerateKey for every tier; a key that cannot be written is used all the same,
\* and the write that failed may have truncated the file.
Run(bad, unwritten, torn) ==
    LET new == LoadOrSealTierKeys(bad)
        fresh == [t \in SigningTiers |-> IF t \in new THEN generated[t] + 1 ELSE sealedKey[t]]
    IN /\ ~running /\ running' = TRUE /\ snapDue' = TRUE
       /\ \A t \in new : generated[t] < MaxKeys
       /\ unwritten \subseteq new /\ torn \subseteq unwritten
       /\ IF bad \cup unwritten = {} THEN UNCHANGED mishaps ELSE Mishap
       /\ generated' = [t \in SigningTiers |-> IF t \in new THEN fresh[t] ELSE generated[t]]
       /\ signingKey' = fresh
       /\ sealedKey' = [t \in SigningTiers |-> IF t \in torn THEN Torn
                                               ELSE IF t \in unwritten THEN sealedKey[t] ELSE fresh[t]]
       /\ forsaken' = forsaken \cup {k \in TierKeys : k[1] \in unwritten /\ k[2] = fresh[k[1]]}
                               \cup {k \in Held(sealedKey) : k[1] \in bad}
       /\ UNCHANGED <<handedOut, redeemed, archives>>

Stopped ==
    /\ running /\ running' = FALSE /\ snapDue' = FALSE
    /\ signingKey' = [t \in SigningTiers |-> NoKey]
    /\ UNCHANGED <<sealedKey, generated, handedOut, redeemed, archives, mishaps, forsaken>>

\* The tier a processor grants for an amount; 0, 1, 2 stand for the ranges of the amounts.
stripeTierFromAmount(amount) == CASE amount = 2 -> "business" [] amount = 1 -> "pro" [] OTHER -> "paid"

\* handleSign: ProcessPayment grants the tier of the verified payment and signs with its key.
ProcessPayment(amount) ==
    LET t == stripeTierFromAmount(amount)
    IN /\ running /\ t \in SigningTiers
       /\ handedOut' = handedOut \cup {<<t, signingKey[t]>>}
       /\ UNCHANGED <<running, sealedKey, signingKey, generated, redeemed, archives, snapDue, mishaps, forsaken>>

\* handleFakeIDRatchet and handleFakeIDMint: the caller names the tier.
SignForTier(t) ==
    /\ running /\ t \in {"fakeid_mint", "fakeid_ratchet"} \cap SigningTiers
    /\ handedOut' = handedOut \cup {<<t, signingKey[t]>>}
    /\ UNCHANGED <<running, sealedKey, signingKey, generated, redeemed, archives, snapDue, mishaps, forsaken>>

\* The tiers whose public key verifies the token; VerifyForTier answers with the first.
VerifyForTier(token) == {t \in SigningTiers : <<t, signingKey[t]>> = token}

\* handleRedeem; a token redeemed before is refused by the table.
RedeemToken(token) ==
    /\ running /\ token \in handedOut
    /\ \E t \in VerifyForTier(token) : redeemed' = redeemed \cup {<<token, t>>}
    /\ UNCHANGED <<running, sealedKey, signingKey, generated, handedOut, archives, snapDue, mishaps, forsaken>>

-----------------------------------------------------------------------------
(* mutant: the archive is taken from the keys of one tier only *)
PackPartly(files) == [t \in SigningTiers |-> IF t = CHOOSE x \in SigningTiers : TRUE THEN files[t] ELSE NoKey]

\* Files that do not exist are left out.
PackFiles(files) == files

\* RunDailySnapshotter: one at startup, then one a day; a failure is only logged.
Save ==
    /\ running
    /\ \/ archives' = archives \cup {PackFiles(sealedKey)} /\ snapDue' = FALSE /\ UNCHANGED mishaps
       \/ Mishap /\ UNCHANGED <<archives, snapDue>>
    /\ UNCHANGED <<running, sealedKey, signingKey, generated, handedOut, redeemed, forsaken>>

\* The files the archive holds overwrite those on disk; ExtractFiles checks the hash of the
\* archive after it has written them, so that a failure leaves some of them written, and the
\* one it failed at may be torn.
ExtractFiles(a, written, torn) ==
    /\ ~running /\ a \in archives
    /\ written \subseteq {t \in SigningTiers : a[t] # NoKey}
    /\ torn \subseteq {t \in SigningTiers \ written : a[t] # NoKey} /\ Cardinality(torn) <= 1
    /\ IF written = {t \in SigningTiers : a[t] # NoKey} THEN UNCHANGED mishaps ELSE Mishap
    /\ sealedKey' = [t \in SigningTiers |-> IF t \in torn THEN Torn
                                            ELSE IF t \in written THEN a[t] ELSE sealedKey[t]]
    /\ forsaken' = (forsaken \cup {k \in Held(sealedKey) : k[1] \in written \cup torn}) \ Held(sealedKey')
    /\ UNCHANGED <<running, signingKey, generated, handedOut, redeemed, archives, snapDue>>

LoseDisk ==
    /\ ~running /\ Mishap
    /\ sealedKey' = [t \in SigningTiers |-> NoKey]
    /\ forsaken' = forsaken \cup Held(sealedKey)
    /\ UNCHANGED <<running, signingKey, generated, handedOut, redeemed, archives, snapDue>>

TokNext ==
    \/ \E bad \in SUBSET {t \in SigningTiers : sealedKey[t] # NoKey},
          unwritten \in SUBSET SigningTiers, torn \in SUBSET SigningTiers : Run(bad, unwritten, torn)
    \/ Stopped \/ Save \/ LoseDisk
    \/ \E amount \in 0..2 : ProcessPayment(amount)
    \/ \E t \in SigningTiers : SignForTier(t)
    \/ \E token \in handedOut : RedeemToken(token)
    \/ \E a \in archives, written \in SUBSET SigningTiers, torn \in SUBSET SigningTiers :
         ExtractFiles(a, written, torn)

TokSpec == TokInit /\ [][TokNext]_tokVars

-----------------------------------------------------------------------------
\* A token is redeemed for the tier it was signed for, and for no other.  As long as the
\* service runs, every token it ever handed out can be redeemed, unless a mishap took its key
\* and no restore brought it back.  And once a snapshot is saved, the key of every
\* token is in an archive, unless a mishap took it before.
TokensHonoured ==
    /\ \A r \in redeemed : r[1][1] = r[2]
    /\ running => \A token \in handedOut : VerifyForTier(token) # {} \/ token \in forsaken
    /\ running /\ ~snapDue => \A token \in handedOut :
         token \in forsaken \/ \E a \in archives : a[token[1]] = token[2]

=============================================================================
