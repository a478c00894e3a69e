------------------------------ MODULE DKIMPool ------------------------------
(***************************************************************************)
(* The shared DKIM selectors of the outbound worker                        *)
(* (cmd/smtp-outbound/dkimpool.go, internal/keystore/dkimpool.go): at      *)
(* startup it publishes the TXT record of every selector through an        *)
(* attested DNS update (internal/dnsattest/update.go), it fetches a        *)
(* selector's key from the keystore at the first use and keeps it, and     *)
(* before a deployment the old binary delegates its roles to the new one.  *)
(* The keystore (module Keystore) is external here: a role's key is        *)
(* written once, and a Get is answered to the enclaves the role allows.    *)
(***************************************************************************)
EXTENDS Naturals, Tables

CONSTANTS
    Selectors,     \* KEYSTORE_DKIM_POOL_SELECTORS
    Builds,        \* enclave measurements
    FirstBuild,    \* the one the keystore's bootstrap allowed
    MaxPoolFaults  \* bound: failed calls of the keystore, the resolver and the DNS service

ASSUME PoolAssumption == FirstBuild \in Builds /\ MaxPoolFaults \in Nat /\ Null \notin Builds

Algorithms == {"rsa", "ed25519"}

VARIABLES
    build,      \* the running build, or Null
    deployed,   \* the installed build
    allowed,    \* selector -> builds its role allows
    txt,        \* selector -> algorithms of the TXT records at its name
    graced,     \* selector -> algorithms of those that are superseded and will expire
    toPublish,  \* selectors publishDKIMPoolTXTs has still to handle
    atHand,     \* the selector whose records it is about to update, or Null
    poolCache,  \* selectors whose keys the process holds
    poolFaults,
    \* observations
    certified,  \* selectors a publication found or made right
    delegated,  \* <<selector, build>> the pre-deploy response reported without an error
    asked       \* <<selector, build>> some build the role allowed asked the keystore to add

poolVars == <<build, deployed, allowed, txt, graced, toPublish, atHand, poolCache, poolFaults,
              certified, delegated, asked>>

PoolTypeOK ==
    /\ build \in Builds \cup {Null} /\ deployed \in Builds
    /\ allowed \in [Selectors -> SUBSET Builds]
    /\ {txt, graced} \subseteq [Selectors -> SUBSET Algorithms]
    /\ toPublish \subseteq Selectors /\ poolCache \subseteq Selectors /\ certified \subseteq Selectors
    /\ atHand \in Selectors \cup {Null} /\ poolFaults \in 0..MaxPoolFaults
    /\ delegated \subseteq Selectors \X Builds /\ asked \subseteq Selectors \X Builds

\* Earlier releases published both algorithms.
PoolInit ==
    /\ build = Null /\ deployed = FirstBuild
    /\ allowed = [s \in Selectors |-> {FirstBuild}]
    /\ txt \in [Selectors -> {{}, Algorithms}] /\ graced = [s \in Selectors |-> {}]
    /\ toPublish = {} /\ atHand = Null /\ poolCache = {} /\ poolFaults = 0
    /\ certified = {} /\ delegated = {} /\ asked = {}

-----------------------------------------------------------------------------
PoolFault == poolFaults < MaxPoolFaults /\ poolFaults' = poolFaults + 1

\* The keystore answers a Get of the running build.
mayGet(s) == build \in allowed[s]

BootWorker ==
    /\ build = Null /\ build' = deployed
    /\ toPublish' = Selectors /\ atHand' = Null /\ poolCache' = {}
    /\ UNCHANGED <<deployed, allowed, txt, graced, poolFaults, certified, delegated, asked>>

StopWorker ==
    /\ build # Null /\ build' = Null
    /\ toPublish' = {} /\ atHand' = Null /\ poolCache' = {}
    /\ UNCHANGED <<deployed, allowed, txt, graced, poolFaults, certified, delegated, asked>>

\* getter: at the first use of the selector, and once for the life of the process.
buildDKIMPoolWiring(s) ==
    /\ build # Null /\ s \notin poolCache /\ mayGet(s)
    /\ poolCache' = poolCache \cup {s}
    /\ UNCHANGED <<build, deployed, allowed, txt, graced, toPublish, atHand, poolFaults, certified,
                   delegated, asked>>

-----------------------------------------------------------------------------
\* The records to publish: only RSA, of the two DKIMPoolDNSRecords has.
DKIMPoolDNSRecords == {"rsa"}

(* mutant: the records are there, others may be there as well *)
txtContained(s) == DKIMPoolDNSRecords \subseteq txt[s]

\* Exactly the wanted records.
txtAlreadyLive(s) == txt[s] = DKIMPoolDNSRecords

\* The start of the loop's body: the selector is passed over when the keystore does not
\* answer, or when its records are live already.
publishDKIMPoolTXTs(s) ==
    /\ build # Null /\ atHand = Null /\ s \in toPublish
    /\ toPublish' = toPublish \ {s}
    /\ \/ ~mayGet(s) /\ UNCHANGED <<atHand, poolFaults, certified>>
       \/ PoolFault /\ UNCHANGED <<atHand, certified>>
       \/ mayGet(s) /\ txtAlreadyLive(s) /\ certified' = certified \cup {s} /\ UNCHANGED <<atHand, poolFaults>>
       \/ mayGet(s) /\ ~txtAlreadyLive(s) /\ atHand' = s /\ UNCHANGED <<poolFaults, certified>>
       \/ mayGet(s) /\ txtAlreadyLive(s) /\ atHand' = s /\ PoolFault /\ UNCHANGED certified
    /\ UNCHANGED <<build, deployed, allowed, txt, graced, poolCache, delegated, asked>>

\* ModeReplace at the DNS service: the new record, beside the superseded ones, which it does not
\* delete but lets expire.
Replace(s) ==
    /\ txt' = [txt EXCEPT ![s] = @ \cup DKIMPoolDNSRecords]
    /\ graced' = [graced EXCEPT ![s] = (@ \cup txt[s]) \ DKIMPoolDNSRecords]

Expire(s) ==
    /\ graced[s] # {}
    /\ txt' = [txt EXCEPT ![s] = @ \ graced[s]] /\ graced' = [graced EXCEPT ![s] = {}]
    /\ UNCHANGED <<build, deployed, allowed, toPublish, atHand, poolCache, poolFaults, certified,
                   delegated, asked>>

\* The first record replaces what is there; there is no second.  An answer that is lost leaves
\* the record changed, a refusal does not.
Update ==
    /\ atHand # Null /\ atHand' = Null
    /\ \/ Replace(atHand) /\ certified' = certified \cup {atHand} /\ UNCHANGED poolFaults
       \/ Replace(atHand) /\ PoolFault /\ UNCHANGED certified
       \/ PoolFault /\ UNCHANGED <<txt, graced, certified>>
    /\ UNCHANGED <<build, deployed, allowed, toPublish, poolCache, delegated, asked>>

-----------------------------------------------------------------------------
\* handlePreDeploy: one Delegate per selector, each of which may fail; the response lists the
\* outcomes, and is a success if one of them is.  Of the failed ones, those in lost took effect
\* and only the answer did not arrive.
handlePreDeploy(new, failed, lost) ==
    LET done == {s \in Selectors \ failed : mayGet(s)}
        added == {s \in (Selectors \ failed) \cup lost : mayGet(s)}
    IN /\ build # Null /\ new \notin {build, deployed}
       /\ IF failed = {} THEN UNCHANGED poolFaults ELSE PoolFault
       /\ allowed' = [s \in Selectors |-> IF s \in added THEN allowed[s] \cup {new} ELSE allowed[s]]
       /\ delegated' = delegated \cup {<<s, new>> : s \in done}
       /\ asked' = asked \cup {<<s, new>> : s \in added}
       /\ deployed' \in IF done # {} THEN {deployed, new} ELSE {deployed}
       /\ UNCHANGED <<build, txt, graced, toPublish, atHand, poolCache, certified>>

PoolNext ==
    \/ BootWorker \/ StopWorker \/ Update
    \/ \E s \in Selectors : buildDKIMPoolWiring(s) \/ publishDKIMPoolTXTs(s) \/ Expire(s)
    \/ \E new \in Builds, failed \in SUBSET Selectors : \E lost \in SUBSET failed :
         handlePreDeploy(new, failed, lost)

PoolSpec == PoolInit /\ [][PoolNext]_poolVars

-----------------------------------------------------------------------------
\* A selector whose publication succeeded once has the TXT record of the key the worker signs
\* with, and every other record at its name is one the DNS service is letting expire, whatever
\* was there before and however often the worker restarts and fails; so in the end a verifier
\* has no wrong record to pick.  The build that runs after a deployment can fetch the key of
\* every selector whose delegation the old one reported as done; and it holds no key but of a
\* selector for which an earlier build had asked, answered or not.
PoolVerifiable ==
    /\ \A s \in certified : "rsa" \in txt[s] /\ txt[s] \ {"rsa"} \subseteq graced[s]
    /\ build # Null => \A s \in Selectors :
         /\ <<s, build>> \in delegated => mayGet(s)
         /\ s \in poolCache => build = FirstBuild \/ <<s, build>> \in asked

=============================================================================
