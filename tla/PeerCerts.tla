----------------------------- MODULE PeerCerts -----------------------------
(***************************************************************************)
(* The SMTP enclaves that share a host name agree on one TLS key           *)
(* (internal/peer/peer.go, internal/tee/tls_ego.go, internal/tee/keys.go): *)
(* a member that starts without a Let's Encrypt certificate takes          *)
(* certificate and key of a running member, in separate requests, re-seals *)
(* the key and publishes it in the TLSA record of the name.  The peer API  *)
(* is served once Start has returned (cmd/smtp-inbound/main.go).  A        *)
(* certificate is modelled by the key it certifies and by its issuer.  The *)
(* key a start generates is sealed to the build, the others to the signer; *)
(* either seal is opened by the same build.                                *)
(***************************************************************************)
EXTENDS Naturals, FiniteSets, Tables

CONSTANTS
    PoolMembers,      \* enclaves in the DNS pool of the name
    MaxTLSKeys,   \* bound: keys generated
    MaxPeerFaults \* bound: failures of DNS, requests, sealing and publication

ASSUME PeerAssumption == {MaxTLSKeys, MaxPeerFaults} \subseteq Nat /\ Null \notin Nat

TLSKeys == 1..MaxTLSKeys

\* A sealed file that does not open: torn, or sealed to another build.
Dead == 0

Certs == [key: TLSKeys, le: BOOLEAN]

VARIABLES
    phase,      \* member -> "down", "start", "sync", "key", "dane" or "ready"
    sealedTLS,  \* member -> key in its sealed file, Dead, or Null
    bound,      \* members whose file is sealed to the build
    leFile,     \* member -> key its Let's Encrypt certificate is for, or Null
    tlsCert,    \* member -> tlsCert and certPEM
    tlsKey,     \* member -> tlsKey
    spkiDER,    \* member -> spkiDER
    fetched,    \* member -> the certificate it has read from a peer, and from which
    untried,    \* member -> peers syncFromPeer has not been called for
    tlsa,       \* the TLSA record of the name
    tlsKeys,    \* keys generated so far
    peerFaults,
    \* observations
    solo,       \* members that run with their own key
    rivals,     \* keys that came up on their own beside another key of the pool
    unpublished,\* members whose key a failed update kept out of DNS
    unkept      \* members whose key is not in their sealed file

peerVars == <<phase, sealedTLS, bound, leFile, tlsCert, tlsKey, spkiDER, fetched, untried, tlsa, tlsKeys,
              peerFaults, solo, rivals, unpublished, unkept>>

PeerTypeOK ==
    /\ phase \in [PoolMembers -> {"down", "start", "sync", "key", "dane", "ready"}]
    /\ sealedTLS \in [PoolMembers -> TLSKeys \cup {Null, Dead}] /\ bound \subseteq PoolMembers
    /\ {leFile, tlsKey, spkiDER} \subseteq [PoolMembers -> TLSKeys \cup {Null}]
    /\ tlsCert \in [PoolMembers -> Certs \cup {Null}]
    /\ fetched \in [PoolMembers -> [peer: PoolMembers, cert: Certs] \cup {Null}]
    /\ untried \in [PoolMembers -> SUBSET PoolMembers]
    /\ tlsa \in TLSKeys \cup {Null} /\ tlsKeys \in 0..MaxTLSKeys /\ peerFaults \in 0..MaxPeerFaults
    /\ solo \subseteq PoolMembers /\ unpublished \subseteq PoolMembers /\ unkept \subseteq PoolMembers
    /\ rivals \subseteq TLSKeys

PeerInit ==
    /\ phase = [e \in PoolMembers |-> "down"]
    /\ sealedTLS = [e \in PoolMembers |-> Null] /\ bound = {}
    /\ leFile = sealedTLS /\ tlsKey = sealedTLS /\ spkiDER = sealedTLS
    /\ tlsCert = sealedTLS /\ fetched = sealedTLS
    /\ untried = [e \in PoolMembers |-> {}]
    /\ tlsa = Null /\ tlsKeys = 0 /\ peerFaults = 0
    /\ solo = {} /\ rivals = {} /\ unpublished = {} /\ unkept = {}

-----------------------------------------------------------------------------
PeerFault == peerFaults < MaxPeerFaults /\ peerFaults' = peerFaults + 1
Step(e, from, to) == phase[e] = from /\ phase' = [phase EXCEPT ![e] = to]
own == <<tlsCert, tlsKey, spkiDER>>
seen == <<solo, rivals, unpublished, unkept>>

Opens(e) == sealedTLS[e] \in TLSKeys
NewTLSKey == tlsKeys < MaxTLSKeys /\ tlsKeys' = tlsKeys + 1
SealTLS(e, k) == sealedTLS' = [sealedTLS EXCEPT ![e] = k]

\* os.WriteFile fails, before or after it has emptied the file.
Unwritten(e) ==
    /\ PeerFault
    /\ \/ UNCHANGED <<sealedTLS, bound>>
       \/ SealTLS(e, Dead) /\ bound' = bound \ {e}

\* GENERATE_CSR, a process of its own: the operator has a certificate issued for the sealed key,
\* or, where no file opens, for a new one, which only a warning says is not written.  Neither
\* file is read before the next start, so it is enough to let it run while the member is down.
GenerateCSR(e) ==
    /\ phase[e] = "down"
    /\ \/ /\ Opens(e) /\ leFile[e] # sealedTLS[e]
          /\ leFile' = [leFile EXCEPT ![e] = sealedTLS[e]]
          /\ UNCHANGED <<sealedTLS, bound, tlsKeys, peerFaults>>
       \/ /\ ~Opens(e) /\ NewTLSKey
          /\ leFile' = [leFile EXCEPT ![e] = tlsKeys']
          /\ \/ SealTLS(e, tlsKeys') /\ bound' = bound \ {e} /\ UNCHANGED peerFaults
             \/ Unwritten(e)
    /\ UNCHANGED <<phase, own, fetched, untried, tlsa, seen>>

\* GENERATE_KEY: a new key takes the place of the sealed one before the next start.  It is
\* written beside the file and renamed, so no failure tears it.
GenerateAndSealNewTLSKey(e) ==
    /\ phase[e] = "down" /\ NewTLSKey
    /\ SealTLS(e, tlsKeys') /\ bound' = bound \ {e}
    /\ UNCHANGED <<phase, leFile, own, fetched, untried, tlsa, peerFaults, seen>>

\* The next start is that of another build, which cannot open what was sealed to this one.
DeployBuild(e) ==
    /\ phase[e] = "down" /\ e \in bound /\ Opens(e)
    /\ SealTLS(e, Dead) /\ bound' = bound \ {e}
    /\ UNCHANGED <<phase, leFile, own, fetched, untried, tlsa, tlsKeys, peerFaults, seen>>

\* A certificate on disk counts when it was issued for the sealed key.
loadLECert(e, k) == leFile[e] = k

\* The sealed key, or a new one sealed to the build, and a certificate for it.
GenerateServerTLSConfigUnique(e) ==
    /\ Step(e, "down", "start")
    /\ \E k \in TLSKeys :
         /\ \/ Opens(e) /\ k = sealedTLS[e] /\ UNCHANGED <<tlsKeys, bound>>
            \/ ~Opens(e) /\ NewTLSKey /\ k = tlsKeys' /\ bound' = bound \cup {e}
         /\ SealTLS(e, k)
         /\ tlsCert' = [tlsCert EXCEPT ![e] = [key |-> k, le |-> loadLECert(e, k)]]
         /\ tlsKey' = [tlsKey EXCEPT ![e] = k]
         /\ spkiDER' = [spkiDER EXCEPT ![e] = k]
    /\ solo' = solo \cup {e} /\ unkept' = unkept \ {e}
    /\ UNCHANGED <<leFile, fetched, untried, tlsa, peerFaults, rivals, unpublished>>

\* A new key that could not be written is only warned of, but run reads the file again for the
\* peer API, with no generator to fall back on: the process panics, and the key is gone.
FailedStart(e) ==
    /\ phase[e] = "down" /\ ~Opens(e) /\ Unwritten(e)
    /\ UNCHANGED <<phase, leFile, own, fetched, untried, tlsa, tlsKeys, seen>>

hasLECert(e) == tlsCert[e].le

\* discoverPeers: the other addresses of the name, none when DNS fails.  With a Let's Encrypt
\* certificate no peer is asked.
discoverPeers(e) ==
    /\ \/ /\ Step(e, "start", "sync") /\ ~hasLECert(e)
          /\ untried' = [untried EXCEPT ![e] = PoolMembers \ {e}] /\ UNCHANGED peerFaults
       \/ Step(e, "start", "dane") /\ hasLECert(e) /\ UNCHANGED <<untried, peerFaults>>
       \/ Step(e, "start", "dane") /\ PeerFault /\ UNCHANGED untried
    /\ UNCHANGED <<sealedTLS, bound, leFile, own, fetched, tlsa, tlsKeys, seen>>

-----------------------------------------------------------------------------
(* syncFromPeer, for one peer after the other. *)

\* Its first request: handleGetCert.
GetPeerCert(e, p) ==
    /\ Step(e, "sync", "key") /\ p \in untried[e] /\ phase[p] = "ready"
    /\ untried' = [untried EXCEPT ![e] = @ \ {p}]
    /\ fetched' = [fetched EXCEPT ![e] = [peer |-> p, cert |-> tlsCert[p]]]
    /\ UNCHANGED <<sealedTLS, bound, leFile, own, tlsa, tlsKeys, peerFaults, seen>>

\* No answer or a refusal: an error of the network if the peer is up.
NoAnswer(e, p) ==
    /\ \/ phase[e] = "sync" /\ p \in untried[e]
       \/ phase[e] = "key" /\ p = fetched[e].peer
    /\ IF phase[p] = "ready" THEN PeerFault ELSE UNCHANGED peerFaults
    /\ untried' = [untried EXCEPT ![e] = @ \ {p}] /\ phase' = [phase EXCEPT ![e] = "sync"]
    /\ UNCHANGED <<sealedTLS, bound, leFile, own, fetched, tlsa, tlsKeys, seen>>

(* mutant: the key to publish stays that of the replaced certificate *)
InstalledSPKIOld(e) == spkiDER

InstalledSPKI(e) == [spkiDER EXCEPT ![e] = fetched[e].cert.key]

\* The key comes in a later request: it may not fit the certificate read before.  A key that
\* fits is re-sealed to the signer, which may fail, and installed.
GetPeerKey(e, p) ==
    /\ phase[e] = "key" /\ p = fetched[e].peer /\ phase[p] = "ready"
    /\ \/ /\ tlsKey[p] # fetched[e].cert.key
          /\ phase' = [phase EXCEPT ![e] = "sync"]
          /\ UNCHANGED <<own, sealedTLS, bound, peerFaults, solo, unkept>>
       \/ /\ tlsKey[p] = fetched[e].cert.key
          /\ phase' = [phase EXCEPT ![e] = "dane"]
          /\ tlsCert' = [tlsCert EXCEPT ![e] = fetched[e].cert]
          /\ tlsKey' = [tlsKey EXCEPT ![e] = fetched[e].cert.key]
          /\ spkiDER' = InstalledSPKI(e)
          /\ solo' = solo \ {e}
          /\ \/ /\ SealTLS(e, fetched[e].cert.key) /\ bound' = bound \ {e}
                /\ UNCHANGED <<peerFaults, unkept>>
             \/ Unwritten(e) /\ unkept' = unkept \cup {e}
    /\ UNCHANGED <<leFile, fetched, untried, tlsa, tlsKeys, rivals, unpublished>>

NoPeerLeft(e) ==
    /\ untried[e] = {} /\ Step(e, "sync", "dane")
    /\ UNCHANGED <<sealedTLS, bound, leFile, own, fetched, untried, tlsa, tlsKeys, peerFaults, seen>>

-----------------------------------------------------------------------------
Ready == {p \in PoolMembers : phase[p] = "ready"}

\* The members that serve the pool's key k, or are taking it over.
Carriers(k) == {p \in PoolMembers : \/ phase[p] = "key" /\ fetched[p].cert.key = k
                                    \/ phase[p] = "dane" /\ p \notin solo /\ tlsKey[p] = k
                                    \/ phase[p] = "ready" /\ tlsKey[p] = k}

\* updateDANE ends Start; its failure is only logged.  An update whose answer was lost is as one
\* that was answered.
updateDANE(e) ==
    /\ Step(e, "dane", "ready")
    /\ untried' = [untried EXCEPT ![e] = {}] /\ fetched' = [fetched EXCEPT ![e] = Null]
    /\ \/ /\ tlsa' = spkiDER[e] /\ UNCHANGED peerFaults
          /\ unpublished' = {p \in unpublished \ {e} : tlsKey[p] # spkiDER[e]}
       \/ /\ PeerFault /\ UNCHANGED tlsa
          /\ unpublished' = IF tlsKey[e] = tlsa THEN unpublished ELSE unpublished \cup {e}
    /\ rivals' = IF e \in solo /\ \E k \in TLSKeys \ {tlsKey[e]} : Carriers(k) # {}
                 THEN rivals \cup {tlsKey[e]} ELSE rivals
    /\ UNCHANGED <<sealedTLS, bound, leFile, own, tlsKeys, solo, unkept>>

StopMember(e) ==
    /\ phase[e] # "down" /\ phase' = [phase EXCEPT ![e] = "down"]
    /\ tlsCert' = [tlsCert EXCEPT ![e] = Null] /\ tlsKey' = [tlsKey EXCEPT ![e] = Null]
    /\ spkiDER' = [spkiDER EXCEPT ![e] = Null] /\ fetched' = [fetched EXCEPT ![e] = Null]
    /\ untried' = [untried EXCEPT ![e] = {}]
    /\ solo' = solo \ {e} /\ unpublished' = unpublished \ {e} /\ unkept' = unkept \ {e}
    /\ UNCHANGED <<sealedTLS, bound, leFile, tlsa, tlsKeys, peerFaults, rivals>>

PeerNext ==
    \E e \in PoolMembers :
      \/ GenerateCSR(e) \/ GenerateAndSealNewTLSKey(e) \/ DeployBuild(e)
      \/ GenerateServerTLSConfigUnique(e) \/ FailedStart(e) \/ discoverPeers(e)
      \/ NoPeerLeft(e) \/ updateDANE(e) \/ StopMember(e)
      \/ \E p \in PoolMembers : GetPeerCert(e, p) \/ NoAnswer(e, p) \/ GetPeerKey(e, p)

PeerSpec == PeerInit /\ [][PeerNext]_peerVars

-----------------------------------------------------------------------------
\* Every running member holds the key of the certificate it serves and will find it in its
\* sealed file after a restart of the same build, unless re-sealing it failed; and the key is the one clients
\* find in the TLSA record, unless publishing it failed or one of the two keys came up on its
\* own while members of the pool had another.
PoolAgrees ==
    \A e \in Ready :
      /\ tlsKey[e] = tlsCert[e].key
      /\ sealedTLS[e] = tlsKey[e] \/ e \in unkept
      /\ tlsKey[e] = tlsa \/ e \in unpublished \/ {tlsKey[e], tlsa} \cap rivals # {}

=============================================================================
