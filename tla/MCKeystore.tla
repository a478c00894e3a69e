----------------------------- MODULE MCKeystore -----------------------------
(* Small instances of Keystore for TLC: one role, two enclave builds, two  *)
(* candidate keys, and an operator who signed one proof of each kind.      *)
EXTENDS Keystore, TLC

CONSTANTS p1, p2, dkim, m1, m2, k1, k2, nAdd, nRev, nKey, nKey2, nList

MCProcs == {p1, p2}
MCMeasurements == {Zero, m1, m2}
MCNonces == {nAdd, nRev, nKey, nKey2, nList}

Proof(op, role, arg, nonce) == [op |-> op, role |-> role, arg |-> arg, nonce |-> nonce]
Ask(op, role, peer, arg, nonce) ==
    [op |-> op, role |-> role, peer |-> peer, arg |-> arg, nonce |-> nonce]
Present(s) == Ask(s.op, s.role, Zero, s.arg, s.nonce)

MCSignedProofs == {
    Proof("delegate", dkim, m1, nAdd), Proof("revoke", dkim, m1, nRev),
    Proof("provision", dkim, k1, nKey), Proof("provision", dkim, k2, nKey2),
    Proof("list", None, None, nList)}

Get(m) == Ask("get", dkim, m, None, None)
Chain(by, m) == Ask("delegate", dkim, by, m, None)

(* every signed proof, gets by both builds, chained delegations by both,   *)
(* a measurement the proof at hand was not signed for, a missing proof     *)
MCRequests == {Present(s) : s \in MCSignedProofs} \cup
    {Get(m1), Get(m2), Chain(m1, m2), Chain(m2, m1),
     Ask("delegate", dkim, Zero, m2, nAdd), Ask("revoke", dkim, Zero, m1, None)}

Symmetry == Permutations(MCProcs)
=============================================================================
