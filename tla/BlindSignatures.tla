--------------------------- MODULE BlindSignatures ---------------------------
(***************************************************************************)
(* The blind RSA signature of internal/crypto/blind.go, on a small         *)
(* modulus.  The client blinds the full-domain hash of its message, the    *)
(* service signs by the Chinese remainder theorem under a random timing    *)
(* blind, possibly with a fault in one of the two exponentiations, and the *)
(* client unblinds.  The hash is an input: any residue.                    *)
(***************************************************************************)
EXTENDS Naturals

CONSTANTS
    PrimeP, PrimeQ,  \* the primes of the modulus
    PubExp, PrivExp, \* e and d
    MaxGlitches      \* bound: faulty exponentiations

Modulus == PrimeP * PrimeQ
Residues == 0..(Modulus - 1)

ASSUME BlindAssumption ==
    /\ {PrimeP, PrimeQ, PubExp, PrivExp} \subseteq Nat \ {0} /\ MaxGlitches \in Nat
    /\ (PubExp * PrivExp) % ((PrimeP - 1) * (PrimeQ - 1)) = 1

VARIABLES
    blindPc,    \* "start", "blinded", "signed", "done" or "refused"
    hash,       \* fdh(message)
    factor,     \* the client's blinding factor
    blinded,    \* what the client sends
    blindSig,   \* what the service answers
    signature,  \* the unblinded signature
    glitches

blindVars == <<blindPc, hash, factor, blinded, blindSig, signature, glitches>>

BlindTypeOK ==
    /\ blindPc \in {"start", "blinded", "signed", "done", "refused"}
    /\ {hash, factor, blinded, blindSig, signature} \subseteq Residues
    /\ glitches \in 0..MaxGlitches

BlindInit ==
    /\ blindPc = "start" /\ glitches = 0
    /\ hash \in Residues
    /\ factor = 0 /\ blinded = 0 /\ blindSig = 0 /\ signature = 0

-----------------------------------------------------------------------------
\* b^k mod n (big.Int.Exp)
Exp(b, k, n) ==
    LET power[j \in 0..k] == IF j = 0 THEN 1 % n ELSE (b * power[j - 1]) % n
    IN power[k]

\* The inverses of a mod n (big.Int.ModInverse): none or one.
ModInverse(a, n) == {x \in 0..(n - 1) : (a * x) % n = 1}

\* fdh fails for zero; the factor must be coprime to the modulus.
BlindMessage(r) ==
    /\ blindPc = "start" /\ hash # 0 /\ ModInverse(r, Modulus) # {}
    /\ blindPc' = "blinded" /\ factor' = r
    /\ blinded' = (hash * Exp(r, PubExp, Modulus)) % Modulus
    /\ UNCHANGED <<hash, blindSig, signature, glitches>>

\* B'^d mod n from m1 = B'^dP mod p and m2 = B'^dQ mod q.
Crt(m1, m2) ==
    LET qInv == CHOOSE x \in ModInverse(PrimeQ, PrimeP) : TRUE
        h == (qInv * (m1 + PrimeP - (m2 % PrimeP))) % PrimeP
    IN (m2 + h * PrimeQ) % Modulus

(* mutant: the result is not checked *)
Unchecked(s) == TRUE

\* The Shamir countermeasure: s^e mod n is the input.
Checked(s) == Exp(s, PubExp, Modulus) = blinded

\* SignBlinded under the timing blind t; glitch is what a fault adds to m1.
SignBlinded(t, glitch) ==
    LET input == (blinded * Exp(t, PubExp, Modulus)) % Modulus
        m1 == (Exp(input, PrivExp % (PrimeP - 1), PrimeP) + glitch) % PrimeP
        m2 == Exp(input, PrivExp % (PrimeQ - 1), PrimeQ)
        results == {(Crt(m1, m2) * x) % Modulus : x \in ModInverse(t, Modulus)}
    IN /\ blindPc = "blinded"
       /\ IF glitch = 0 THEN UNCHANGED glitches
          ELSE glitches < MaxGlitches /\ glitches' = glitches + 1
       /\ \/ /\ \E s \in results : Checked(s) /\ blindSig' = s
             /\ blindPc' = "signed"
          \/ /\ \A s \in results : ~Checked(s)
             /\ blindPc' = "refused" /\ UNCHANGED blindSig
       /\ UNCHANGED <<hash, factor, blinded, signature>>

UnblindSignature ==
    /\ blindPc = "signed" /\ blindPc' = "done"
    /\ \E x \in ModInverse(factor, Modulus) : signature' = (blindSig * x) % Modulus
    /\ UNCHANGED <<hash, factor, blinded, blindSig, glitches>>

\* The client asks again after an error.
AskAgain ==
    /\ blindPc = "refused" /\ blindPc' = "blinded"
    /\ UNCHANGED <<hash, factor, blinded, blindSig, signature, glitches>>

VerifySignature(m, s) == m # 0 /\ s # 0 /\ Exp(s, PubExp, Modulus) = m

BlindNext ==
    \/ \E r \in Residues \ {0} : BlindMessage(r)
    \/ \E t \in Residues \ {0}, glitch \in 0..(PrimeP - 1) : SignBlinded(t, glitch)
    \/ UnblindSignature \/ AskAgain

BlindSpec == BlindInit /\ [][BlindNext]_blindVars

-----------------------------------------------------------------------------
\* Whatever the blinding factor, the timing blind and the fault, a signature that leaves the
\* service unblinds to the plain RSA signature hash^d mod n, and verifies for this hash alone.
BlindTokenValid ==
    blindPc = "done" =>
      /\ signature = Exp(hash, PrivExp, Modulus)
      /\ {m \in Residues : VerifySignature(m, signature)} = {hash}

=============================================================================
