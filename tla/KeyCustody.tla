----------------------------- MODULE KeyCustody -----------------------------
(***************************************************************************)
(* What the keystore promises, without handlers, locks, files or crashes:  *)
(* a role's key is installed once, on the operator's word; enclaves are    *)
(* admitted to a role by the operator or by a role that already has        *)
(* members; removal is the operator's; a key goes to admitted enclaves.    *)
(***************************************************************************)
CONSTANTS Roles, Measurements, Keys, NoKey,
          Installable,  \* <<role, key>> pairs the operator signed
          Endorsed,     \* <<role, enclave>> pairs the operator signed
          Revocable     \* <<role, enclave>> pairs the operator signed away

VARIABLES key,       \* per role: its key, or NoKey
          granted,   \* per role: the enclaves that may fetch it
          ever,      \* per role: the enclaves that ever could
          released   \* keys handed out

cvars == <<key, granted, ever, released>>

Init ==
    /\ key = [r \in Roles |-> NoKey]
    /\ granted = [r \in Roles |-> {}]
    /\ ever = [r \in Roles |-> {}]
    /\ released = {}

Install(r, k) ==
    /\ key[r] = NoKey /\ <<r, k>> \in Installable
    /\ key' = [key EXCEPT ![r] = k]
    /\ UNCHANGED <<granted, ever, released>>

Grant(r, m) ==
    /\ <<r, m>> \in Endorsed \/ granted[r] # {}
    /\ granted' = [granted EXCEPT ![r] = @ \cup {m}]
    /\ ever' = [ever EXCEPT ![r] = @ \cup {m}]
    /\ UNCHANGED <<key, released>>

Withdraw(r, m) ==
    /\ <<r, m>> \in Revocable
    /\ granted' = [granted EXCEPT ![r] = @ \ {m}]
    /\ UNCHANGED <<key, ever, released>>

(* A fetch that passed the check before a withdrawal may still complete.   *)
Release(r, m) ==
    /\ key[r] # NoKey /\ m \in ever[r]
    /\ released' = released \cup {[role |-> r, peer |-> m, key |-> key[r]]}
    /\ UNCHANGED <<key, granted, ever>>

Next ==
    \E r \in Roles :
        \/ \E k \in Keys : Install(r, k)
        \/ \E m \in Measurements : Grant(r, m) \/ Withdraw(r, m) \/ Release(r, m)

Spec == Init /\ [][Next]_cvars
=============================================================================
