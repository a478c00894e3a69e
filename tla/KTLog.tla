-------------------------------- MODULE KTLog --------------------------------
(***************************************************************************)
(* The key transparency log of one tenant: kt_leaves and kt_roots of       *)
(* internal/storage/kt_store.go.  A publisher asks for the next epoch,     *)
(* which answers 1 when its query fails, and writes its leaf in a later    *)
(* statement; either way the epoch may be a signed one by then.            *)
(* AdvanceEpochTx is one SERIALIZABLE transaction, hence one action; a     *)
(* root is modelled by the leaves its hash commits to.                     *)
(***************************************************************************)
EXTENDS Naturals

CONSTANTS
    LogUsers,    \* users and groups of the tenant
    LogGroups,   \* the groups among them
    LogHashes,   \* hashes of public keys
    NoHash,      \* no leaf
    Publishers,  \* publications that may be under way
    MaxEpoch     \* bound: epochs signed

ASSUME LogAssumption ==
    /\ MaxEpoch \in Nat \ {0} /\ NoHash \notin LogHashes
    /\ LogGroups \subseteq LogUsers

VARIABLES
    leaf,    \* kt_leaves: epoch -> user -> hash or NoHash
    latest,  \* the greatest epoch in kt_roots; its epochs are 1..latest
    root,    \* kt_roots: epoch -> the leaves signed
    pub      \* publisher -> [pc, user, hash, epoch]

logVars == <<leaf, latest, root, pub>>

LogEpochs == 1..(MaxEpoch + 1)
LogLeaves == [LogUsers -> LogHashes \cup {NoHash}]
NoLeaves == [u \in LogUsers |-> NoHash]
Publication == [pc: {"idle", "write"}, user: LogUsers, hash: LogHashes, epoch: LogEpochs]

LogTypeOK ==
    /\ leaf \in [LogEpochs -> LogLeaves]
    /\ latest \in 0..MaxEpoch
    /\ root \in [LogEpochs -> LogLeaves]
    /\ pub \in [Publishers -> Publication]

LogInit ==
    /\ leaf = [e \in LogEpochs |-> NoLeaves]
    /\ latest = 0
    /\ root = [e \in LogEpochs |-> NoLeaves]
    /\ \E u \in LogUsers, h \in LogHashes :
         pub = [p \in Publishers |-> [pc |-> "idle", user |-> u, hash |-> h, epoch |-> 1]]

-----------------------------------------------------------------------------
\* The latest root's epoch plus one; 1 without a root, and also when the query fails.
NextEpoch(ok) == IF ok THEN latest + 1 ELSE 1

Publish(p, u, h, ok) ==
    /\ pub[p].pc = "idle"
    /\ pub' = [pub EXCEPT ![p] = [pc |-> "write", user |-> u, hash |-> h, epoch |-> NextEpoch(ok)]]
    /\ UNCHANGED <<leaf, latest, root>>

WriteLeaf(p) == leaf' = [leaf EXCEPT ![pub[p].epoch][pub[p].user] = pub[p].hash]

Published(p) ==
    /\ pub[p].pc = "write"
    /\ pub' = [pub EXCEPT ![p].pc = "idle"]
    /\ UNCHANGED <<latest, root>>

(* mutant: the insert of a user's leaf overwrites like that of a group *)
AddLeafUpsert(p) == Published(p) /\ pub[p].user \notin LogGroups /\ WriteLeaf(p)

\* The insert of a user's leaf fails when the user has one in that epoch.
AddLeaf(p) ==
    /\ Published(p)
    /\ pub[p].user \notin LogGroups
    /\ IF leaf[pub[p].epoch][pub[p].user] = NoHash THEN WriteLeaf(p) ELSE UNCHANGED leaf

\* ON CONFLICT DO UPDATE, whatever the epoch; groups publish this way.
AddOrUpdateLeaf(p) == Published(p) /\ pub[p].user \in LogGroups /\ WriteLeaf(p)

(* mutant: the leaves of the previous epoch are not carried over *)
CarryNothing(e) == leaf[e]

\* The leaves of epoch e together with those of the previous epoch's users without one; the
\* rows are read from kt_leaves, so a late leaf is carried over too.
CarryForward(e) ==
    [u \in LogUsers |-> IF e > 1 /\ leaf[e][u] = NoHash THEN leaf[e - 1][u] ELSE leaf[e][u]]

\* Fails without leaves.
AdvanceEpochTx ==
    /\ latest < MaxEpoch
    /\ LET e == latest + 1
           leaves == CarryForward(e)
       IN /\ leaves # NoLeaves
          /\ leaf' = [leaf EXCEPT ![e] = leaves]
          /\ root' = [root EXCEPT ![e] = leaves]
          /\ latest' = e
    /\ UNCHANGED pub

LogNext ==
    \/ \E p \in Publishers : \/ \E u \in LogUsers, h \in LogHashes, ok \in BOOLEAN : Publish(p, u, h, ok)
                             \/ AddLeaf(p) \/ AddOrUpdateLeaf(p)
    \/ AdvanceEpochTx

LogSpec == LogInit /\ [][LogNext]_logVars

-----------------------------------------------------------------------------
\* The signed history: a user, once in a signed root, is in every later root, because
\* AdvanceEpochTx carries leaves forward; and the leaf of a user (published with AddLeaf) that a
\* signed root commits to is never altered, though publishers whose epoch was signed in between,
\* or who were told epoch 1 by a failed query, write to signed epochs.  For a group nothing of
\* the kind holds: AddOrUpdateLeaf overwrites its leaf in a signed epoch too.
SignedHistory ==
    /\ \A e \in 1..latest, u \in LogUsers :
         e > 1 /\ root[e - 1][u] # NoHash => root[e][u] # NoHash
    /\ \A e \in 1..latest, u \in LogUsers \ LogGroups :
         root[e][u] # NoHash => leaf[e][u] = root[e][u]

=============================================================================
