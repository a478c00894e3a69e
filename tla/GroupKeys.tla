------------------------------ MODULE GroupKeys ------------------------------
(***************************************************************************)
(* The key of one private group: internal/storage/group_store.go.  The     *)
(* private key exists only wrapped for each member; after a rotation the   *)
(* named admin wraps the new key for the members one call at a time, while *)
(* other admins add and remove members or rotate again.  A wrapped key is  *)
(* modelled by the epoch whose key it wraps; the clients are outside the   *)
(* repository and follow the comments of the store.                        *)
(***************************************************************************)
EXTENDS Naturals, FiniteSets

CONSTANTS
    GroupUsers,
    Admins,       \* the admins the group is created with
    Devices,      \* client devices
    AdminOf,      \* device -> its user, who administers the group while its row says so
    NotMember,
    MaxRotations, \* bound: rotations
    MaxJoins      \* bound: calls of AddMember and SetMemberAdmin

ASSUME GroupAssumption ==
    /\ Admins \subseteq GroupUsers /\ NotMember \notin GroupUsers
    /\ AdminOf \in [Devices -> GroupUsers]
    /\ MaxRotations \in Nat /\ MaxJoins \in Nat

KeyEpochs == 0..MaxRotations
NoWrap == MaxRotations + 1   \* wrapped_private_key and kem_output are NULL

VARIABLES
    group,      \* [epoch, status, pending] of the groups row
    roster,     \* group_members: user -> [wrap, admin, joined] or NotMember
    archive,    \* group_epoch_keys: [user, epoch, wrap]
    dev,        \* device -> [pc, epoch, todo], todo the members it still has to serve
    joins,
    served      \* observation: <<member, epoch>>, the members of the group while it was active

groupVars == <<group, roster, archive, dev, joins, served>>

GroupRow == [epoch: KeyEpochs, status: {"active", "rotation_pending", "deleted"},
             pending: GroupUsers \cup {NotMember}]
MemberRow == [wrap: KeyEpochs \cup {NoWrap}, admin: BOOLEAN, joined: KeyEpochs]

ASSUME GroupRowAssumption == NotMember \notin MemberRow

GroupTypeOK ==
    /\ group \in GroupRow
    /\ roster \in [GroupUsers -> MemberRow \cup {NotMember}]
    /\ archive \subseteq [user: GroupUsers, epoch: KeyEpochs, wrap: KeyEpochs]
    /\ dev \in [Devices -> [pc: {"idle", "adding", "listing", "serving"}, epoch: KeyEpochs,
                            todo: SUBSET GroupUsers]]
    /\ joins \in 0..MaxJoins
    /\ served \subseteq GroupUsers \X KeyEpochs

IdleDevice == [pc |-> "idle", epoch |-> 0, todo |-> {}]

\* CreateGroup: active at epoch 0, every initial member with its wrap.
GroupInit ==
    /\ group = [epoch |-> 0, status |-> "active", pending |-> NotMember]
    /\ \E M \in SUBSET GroupUsers :
         /\ Admins \subseteq M
         /\ roster = [u \in GroupUsers |->
                       IF u \in M THEN [wrap |-> 0, admin |-> u \in Admins, joined |-> 0] ELSE NotMember]
         /\ served = M \X {0}
    /\ archive = {} /\ joins = 0
    /\ dev = [d \in Devices |-> IdleDevice]

-----------------------------------------------------------------------------
ListMembers == {u \in GroupUsers : roster[u] # NotMember}
IsGroupAdmin(u) == u \in ListMembers /\ roster[u].admin

\* The client reads the group and wraps the key of the epoch it sees.
StartAdd(d) ==
    /\ dev[d].pc = "idle" /\ IsGroupAdmin(AdminOf[d]) /\ group.status = "active"
    /\ joins < MaxJoins /\ joins' = joins + 1
    /\ dev' = [dev EXCEPT ![d] = [pc |-> "adding", epoch |-> group.epoch, todo |-> {}]]
    /\ UNCHANGED <<group, roster, archive, served>>

\* The row takes the epoch, the wrap and the admin flag of the client.
AddMember(d, u, admin) ==
    /\ dev[d].pc = "adding" /\ group.status # "deleted" /\ u \notin ListMembers
    /\ roster' = [roster EXCEPT ![u] = [wrap |-> dev[d].epoch, admin |-> admin, joined |-> dev[d].epoch]]
    /\ served' = IF group.status = "active" THEN served \cup {<<u, group.epoch>>} ELSE served
    /\ dev' = [dev EXCEPT ![d] = IdleDevice]
    /\ UNCHANGED <<group, archive, joins>>

\* The archived wraps of the member stay.
RemoveMember(u) ==
    /\ u \in ListMembers
    /\ roster' = [roster EXCEPT ![u] = NotMember]
    /\ served' = served \ {<<u, group.epoch>>}
    /\ UNCHANGED <<group, archive, dev, joins>>

\* The owner of the domain appoints and dismisses.
SetMemberAdmin(u, admin) ==
    /\ u \in ListMembers /\ joins < MaxJoins /\ joins' = joins + 1
    /\ roster' = [roster EXCEPT ![u].admin = admin]
    /\ UNCHANGED <<group, archive, dev, served>>

Cleared(r) == IF r = NotMember THEN r ELSE [r EXCEPT !.wrap = NoWrap]

(* mutant: the keys are archived under the epoch that begins *)
ArchivedAhead ==
    archive \cup {[user |-> u, epoch |-> group.epoch + 1, wrap |-> roster[u].wrap] :
                    u \in {v \in ListMembers : roster[v].wrap # NoWrap}}

\* An existing archive row wins.
Archived ==
    archive \cup {[user |-> u, epoch |-> group.epoch, wrap |-> roster[u].wrap] :
                    u \in {v \in ListMembers : /\ roster[v].wrap # NoWrap
                                               /\ \A a \in archive : ~(a.user = v /\ a.epoch = group.epoch)}}

\* One transaction under the row lock of the group.
RotateGroupKey(d) ==
    /\ dev[d].pc \in {"idle", "serving"} /\ IsGroupAdmin(AdminOf[d]) /\ group.epoch < MaxRotations
    /\ archive' = Archived
    /\ group' = [epoch |-> group.epoch + 1, status |-> "rotation_pending", pending |-> AdminOf[d]]
    /\ roster' = [u \in GroupUsers |-> Cleared(roster[u])]
    /\ dev' = [dev EXCEPT ![d] = [pc |-> "listing", epoch |-> group.epoch + 1, todo |-> {}]]
    /\ UNCHANGED <<joins, served>>

\* The leader reads whom to serve.
StartServing(d) ==
    /\ dev[d].pc = "listing"
    /\ dev' = [dev EXCEPT ![d].pc = "serving", ![d].todo = ListMembers]
    /\ UNCHANGED <<group, roster, archive, joins, served>>

\* No epoch in the call: it overwrites the live wrap, and a leader of an older rotation puts
\* the older key there.  A member removed since gives an error, which the leader passes over.
SetMemberWrappedKey(d, u) ==
    /\ dev[d].pc = "serving" /\ u \in dev[d].todo
    /\ dev' = [dev EXCEPT ![d].todo = @ \ {u}]
    /\ roster' = IF u \in ListMembers THEN [roster EXCEPT ![u].wrap = dev[d].epoch] ELSE roster
    /\ UNCHANGED <<group, archive, joins, served>>

(* mutant: the epoch of the leader's rotation is not compared *)
ClearsAnyEpoch(d) == group.pending = AdminOf[d]

\* The named leader, and the epoch still its own.
Clears(d) == group.pending = AdminOf[d] /\ group.epoch = dev[d].epoch

ClearPendingKeygen(d) ==
    /\ dev[d].pc = "serving" /\ dev[d].todo = {}
    /\ group' = IF Clears(d) THEN [group EXCEPT !.pending = NotMember, !.status = "active"]
                             ELSE group
    /\ served' = IF Clears(d) THEN served \cup (ListMembers \X {group.epoch}) ELSE served
    /\ dev' = [dev EXCEPT ![d] = IdleDevice]
    /\ UNCHANGED <<roster, archive, joins>>

\* A device goes away in the middle of what it does.
Abandon(d) ==
    /\ dev[d].pc # "idle"
    /\ dev' = [dev EXCEPT ![d] = IdleDevice]
    /\ UNCHANGED <<group, roster, archive, joins, served>>

\* The rows of members and archived keys go with the group.
DeleteGroup ==
    /\ group.status # "deleted"
    /\ group' = [group EXCEPT !.status = "deleted"]
    /\ roster' = [u \in GroupUsers |-> NotMember]
    /\ archive' = {} /\ served' = {}
    /\ UNCHANGED <<dev, joins>>

\* What a reader gets for mail of an epoch: the live wrap for the current one, GetEpochKey
\* for an older one.
KeysFor(u, e) ==
    IF e = group.epoch THEN {roster[v].wrap : v \in {u} \cap ListMembers} \ {NoWrap}
    ELSE {a.wrap : a \in {b \in archive : b.user = u /\ b.epoch = e}}

GroupNext ==
    \/ \E d \in Devices : \/ StartAdd(d) \/ RotateGroupKey(d) \/ StartServing(d)
                          \/ ClearPendingKeygen(d) \/ Abandon(d)
                          \/ \E u \in GroupUsers : SetMemberWrappedKey(d, u)
                          \/ \E u \in GroupUsers, admin \in BOOLEAN : AddMember(d, u, admin)
    \/ \E u \in GroupUsers : RemoveMember(u) \/ \E admin \in BOOLEAN : SetMemberAdmin(u, admin)
    \/ DeleteGroup

GroupSpec == GroupInit /\ [][GroupNext]_groupVars

-----------------------------------------------------------------------------
\* Every member of an active group is left with a wrap of it for good: the live one while the
\* epoch lasts (ClearPendingKeygen is stale-rotation safe), an archived one after any number of
\* rotations, its own removal included (GetEpochKey); and what is stored for an epoch is never
\* the key of a later one, so no old wrap gives a removed member a later key.  It may be the
\* key of an EARLIER epoch: SetMemberWrappedKey and AddMember take whatever a late client sends.
GroupKeysKept ==
    /\ group.status = "active" => ListMembers \X {group.epoch} \subseteq served
    /\ \A s \in served : KeysFor(s[1], s[2]) # {}
    /\ \A u \in GroupUsers, e \in KeyEpochs : \A k \in KeysFor(u, e) : k <= e

=============================================================================
