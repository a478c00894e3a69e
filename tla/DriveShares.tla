----------------------------- MODULE DriveShares -----------------------------
(***************************************************************************)
(* The folder content keys (FCK) of one shared folder of the drive:        *)
(* internal/storage/drive_store.go.  Every change of the membership        *)
(* advances the folder's epoch; the owner's client draws a new FCK and     *)
(* wraps it for the members it listed before, and records the change of    *)
(* the membership in a later call.  An FCK is modelled by the epoch that   *)
(* the advance which brought it in returned.  Several clients of the owner *)
(* may be at work; they are outside the repository and follow the comments *)
(* of the store.                                                           *)
(***************************************************************************)
EXTENDS Naturals, FiniteSets

CONSTANTS
    Owner, Friends,   \* the folder's owner, users it may be shared with
    Clients,          \* clients of the owner
    DriveDocs,        \* files of the folder
    NoShare,
    MaxAdvances       \* bound: epochs

ASSUME SharesAssumption ==
    /\ Owner \notin Friends /\ MaxAdvances \in Nat /\ NoShare \notin Friends
    /\ NoShare \notin [joined: Nat, past: BOOLEAN, expired: BOOLEAN]

Parties == Friends \cup {Owner}
FolderEpochs == 1..MaxAdvances

VARIABLES
    fEpoch,     \* current_epoch of the folder; 0: never shared
    shares,     \* drive_folder_shares: friend -> [joined, past, expired] or NoShare
    fck,        \* drive_folder_epoch_keys: party -> epoch -> the FCK wrapped, 0 for no row
    names,      \* epochs with a row in drive_folder_epoch_names
    docs,       \* drive_files: file -> [state, epoch], epoch 0 without an FCK wrap
    client,     \* client -> the membership change it works on
    upload,     \* file -> the epoch its uploader read, while the upload is under way
    skewed,     \* observation: epochs whose wraps went to an outdated list, or whose advance
                \*   fell between the two calls of another client's change
    crossed     \* observation: friends whom two changes of the membership concerned at once, or left half-way

shareVars == <<fEpoch, shares, fck, names, docs, client, upload, skewed, crossed>>

IdleClient == [pc |-> "idle", op |-> "add", who |-> Owner, past |-> FALSE, list |-> {}, files |-> {},
               epoch |-> 0, filled |-> 0]

SharesTypeOK ==
    /\ fEpoch \in 0..MaxAdvances
    /\ shares \in [Friends -> [joined: FolderEpochs, past: BOOLEAN, expired: BOOLEAN]
                              \cup {NoShare}]
    /\ fck \in [Parties -> [FolderEpochs -> 0..MaxAdvances]]
    /\ names \subseteq FolderEpochs
    /\ docs \in [DriveDocs -> [state: {"none", "stored"}, epoch: 0..MaxAdvances]]
    /\ client \in [Clients -> [pc: {"idle", "advance", "record", "backfill"}, op: {"add", "remove"},
                               who: Parties, past: BOOLEAN, list: SUBSET Parties,
                               files: SUBSET DriveDocs, epoch: 0..MaxAdvances,
                               filled: 0..MaxAdvances]]
    /\ upload \in [DriveDocs -> 0..(MaxAdvances + 1)]
    /\ skewed \subseteq FolderEpochs /\ crossed \subseteq Friends

NoUpload == MaxAdvances + 1

SharesInit ==
    /\ fEpoch = 0
    /\ shares = [u \in Friends |-> NoShare]
    /\ fck = [u \in Parties |-> [e \in FolderEpochs |-> 0]]
    /\ names = {}
    /\ docs = [x \in DriveDocs |-> [state |-> "none", epoch |-> 0]]
    /\ client = [c \in Clients |-> IdleClient]
    /\ upload = [x \in DriveDocs |-> NoUpload]
    /\ skewed = {} /\ crossed = {}

-----------------------------------------------------------------------------
\* Members whose share has not expired.
ListFolderShareMembers == {u \in Friends : shares[u] # NoShare /\ ~shares[u].expired}

\* The list of recipients a change of who's membership leads to, the owner included.
ListAfter(op, who) ==
    {Owner} \cup IF op = "add" THEN ListFolderShareMembers \cup {who}
                               ELSE ListFolderShareMembers \ {who}

\* ListFilesInFolderRecursive
ListFilesInFolder == {x \in DriveDocs : docs[x].state = "stored"}

SetClient(c, r) == client' = [client EXCEPT ![c] = r]

\* The client lists members and, for a first share, files.
StartChange(c, op, who, past) ==
    /\ client[c].pc = "idle" /\ fEpoch < MaxAdvances
    /\ op = "remove" => shares[who] # NoShare /\ ~past
    /\ SetClient(c, [pc |-> "advance", op |-> op, who |-> who, past |-> past,
                     list |-> ListAfter(op, who),
                     files |-> IF fEpoch = 0 THEN ListFilesInFolder ELSE {}, epoch |-> 0,
                     filled |-> 0])
    /\ crossed' = IF \E d \in Clients \ {c} : client[d].pc # "idle" /\ client[d].who = who
                  THEN crossed \cup {who} ELSE crossed
    /\ UNCHANGED <<fEpoch, shares, fck, names, docs, upload, skewed>>

(* mutant: the wraps of the new epoch are stored under the old one *)
NewEpochOld == IF fEpoch = 0 THEN 1 ELSE fEpoch

\* UPDATE ... SET current_epoch = current_epoch + 1 ... RETURNING
NewEpoch == fEpoch + 1

\* One transaction: counter, wraps for the client's list, name, wraps of the listed files.
AdvanceFolderEpoch(c) ==
    /\ client[c].pc = "advance" /\ fEpoch < MaxAdvances
    /\ LET e == NewEpoch IN
         /\ fEpoch' = e
         /\ fck' = [u \in Parties |-> IF u \in client[c].list THEN [fck[u] EXCEPT ![e] = e] ELSE fck[u]]
         /\ names' = names \cup {e}
         /\ docs' = [x \in DriveDocs |->
              IF x \in client[c].files /\ docs[x].state = "stored"
              THEN [docs[x] EXCEPT !.epoch = e] ELSE docs[x]]
         /\ skewed' = IF \/ client[c].list # ListAfter(client[c].op, client[c].who)
                         \/ \E d \in Clients \ {c} : client[d].pc = "record"
                      THEN skewed \cup {e} ELSE skewed
         /\ SetClient(c, [client[c] EXCEPT !.pc = "record", !.epoch = e])
    /\ UNCHANGED <<shares, upload, crossed>>

AddFolderShareMember(c) ==
    /\ client[c].pc = "record" /\ client[c].op = "add"
    /\ shares' = [shares EXCEPT ![client[c].who] =
                    [joined |-> client[c].epoch, past |-> client[c].past, expired |-> FALSE]]
    /\ SetClient(c, IF client[c].past THEN [client[c] EXCEPT !.pc = "backfill"] ELSE IdleClient)
    /\ UNCHANGED <<fEpoch, fck, names, docs, upload, skewed, crossed>>

\* One round of the loop, an INSERT of its own.  The client passes its wraps of the FCKs of
\* epochs 1 to joined - 1 in that order; for each of these epochs the loop stores the first of
\* the wraps, unless there is a row.  (A failing INSERT ends the call: AbandonChange.)
BackfillEpochKeysForMember(c) ==
    /\ client[c].pc = "backfill"
    /\ LET u == client[c].who
           e == client[c].filled + 1
           wraps == [k \in 1..(client[c].epoch - 1) |-> fck[Owner][k]]
       IN \/ /\ e < client[c].epoch
             /\ fck' = IF fck[u][e] = 0 THEN [fck EXCEPT ![u][e] = wraps[1]] ELSE fck
             /\ SetClient(c, [client[c] EXCEPT !.filled = e])
          \/ /\ e >= client[c].epoch
             /\ SetClient(c, IdleClient) /\ UNCHANGED fck
    /\ UNCHANGED <<fEpoch, shares, names, docs, upload, skewed, crossed>>

(* mutant: only the wrap of the current epoch is deleted *)
WithoutKeysCurrent(u) == [fck EXCEPT ![u] = [e \in FolderEpochs |-> IF e = fEpoch THEN 0 ELSE fck[u][e]]]

WithoutKeys(u) == [fck EXCEPT ![u] = [e \in FolderEpochs |-> 0]]

RemoveFolderShareMember(c) ==
    /\ client[c].pc = "record" /\ client[c].op = "remove"
    /\ shares' = [shares EXCEPT ![client[c].who] = NoShare]
    /\ fck' = WithoutKeys(client[c].who)
    /\ SetClient(c, IdleClient)
    /\ UNCHANGED <<fEpoch, names, docs, upload, skewed, crossed>>

\* A client stops half-way; what it has done stays.
AbandonChange(c) ==
    /\ client[c].pc # "idle"
    /\ crossed' = IF client[c].pc = "record" THEN crossed \cup {client[c].who} ELSE crossed
    /\ SetClient(c, IdleClient)
    /\ UNCHANGED <<fEpoch, shares, fck, names, docs, upload, skewed>>

\* expires_at passes; the row and the wraps stay.
ExpireShare(u) ==
    /\ u \in ListFolderShareMembers
    /\ shares' = [shares EXCEPT ![u].expired = TRUE]
    /\ UNCHANGED <<fEpoch, fck, names, docs, client, upload, skewed, crossed>>

\* GetShareRootForFolder: the epoch an uploader encrypts for, 0 for a folder nobody shares.
GetShareRootForFolder == IF \E u \in Friends : shares[u] # NoShare THEN fEpoch ELSE 0

StartUpload(x) ==
    /\ docs[x].state = "none" /\ upload[x] = NoUpload
    /\ upload' = [upload EXCEPT ![x] = GetShareRootForFolder]
    /\ UNCHANGED <<fEpoch, shares, fck, names, docs, client, skewed, crossed>>

\* CreateFile or CreateFileViaSharedFolder, with the caller's epoch.
CreateFileViaSharedFolder(x) ==
    /\ upload[x] # NoUpload
    /\ docs' = [docs EXCEPT ![x] = [state |-> "stored", epoch |-> upload[x]]]
    /\ upload' = [upload EXCEPT ![x] = NoUpload]
    /\ UNCHANGED <<fEpoch, shares, fck, names, client, skewed, crossed>>

SharesNext ==
    \/ \E c \in Clients :
         \/ \E op \in {"add", "remove"}, who \in Friends, past \in BOOLEAN : StartChange(c, op, who, past)
         \/ AdvanceFolderEpoch(c) \/ AddFolderShareMember(c) \/ BackfillEpochKeysForMember(c)
         \/ RemoveFolderShareMember(c) \/ AbandonChange(c)
    \/ \E u \in Friends : ExpireShare(u)
    \/ \E x \in DriveDocs : StartUpload(x) \/ CreateFileViaSharedFolder(x)

SharesSpec == SharesInit /\ [][SharesNext]_shareVars

-----------------------------------------------------------------------------
\* GetFolderEpochKeysForUser
GetFolderEpochKeysForUser(u) == {e \in FolderEpochs : fck[u][e] # 0}

Undisturbed(u) == u \notin crossed /\ \A c \in Clients : client[c].pc # "idle" => client[c].who # u

\* Wraps follow the membership.  A member can fetch the key of every epoch since it joined,
\* and a user who is no member holds none (RemoveFolderShareMember deletes them all), except
\* for epochs advanced while another client changed the membership, and for users whom two
\* changes concerned at once or whose change was left half-way.  The owner can open every file
\* that is wrapped under an FCK.
WrapsFollowMembers ==
    /\ \A u \in Friends : Undisturbed(u) =>
        /\ u \in ListFolderShareMembers =>
             (shares[u].joined..fEpoch) \subseteq (GetFolderEpochKeysForUser(u) \cup skewed)
        /\ shares[u] = NoShare => GetFolderEpochKeysForUser(u) \subseteq skewed
    /\ \A x \in DriveDocs : docs[x].epoch # 0 => docs[x].epoch \in GetFolderEpochKeysForUser(Owner)

\* What BackfillEpochKeysForMember says it stores: the wrap in the row of a past epoch is of
\* that epoch's FCK.
WrapsFitEpochs == \A u \in Friends, e \in FolderEpochs : fck[u][e] \in {0, e}

=============================================================================
