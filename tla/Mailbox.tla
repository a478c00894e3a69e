------------------------------- MODULE Mailbox -------------------------------
(***************************************************************************)
(* One user's mailbox: messages, drafts, folders and labels in the         *)
(* database (internal/storage/mail_store.go, folder_store.go,              *)
(* label_store.go) and the message blobs in the object store, which is     *)
(* moved to another account while the system runs (minio.go).  The         *)
(* pruning worker and the header backfill list rows in one statement and   *)
(* change them in later ones, and a caller uploads a message's blob before *)
(* it writes the row.  A reply that threads two messages, the read and     *)
(* star flags and the storage counter (which no reader trusts) are left    *)
(* out.                                                                    *)
(***************************************************************************)
EXTENDS Naturals, FiniteSets, Tables

CONSTANTS
    Mails,          \* message ids; an id is used once
    CustomFolders,  \* ids of the user's own folders; an id is used once
    Labels,
    BatchSize,      \* messages one call of PruneOldestMessages lists
    MaxSaves,       \* bound: versions of a draft
    MaxMailCalls    \* bound: calls of the user

\* A blob's content is the version of the draft it was made from; the object key names the
\* message only.
Contents == 0..MaxSaves
ObjectStore == [Mails -> Contents \cup {Null}]
DefaultFolders == {"inbox", "trash"}     \* the others are handled as the inbox is

\* The columns that matter: key opens the content of that version; headers are Null, those of a
\* version, or built from the legacy columns.
Legacy == MaxSaves + 1
MailRow == [folder: DefaultFolders \cup CustomFolders, key: Contents, at: 0..1,
            headers: (0..Legacy) \cup {Null}]

ASSUME MailboxAssumption ==
    /\ {BatchSize, MaxSaves, MaxMailCalls} \subseteq Nat
    /\ {Null, Gone} \cap (Mails \cup CustomFolders \cup Nat \cup STRING \cup MailRow) = {}
    /\ Null \notin ObjectStore /\ CustomFolders \cap DefaultFolders = {}

VARIABLES
    mailFolders,  \* folders that exist
    mail,         \* message -> row, Null or Gone
    labelled,     \* message_labels
    primary,      \* the account that is written to: message -> content, or Null
    fallback,     \* the account read after a miss, Null without one
    saving,       \* uploads whose row is not written yet: <<message, version>>
    pruning,      \* ids the open prune transaction has listed, or Null
    todo,         \* ids the running backfill has listed
    mailCalls,
    \* observations
    erased,       \* messages the user deleted
    pruned,       \* messages PruneOldestMessages deleted
    newest,       \* message -> version uploaded last, or Null
    apart,        \* messages of which a save failed half way, or two overlapped, since the last alone
    saved,        \* message -> version of the headers the user saved last, or Null
    overtaken     \* messages whose headers the user saved last while a backfill had them listed

mailVars == <<mailFolders, mail, labelled, primary, fallback, saving, pruning, todo, mailCalls,
              erased, pruned, newest, apart, saved, overtaken>>

MailTypeOK ==
    /\ mailFolders \subseteq DefaultFolders \cup CustomFolders
    /\ mail \in [Mails -> MailRow \cup {Null, Gone}]
    /\ labelled \subseteq Mails \X Labels
    /\ primary \in ObjectStore /\ fallback \in ObjectStore \cup {Null}
    /\ saving \subseteq Mails \X Contents
    /\ pruning = Null \/ pruning \subseteq Mails
    /\ todo \subseteq Mails /\ mailCalls \in 0..MaxMailCalls
    /\ erased \subseteq Mails /\ pruned \subseteq Mails /\ overtaken \subseteq Mails
    /\ {saved, newest} \subseteq ObjectStore /\ apart \subseteq Mails

\* CreateDefaultFolders has inserted all default folders, or failed before the trash.
CreateDefaultFolders == {DefaultFolders, {"inbox"}}

MailboxInit ==
    /\ mailFolders \in CreateDefaultFolders
    /\ mail = [m \in Mails |-> Null]
    /\ labelled = {} /\ primary = mail /\ fallback = Null
    /\ saving = {} /\ pruning = Null /\ todo = {} /\ mailCalls = 0
    /\ erased = {} /\ pruned = {} /\ apart = {} /\ overtaken = {}
    /\ newest = mail /\ saved = mail

-----------------------------------------------------------------------------
MailRows == {m \in Mails : mail[m] \notin {Null, Gone}}
UserCall == mailCalls < MaxMailCalls /\ mailCalls' = mailCalls + 1
mailObserved == <<erased, pruned, newest, apart, saved, overtaken>>
blobVars == <<primary, fallback, saving>>

\* Rows go, and with them their labels.
RemoveMails(M) ==
    /\ mail' = [m \in Mails |-> IF m \in M THEN Gone ELSE mail[m]]
    /\ labelled' = {x \in labelled : x[1] \notin M}

-----------------------------------------------------------------------------
(* Messages. *)

Saving(m) == {s \in saving : s[1] = m}

\* The content of a new message, or of a draft that is saved again: it replaces the one before
\* while the row still has the key of that one.
Upload(m, v) ==
    /\ UserCall
    /\ \/ mail[m] = Null /\ newest[m] = Null /\ v = 0
       \/ m \in MailRows /\ v = newest[m] + 1
    /\ primary' = [primary EXCEPT ![m] = v]
    /\ saving' = saving \cup {<<m, v>>}
    /\ newest' = [newest EXCEPT ![m] = v]
    /\ apart' = IF Saving(m) = {} THEN apart \ {m} ELSE apart \cup {m}
    /\ UNCHANGED <<mailFolders, mail, labelled, fallback, pruning, todo, erased, pruned, saved, overtaken>>

\* Rows written before the headers column existed have none.
InsertMessage(m, f, at, h) ==
    /\ <<m, 0>> \in saving /\ mail[m] = Null /\ f \in mailFolders
    /\ mail' = [mail EXCEPT ![m] = [folder |-> f, key |-> 0, at |-> at, headers |-> h]]
    /\ saving' = saving \ {<<m, 0>>}
    /\ saved' = [saved EXCEPT ![m] = h]
    /\ UNCHANGED <<mailFolders, labelled, primary, fallback, pruning, todo, mailCalls, erased, pruned,
                   newest, apart, overtaken>>

\* The key of the content that was uploaded, and new headers unless the caller passes none.
UpdateDraftByTenant(m, v, withHeaders) ==
    /\ <<m, v>> \in saving /\ m \in MailRows
    /\ mail' = [mail EXCEPT ![m].key = v, ![m].headers = IF withHeaders THEN v ELSE @]
    /\ saving' = saving \ {<<m, v>>}
    /\ saved' = IF withHeaders THEN [saved EXCEPT ![m] = v] ELSE saved
    /\ overtaken' = IF ~withHeaders THEN overtaken
                     ELSE IF m \in todo THEN overtaken \cup {m} ELSE overtaken \ {m}
    /\ UNCHANGED <<mailFolders, labelled, primary, fallback, pruning, todo, mailCalls, erased, pruned,
                   newest, apart>>

\* The row's write fails, finds no row, or is never made.
RowNotWritten(m, v) ==
    /\ <<m, v>> \in saving /\ saving' = saving \ {<<m, v>>}
    /\ apart' = apart \cup {m}
    /\ UNCHANGED <<mailFolders, mail, labelled, primary, fallback, pruning, todo, mailCalls, erased, pruned,
                   newest, saved, overtaken>>

\* The target is an existing folder: messages.folder_id is a foreign key.
MoveMessagesByTenant(M, f) ==
    /\ UserCall /\ M \cap MailRows # {} /\ f \in mailFolders
    /\ mail' = [m \in Mails |-> IF m \in M \cap MailRows THEN [mail[m] EXCEPT !.folder = f] ELSE mail[m]]
    /\ UNCHANGED <<mailFolders, labelled, blobVars, pruning, todo, mailObserved>>

DeleteMessagesByTenant(M) ==
    /\ UserCall /\ M \cap MailRows # {}
    /\ RemoveMails(M \cap MailRows)
    /\ erased' = erased \cup (M \cap MailRows)
    /\ UNCHANGED <<mailFolders, blobVars, pruning, todo, pruned, newest, apart, saved, overtaken>>

-----------------------------------------------------------------------------
(* Folders and labels. *)

CreateFolder(f) ==
    /\ UserCall /\ f \in CustomFolders \ mailFolders
    /\ mailFolders' = mailFolders \cup {f}
    /\ UNCHANGED <<mail, labelled, blobVars, pruning, todo, mailObserved>>

\* The rows of the folder that is deleted, moved to the trash.
Emptied(f) ==
    [m \in Mails |-> IF m \in MailRows /\ mail[m].folder = f THEN [mail[m] EXCEPT !.folder = "trash"] ELSE mail[m]]

\* One transaction that locks the folder's row; it fails when the user has no trash.
DeleteMailFolder(f) ==
    /\ UserCall /\ f \in mailFolders \cap CustomFolders /\ "trash" \in mailFolders
    /\ mail' = Emptied(f)
    /\ mailFolders' = mailFolders \ {f}
    /\ UNCHANGED <<labelled, blobVars, pruning, todo, mailObserved>>

\* One statement per message and label; both must exist.
AddLabelsToMessages(m, l) ==
    /\ UserCall /\ m \in MailRows
    /\ labelled' = labelled \cup {<<m, l>>}
    /\ UNCHANGED <<mailFolders, mail, blobVars, pruning, todo, mailObserved>>
RemoveLabelsFromMessages(m, l) ==
    /\ UserCall /\ <<m, l>> \in labelled
    /\ labelled' = labelled \ {<<m, l>>}
    /\ UNCHANGED <<mailFolders, mail, blobVars, pruning, todo, mailObserved>>
DeleteLabel(l) ==
    /\ UserCall /\ \E x \in labelled : x[2] = l
    /\ labelled' = {x \in labelled : x[2] # l}
    /\ UNCHANGED <<mailFolders, mail, blobVars, pruning, todo, mailObserved>>

-----------------------------------------------------------------------------
(* The pruning worker: two statements of a READ COMMITTED transaction. *)

\* The choices of the oldest BatchSize rows; rows of the same age come in any order.
Oldest ==
    {M \in SUBSET MailRows :
       /\ Cardinality(M) = IF Cardinality(MailRows) < BatchSize THEN Cardinality(MailRows) ELSE BatchSize
       /\ \A m \in M, n \in MailRows \ M : mail[m].at <= mail[n].at}

PruneList(M) ==
    /\ pruning = Null /\ M \in Oldest /\ M # {}
    /\ pruning' = M
    /\ UNCHANGED <<mailFolders, mail, labelled, blobVars, todo, mailCalls, mailObserved>>

PruneOldestMessages ==
    /\ pruning # Null
    /\ RemoveMails(pruning \cap MailRows)
    /\ pruned' = pruned \cup (pruning \cap MailRows)
    /\ pruning' = Null
    /\ UNCHANGED <<mailFolders, blobVars, todo, mailCalls, erased, newest, apart, saved, overtaken>>

-----------------------------------------------------------------------------
(* mutant: rows that have headers are listed again *)
PendingAll == MailRows

\* Rows without headers: WHERE encrypted_headers IS NULL.
Pending == {m \in MailRows : mail[m].headers = Null}

BackfillList ==
    /\ todo = {} /\ Pending # {}
    /\ todo' = Pending
    /\ UNCHANGED <<mailFolders, mail, labelled, blobVars, pruning, mailCalls, mailObserved>>

\* The row is updated by its id alone, or skipped when its owner has no usable key.
BackfillMessageHeaders(m) ==
    /\ m \in todo /\ todo' = todo \ {m}
    /\ \/ m \in MailRows /\ mail' = [mail EXCEPT ![m].headers = Legacy]
       \/ UNCHANGED mail
    /\ UNCHANGED <<mailFolders, labelled, blobVars, pruning, mailCalls, mailObserved>>

-----------------------------------------------------------------------------
(* The move to another account. *)

\* A restart with the new account as primary and the old one attached as a fallback.
AttachMigrationFallback ==
    /\ fallback = Null /\ \E m \in Mails : primary[m] # Null
    /\ fallback' = primary /\ primary' = [m \in Mails |-> Null]
    /\ UNCHANGED <<mailFolders, mail, labelled, saving, pruning, todo, mailCalls, mailObserved>>

\* External: the copy job.  It copies what is missing, and does not know what was deleted since.
CopyBlob(m) ==
    /\ fallback # Null /\ fallback[m] # Null /\ primary[m] = Null
    /\ primary' = [primary EXCEPT ![m] = fallback[m]]
    /\ UNCHANGED <<mailFolders, mail, labelled, fallback, saving, pruning, todo, mailCalls, mailObserved>>

\* External: a restart without the fallback once everything that is not deleted is copied.
DetachFallback ==
    /\ fallback # Null
    /\ \A m \in Mails : fallback[m] # Null => primary[m] # Null \/ mail[m] = Gone
    /\ fallback' = Null
    /\ UNCHANGED <<mailFolders, mail, labelled, primary, saving, pruning, todo, mailCalls, mailObserved>>

\* Delete: of the primary only, by a caller that deleted the row.
DeleteMailBlob(m) ==
    /\ mail[m] = Gone /\ primary[m] # Null
    /\ primary' = [primary EXCEPT ![m] = Null]
    /\ UNCHANGED <<mailFolders, mail, labelled, fallback, saving, pruning, todo, mailCalls, mailObserved>>

\* What a read finds: the fallback is asked after a miss.
download(m) == IF primary[m] = Null /\ fallback # Null THEN fallback[m] ELSE primary[m]

MailboxNext ==
    \/ PruneOldestMessages \/ BackfillList \/ AttachMigrationFallback \/ DetachFallback
    \/ \E m \in Mails :
         \/ \E f \in DefaultFolders \cup CustomFolders, at \in 0..1, h \in {0, Null} : InsertMessage(m, f, at, h)
         \/ \E v \in Contents : \/ Upload(m, v) \/ RowNotWritten(m, v)
                                \/ \E withHeaders \in BOOLEAN : UpdateDraftByTenant(m, v, withHeaders)
         \/ \E l \in Labels : AddLabelsToMessages(m, l) \/ RemoveLabelsFromMessages(m, l)
         \/ BackfillMessageHeaders(m) \/ CopyBlob(m) \/ DeleteMailBlob(m)
    \/ \E M \in SUBSET Mails :
         \/ DeleteMessagesByTenant(M) \/ PruneList(M)
         \/ \E f \in DefaultFolders \cup CustomFolders : MoveMessagesByTenant(M, f)
    \/ \E f \in CustomFolders : CreateFolder(f) \/ DeleteMailFolder(f)
    \/ \E l \in Labels : DeleteLabel(l)

MailboxSpec == MailboxInit /\ [][MailboxNext]_mailVars

-----------------------------------------------------------------------------
ListMessages(f) == {m \in MailRows : mail[m].folder = f}

\* A stored message that neither the user nor the pruning worker deleted is listed in a folder
\* the user has, and at every moment of the move to another account a read finds the content
\* uploaded last.  The row's key opens that content once the save is done; the code does not
\* keep this when two saves of a draft overlap or one stops between the upload and the row's
\* write, and then only a later save that runs alone repairs it.  The headers are the ones saved
\* last as long as no backfill had listed the row before they were saved: one that did writes
\* over them.
MailKept ==
    \A m \in Mails :
      mail[m] # Null /\ m \notin erased \cup pruned =>
        /\ \E f \in mailFolders : m \in ListMessages(f)
        /\ download(m) = newest[m] /\ download(m) # Null
        /\ Saving(m) = {} /\ m \notin apart => mail[m].key = download(m)
        /\ saved[m] # Null /\ m \notin overtaken => mail[m].headers = saved[m]

=============================================================================
