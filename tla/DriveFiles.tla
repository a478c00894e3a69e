----------------------------- MODULE DriveFiles -----------------------------
(***************************************************************************)
(* Folders, files, uploads and the trash of one user's drive:              *)
(* internal/storage/drive_store.go.  A file is uploaded in chunks to the   *)
(* blob store while its row waits with upload_complete = FALSE; a worker   *)
(* reaps rows of uploads that were given up and purges old trash, and      *)
(* deletes the blobs of the rows a purge returned in a later step.         *)
(* UpdateFile writes every column from a copy its caller read before.      *)
(* Foreign keys act as the comments of the store say.                      *)
(***************************************************************************)
EXTENDS Naturals, FiniteSets, Tables

CONSTANTS
    DriveFolders,  \* ids of folders; an id is used once
    DriveFileIDs,  \* ids of files; an id is used once
    Recipients,    \* users files are shared with
    Retention,     \* age at which trash is purged, and at which
    UploadAge,     \*   an unfinished upload is reaped
    MaxHour,       \* bound: clock
    MaxActs        \* bound: calls of the user

Hours == 0..MaxHour
FileRow == [folder: DriveFolders \cup {Null}, starred: BOOLEAN, trashedAt: Hours \cup {Null},
            complete: BOOLEAN, created: Hours]

ASSUME FilesAssumption ==
    /\ {Retention, UploadAge, MaxHour, MaxActs} \subseteq Nat
    /\ {Null, Gone} \cap (DriveFolders \cup DriveFileIDs \cup Nat \cup FileRow) = {}

VARIABLES
    folders,    \* folder -> parent (Null at the top), or Gone; absent ids are Gone
    files,      \* file -> row, Null or Gone
    blobs,      \* files whose content is in the blob store
    fileShares, \* drive_shares of type user: <<file, recipient>>
    copy,       \* file -> the row a caller of UpdateFile has read
    doomed,     \* files a purge has returned, their blobs not yet deleted
    hour, acts,
    \* observations
    finished,   \* files whose upload was acknowledged as complete
    discarded,  \* files the user deleted for good
    binned,     \* file -> when the user last threw it away, Null if it did not or took it back
    reverted,   \* files a call of UpdateFile put back to an older state of the trash
    tooLate     \* uploads that were reaped before their last chunk came

driveVars == <<folders, files, blobs, fileShares, copy, doomed, hour, acts,
               finished, discarded, binned, reverted, tooLate>>

FilesTypeOK ==
    /\ folders \in [DriveFolders -> DriveFolders \cup {Null, Gone}]
    /\ files \in [DriveFileIDs -> FileRow \cup {Null, Gone}]
    /\ blobs \subseteq DriveFileIDs /\ doomed \subseteq DriveFileIDs
    /\ fileShares \subseteq DriveFileIDs \X Recipients
    /\ copy \in [DriveFileIDs -> FileRow \cup {Null}]
    /\ hour \in Hours /\ acts \in 0..MaxActs
    /\ finished \subseteq DriveFileIDs /\ discarded \subseteq DriveFileIDs
    /\ binned \in [DriveFileIDs -> Hours \cup {Null}]
    /\ reverted \subseteq DriveFileIDs /\ tooLate \subseteq DriveFileIDs

FilesInit ==
    /\ folders \in {p \in [DriveFolders -> DriveFolders \cup {Null, Gone}] :
                      \A f \in DriveFolders : p[f] \in {Null, Gone} \/ (p[f] # f /\ p[p[f]] = Null)}
    /\ files = [x \in DriveFileIDs |-> Null]
    /\ blobs = {} /\ fileShares = {} /\ doomed = {}
    /\ copy = [x \in DriveFileIDs |-> Null]
    /\ hour = 0 /\ acts = 0
    /\ finished = {} /\ discarded = {} /\ reverted = {} /\ tooLate = {}
    /\ binned = [x \in DriveFileIDs |-> Null]

-----------------------------------------------------------------------------
Rows == {x \in DriveFileIDs : files[x] \notin {Null, Gone}}
Present == {f \in DriveFolders : folders[f] # Gone}
Act == acts < MaxActs /\ acts' = acts + 1
observed == <<finished, discarded, binned, reverted, tooLate>>
treeVars == <<folders, copy, hour>>

\* Before hour n ago.
Older(t, n) == t # Null /\ t + n < hour

\* The recursive query of DeleteFolderCascadeTrash: f and everything below it.
Subtree(f) ==
    LET below[n \in 0..Cardinality(DriveFolders)] ==
          IF n = 0 THEN {f} ELSE below[n - 1] \cup {g \in Present : folders[g] \in below[n - 1]}
    IN below[Cardinality(DriveFolders)]

NextHour ==
    /\ hour < MaxHour /\ hour' = hour + 1
    /\ UNCHANGED <<folders, files, blobs, fileShares, copy, doomed, acts, observed>>

-----------------------------------------------------------------------------
(* Folders. *)

\* Any folder may become the parent, one of the folder's own subtree included.
UpdateFolder(f, p) ==
    /\ Act /\ f \in Present /\ p \in Present \cup {Null} /\ p # folders[f]
    /\ folders' = [folders EXCEPT ![f] = p]
    /\ UNCHANGED <<files, blobs, fileShares, copy, doomed, hour, observed>>

\* Subfolders go with the folder; files in them fall back to the top.
Uprooted(f) ==
    [x \in DriveFileIDs |-> IF x \in Rows /\ files[x].folder \in Subtree(f)
                            THEN [files[x] EXCEPT !.folder = Null] ELSE files[x]]
WithoutSubtree(f) == [g \in DriveFolders |-> IF g \in Subtree(f) THEN Gone ELSE folders[g]]

DeleteFolder(f) ==
    /\ Act /\ f \in Present
    /\ folders' = WithoutSubtree(f)
    /\ files' = Uprooted(f)
    /\ UNCHANGED <<blobs, fileShares, copy, doomed, hour, observed>>

\* Only files that are not in the trash: AND NOT trashed.
ThrowAway(X) == {x \in X \cap Rows : files[x].trashedAt = Null}

DeleteFolderCascadeTrash(f) ==
    /\ Act /\ f \in Present
    /\ LET T == ThrowAway({x \in Rows : files[x].folder \in Subtree(f)})
       IN /\ files' = [x \in DriveFileIDs |-> IF x \in T THEN [Uprooted(f)[x] EXCEPT !.trashedAt = hour]
                                              ELSE Uprooted(f)[x]]
          /\ binned' = [x \in DriveFileIDs |-> IF x \in T THEN hour ELSE binned[x]]
          /\ reverted' = reverted \ T
    /\ folders' = WithoutSubtree(f)
    /\ UNCHANGED <<blobs, fileShares, copy, doomed, hour, finished, discarded, tooLate>>

-----------------------------------------------------------------------------
(* Uploads. *)

\* CreateFile: a small file at once, a large one as an unfinished upload.
CreateFile(x, f, whole) ==
    /\ Act /\ files[x] = Null /\ f \in Present \cup {Null}
    /\ files' = [files EXCEPT ![x] = [folder |-> f, starred |-> FALSE, trashedAt |-> Null,
                                      complete |-> whole, created |-> hour]]
    /\ blobs' = IF whole THEN blobs \cup {x} ELSE blobs
    /\ finished' = IF whole THEN finished \cup {x} ELSE finished
    /\ UNCHANGED <<treeVars, fileShares, doomed, discarded, binned, reverted, tooLate>>

\* The chunks are stored, each followed by AddFileSize, which ignores a missing row.
AddFileSize(x) ==
    /\ \/ files[x] = Gone
       \/ x \in Rows /\ ~files[x].complete
    /\ x \notin blobs \cup finished \cup discarded
    /\ blobs' = blobs \cup {x}
    /\ UNCHANGED <<treeVars, files, fileShares, doomed, acts, observed>>

\* The last chunk has arrived: success also when the row is gone.
MarkUploadComplete(x) ==
    /\ x \in blobs \ finished /\ x \notin doomed
    /\ files' = IF x \in Rows THEN [files EXCEPT ![x].complete = TRUE] ELSE files
    /\ finished' = finished \cup {x}
    /\ tooLate' = IF x \in Rows \cup discarded THEN tooLate ELSE tooLate \cup {x}
    /\ UNCHANGED <<treeVars, blobs, fileShares, doomed, acts, discarded, binned, reverted>>

(* mutant: finished uploads are reaped as well *)
StaleUploadsAll == {x \in Rows : Older(files[x].created, UploadAge)}

StaleUploads == {x \in Rows : ~files[x].complete /\ Older(files[x].created, UploadAge)}

\* Rows go, and with them their shares; the caller learns how many, not which.
RemoveRows(X) ==
    /\ files' = [x \in DriveFileIDs |-> IF x \in X THEN Gone ELSE files[x]]
    /\ fileShares' = {s \in fileShares : s[1] \notin X}

ReapStaleUploads ==
    /\ StaleUploads # {} /\ RemoveRows(StaleUploads)
    /\ UNCHANGED <<treeVars, blobs, doomed, acts, observed>>

-----------------------------------------------------------------------------
(* Changes of a file. *)

\* GetFile, the read before an update; unfinished uploads are not found.
GetFile(x) ==
    /\ Act /\ x \in Rows /\ files[x].complete /\ copy[x] = Null
    /\ copy' = [copy EXCEPT ![x] = files[x]]
    /\ UNCHANGED <<folders, files, blobs, fileShares, doomed, hour, observed>>

\* Folder, star and trash columns come from the copy; the user changed one of the first two.
UpdateFile(x) ==
    /\ copy[x] # Null
    /\ copy' = [copy EXCEPT ![x] = Null]
    /\ \/ /\ x \in Rows
          /\ \E f \in Present \cup {Null}, s \in BOOLEAN :
               files' = [files EXCEPT ![x].folder = f, ![x].starred = s, ![x].trashedAt = copy[x].trashedAt]
          /\ reverted' = IF copy[x].trashedAt # files[x].trashedAt THEN reverted \cup {x} ELSE reverted
       \/ /\ x \notin Rows
          /\ UNCHANGED <<files, reverted>>
    /\ UNCHANGED <<folders, blobs, fileShares, doomed, hour, acts, finished, discarded, binned, tooLate>>

TrashFile(x) ==
    /\ Act /\ x \in Rows
    /\ files' = [files EXCEPT ![x].trashedAt = hour]
    /\ binned' = [binned EXCEPT ![x] = hour]
    /\ reverted' = reverted \ {x}
    /\ UNCHANGED <<treeVars, blobs, fileShares, doomed, finished, discarded, tooLate>>

RestoreFile(x) ==
    /\ Act /\ x \in Rows
    /\ files' = [files EXCEPT ![x].trashedAt = Null]
    /\ binned' = [binned EXCEPT ![x] = Null]
    /\ reverted' = reverted \ {x}
    /\ UNCHANGED <<treeVars, blobs, fileShares, doomed, finished, discarded, tooLate>>

\* The user shares a file it sees, or withdraws a share.
CreateShare(x, u) ==
    /\ Act /\ x \in Rows /\ files[x].complete
    /\ fileShares' = fileShares \cup {<<x, u>>}
    /\ UNCHANGED <<treeVars, files, blobs, doomed, observed>>
DeleteShare(x, u) ==
    /\ Act /\ <<x, u>> \in fileShares
    /\ fileShares' = fileShares \ {<<x, u>>}
    /\ UNCHANGED <<treeVars, files, blobs, doomed, observed>>

DeleteFile(x) ==
    /\ Act /\ x \in Rows
    /\ RemoveRows({x}) /\ doomed' = doomed \cup {x} /\ discarded' = discarded \cup {x}
    /\ UNCHANGED <<treeVars, blobs, finished, binned, reverted, tooLate>>

ListTrashed == {x \in Rows : files[x].trashedAt # Null}

EmptyTrash ==
    /\ Act /\ ListTrashed # {}
    /\ RemoveRows(ListTrashed)
    /\ doomed' = doomed \cup ListTrashed
    /\ discarded' = discarded \cup ListTrashed
    /\ UNCHANGED <<treeVars, blobs, finished, binned, reverted, tooLate>>

\* Rows are deleted and returned in one statement.
OldTrash == {x \in ListTrashed : Older(files[x].trashedAt, Retention)}
PurgeOldTrashed ==
    /\ OldTrash # {} /\ RemoveRows(OldTrash)
    /\ doomed' = doomed \cup OldTrash
    /\ UNCHANGED <<treeVars, blobs, acts, observed>>

\* The caller deletes the blob of a returned row.
DeleteBlob(x) ==
    /\ x \in doomed
    /\ doomed' = doomed \ {x} /\ blobs' = blobs \ {x}
    /\ UNCHANGED <<treeVars, files, fileShares, acts, observed>>

FilesNext ==
    \/ NextHour \/ ReapStaleUploads \/ EmptyTrash \/ PurgeOldTrashed
    \/ \E f \in DriveFolders : \/ DeleteFolder(f) \/ DeleteFolderCascadeTrash(f)
                               \/ \E p \in DriveFolders \cup {Null} : UpdateFolder(f, p)
    \/ \E x \in DriveFileIDs :
         \/ \E f \in DriveFolders \cup {Null}, whole \in BOOLEAN : CreateFile(x, f, whole)
         \/ AddFileSize(x) \/ MarkUploadComplete(x) \/ GetFile(x) \/ UpdateFile(x)
         \/ TrashFile(x) \/ RestoreFile(x) \/ DeleteFile(x) \/ DeleteBlob(x)
         \/ \E u \in Recipients : CreateShare(x, u) \/ DeleteShare(x, u)

FilesSpec == FilesInit /\ [][FilesNext]_driveVars

-----------------------------------------------------------------------------
\* The views of the owner and of a recipient.
ListFiles(f) == {x \in Rows : files[x].folder = f /\ files[x].trashedAt = Null /\ files[x].complete}
ListSharedWithUser(u) == {x \in Rows : <<x, u>> \in fileShares /\ files[x].complete}

\* A file whose upload was acknowledged stays: it is in a folder's listing or in the trash with
\* its content, unless the user deleted it, threw it away longer ago than the retention, or the
\* upload took so long that ReapStaleUploads came first; a stale copy written back by UpdateFile
\* may bring an earlier state of the trash back.  Whatever is listed, to the owner or to a
\* recipient, has its content.
FinishedFilesKept ==
    /\ \A x \in finished :
         \/ x \in discarded \cup reverted \cup tooLate
         \/ Older(binned[x], Retention)
         \/ x \in ListTrashed /\ binned[x] # Null /\ x \in blobs
         \/ \E f \in Present \cup {Null} : x \in ListFiles(f) /\ x \in blobs
    /\ \A u \in Recipients : ListSharedWithUser(u) \subseteq blobs

=============================================================================
