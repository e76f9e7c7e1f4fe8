------------------------------ MODULE FilesPage ------------------------------
(***************************************************************************)
(* The files of an Amphora in the browser client (detail/Files.tsx):       *)
(* listing, uploading and downloading.                                     *)
(*                                                                         *)
(* The list is loaded by one effect, which depends on the Amphora and on   *)
(* requiresReload.  That flag has three values, false at first, undefined  *)
(* after every answer and true after an upload, and every change of it     *)
(* loads the list again.  A new run of the effect cancels the request of   *)
(* the run before, whose catch empties the list.  Uploads and downloads    *)
(* answer into the state of the commit they were started in.               *)
(*                                                                         *)
(* The Amphora is the current one of the context of Detail, whose page     *)
(* hides this one while the context is loading: what is asked of it        *)
(* unmounts the files, and its answer mounts them.  So an Amphora that     *)
(* replaces the shown one is the answer to a read that was under way       *)
(* beside the one whose answer mounted the files (otherReads).             *)
(***************************************************************************)
EXTENDS Browser

CONSTANTS
  FileNames,
  NoFile,
  MaxUploads,    \* bound on the uploads under way
  MaxFileFaults  \* bound on the requests that fail

\* The flag as it is kept: false, not set, true.
Flags == {"false", "undefined", "true"}

FileStates == [isLoading : BOOLEAN, requiresReload : Flags, fileNames : SUBSET FileNames,
               downloadFileName : FileNames \cup {NoFile}]

ASSUME FilesAssumption ==
  /\ NoFile \notin FileNames /\ Off \notin FileStates
  /\ MaxUploads \in Nat /\ MaxFileFaults \in Nat

VARIABLES
  files,        \* one of FileStates, or Off
  otherReads,   \* the reads of the Amphora under way since before the mount
  reloadDue,    \* whether the effect is due
  listing,      \* the list request that is not cancelled: what was stored when it was sent
  cancelled,    \* the requests whose cancellation is not yet caught
  uploads,      \* the uploads under way
  download,     \* the download under way: its file and the names of its commit, or NoDownload
  filesStored,  \* the files on the server
  outdated,     \* whether the names may be old (see FilesAreShown)
  fileFaults

filesVars == <<files, otherReads, reloadDue, listing, cancelled, uploads, download, filesStored,
               outdated, fileFaults>>

NoListing == [active |-> FALSE, from |-> {}]
NoDownload == [file |-> NoFile, names |-> {}]
NewFiles == [isLoading |-> FALSE, requiresReload |-> "false", fileNames |-> {},
             downloadFileName |-> NoFile]

FilesSettled == ~reloadDue /\ cancelled = 0

\* setState: the effect is due when requiresReload changes, as when the Amphora does.
SetFiles(s) ==
  /\ files' = s
  /\ reloadDue' = (reloadDue \/ s.requiresReload # files.requiresReload)

Listed(names) == [isLoading |-> FALSE, requiresReload |-> "undefined", fileNames |-> names,
                  downloadFileName |-> NoFile]

FileFault == fileFaults < MaxFileFaults /\ fileFaults' = fileFaults + 1

------------------------------------------------------------------------------
(* The list *)

MountFiles ==
  /\ files = Off
  /\ files' = NewFiles
  /\ otherReads' \in 0 .. MaxRequests - 1
  /\ reloadDue' = TRUE
  /\ outdated' = FALSE
  /\ uploads' = {[u EXCEPT !.mounted = FALSE] : u \in uploads}
  /\ UNCHANGED <<listing, cancelled, download, filesStored, fileFaults>>

\* Unmounting cancels the request; what answers later is not heard.
UnmountFiles ==
  /\ files # Off /\ FilesSettled
  /\ files' = Off
  /\ otherReads' = 0
  /\ reloadDue' = FALSE
  /\ listing' = NoListing
  /\ cancelled' = 0
  /\ download' = NoDownload
  /\ uploads' = {[u EXCEPT !.mounted = FALSE] : u \in uploads}
  /\ UNCHANGED <<filesStored, outdated, fileFaults>>

\* Another read of the Amphora is answered: what is shown is replaced, by another
\* object, on which the effect depends.
ReplaceAmphora ==
  /\ files # Off /\ FilesSettled
  /\ otherReads > 0
  /\ otherReads' = otherReads - 1
  /\ reloadDue' = TRUE
  /\ UNCHANGED <<files, listing, cancelled, uploads, download, filesStored, outdated, fileFaults>>

\* The effect: the request of the run before is cancelled; a new one is sent
\* unless the page is loading.
ReloadEffect ==
  /\ files # Off /\ reloadDue
  /\ reloadDue' = FALSE
  /\ cancelled' = cancelled + (IF listing.active THEN 1 ELSE 0)
  /\ IF files.isLoading
     THEN listing' = NoListing /\ UNCHANGED <<files, outdated>>
     ELSE /\ listing' = [active |-> TRUE, from |-> filesStored]
          /\ files' = [files EXCEPT !.isLoading = TRUE]
          /\ outdated' = FALSE
  /\ UNCHANGED <<otherReads, uploads, download, filesStored, fileFaults>>

\* The catch of a cancelled request: the list is emptied, and stays so when no other
\* was sent and the flag was already not set.
CatchCancelled ==
  /\ files # Off /\ ~reloadDue
  /\ cancelled > 0
  /\ cancelled' = cancelled - 1
  /\ SetFiles(Listed({}))
  /\ outdated' = (outdated \/ (~reloadDue' /\ ~listing.active))
  /\ UNCHANGED <<otherReads, listing, uploads, download, filesStored, fileFaults>>

\* The server reads between the request and its answer.
AnswerFiles(names) ==
  /\ FilesSettled
  /\ listing.active
  /\ listing.from \subseteq names /\ names \subseteq filesStored
  /\ listing' = NoListing
  /\ SetFiles(Listed(names))
  /\ UNCHANGED <<otherReads, cancelled, uploads, download, filesStored, outdated, fileFaults>>

\* (mutant of FailFiles)
FailFilesLoading ==
  /\ FilesSettled
  /\ listing.active
  /\ FileFault
  /\ listing' = NoListing
  /\ SetFiles([files EXCEPT !.requiresReload = "undefined"])
  /\ outdated' = TRUE
  /\ UNCHANGED <<otherReads, cancelled, uploads, download, filesStored>>
FailFiles ==
  /\ FilesSettled
  /\ listing.active
  /\ FileFault
  /\ listing' = NoListing
  /\ SetFiles(Listed({}))
  /\ outdated' = TRUE
  /\ UNCHANGED <<otherReads, cancelled, uploads, download, filesStored>>

------------------------------------------------------------------------------
(* Uploading *)

ShowsFiles == files # Off /\ FilesSettled /\ ~files.isLoading

\* onFileChangedHandler: the upload remembers the state of its commit.
Upload(f) ==
  /\ ShowsFiles
  /\ files.downloadFileName = NoFile
  /\ Cardinality(uploads) < MaxUploads
  /\ \A u \in uploads : u.file # f
  /\ uploads' = uploads \cup
       {[file |-> f, state |-> files, step |-> "request", mounted |-> TRUE]}
  /\ UNCHANGED <<files, otherReads, reloadDue, listing, cancelled, download, filesStored,
                 outdated, fileFaults>>

\* The request of the file is answered, and the content put.
CompleteUpload(u) ==
  /\ u \in uploads /\ u.step = "request"
  /\ uploads' = (uploads \ {u}) \cup {[u EXCEPT !.step = "put"]}
  /\ UNCHANGED <<files, otherReads, reloadDue, listing, cancelled, download, filesStored,
                 outdated, fileFaults>>

StoreFile(u) ==
  /\ u \in uploads /\ u.step = "put" /\ u.file \notin filesStored
  /\ filesStored' = filesStored \cup {u.file}
  /\ UNCHANGED <<files, otherReads, reloadDue, listing, cancelled, uploads, download,
                 outdated, fileFaults>>

\* (mutant of Uploaded)
UploadedQuietly(u) ==
  /\ FilesSettled
  /\ u \in uploads /\ u.step = "put" /\ u.file \in filesStored
  /\ uploads' = uploads \ {u}
  /\ IF u.mounted
     THEN SetFiles([u.state EXCEPT !.isLoading = FALSE]) ELSE UNCHANGED <<files, reloadDue>>
  /\ UNCHANGED <<otherReads, listing, cancelled, download, filesStored, outdated, fileFaults>>
\* The callback: the list is to be loaded again, from the state of the commit
\* the upload was started in.
Uploaded(u) ==
  /\ FilesSettled
  /\ u \in uploads /\ u.step = "put" /\ u.file \in filesStored
  /\ uploads' = uploads \ {u}
  /\ IF u.mounted
     THEN /\ SetFiles([u.state EXCEPT !.requiresReload = "true"])
          /\ outdated' = FALSE
     ELSE outdated' = TRUE /\ UNCHANGED <<files, reloadDue>>
  /\ UNCHANGED <<otherReads, listing, cancelled, download, filesStored, fileFaults>>

\* Either request fails, before or after the file is stored: the list stays.
FailUpload(u) ==
  /\ FilesSettled
  /\ u \in uploads
  /\ FileFault
  /\ uploads' = uploads \ {u}
  /\ outdated' = (outdated \/ u.file \in filesStored)
  /\ UNCHANGED <<files, otherReads, reloadDue, listing, cancelled, download, filesStored>>

------------------------------------------------------------------------------
(* Downloading *)

\* closeModal, from the commit whose names are given: requiresReload is dropped.
CloseModal(names) == SetFiles(Listed(names))

ClickFile(f) ==
  /\ ShowsFiles
  /\ f \in files.fileNames
  /\ files.downloadFileName = NoFile
  /\ SetFiles([Listed(files.fileNames) EXCEPT !.downloadFileName = f])
  /\ UNCHANGED <<otherReads, listing, cancelled, uploads, download, filesStored, outdated,
                 fileFaults>>

CloseDownload ==
  /\ ShowsFiles
  /\ files.downloadFileName # NoFile
  /\ CloseModal(files.fileNames)
  /\ UNCHANGED <<otherReads, listing, cancelled, uploads, download, filesStored, outdated,
                 fileFaults>>

ConfirmDownload ==
  /\ ShowsFiles
  /\ files.downloadFileName # NoFile
  /\ download = NoDownload
  /\ download' = [file |-> files.downloadFileName, names |-> files.fileNames]
  /\ UNCHANGED <<files, otherReads, reloadDue, listing, cancelled, uploads, filesStored,
                 outdated, fileFaults>>

\* The file has come: the dialog is closed from the commit it was confirmed in,
\* and the names of that commit are written back.
Downloaded ==
  /\ FilesSettled
  /\ download # NoDownload
  /\ download' = NoDownload
  /\ CloseModal(download.names)
  /\ outdated' = (outdated \/ download.names # files.fileNames)
  /\ UNCHANGED <<otherReads, listing, cancelled, uploads, filesStored, fileFaults>>

FailDownload ==
  /\ FilesSettled
  /\ download # NoDownload
  /\ FileFault
  /\ download' = NoDownload
  /\ UNCHANGED <<files, otherReads, reloadDue, listing, cancelled, uploads, filesStored, outdated>>

------------------------------------------------------------------------------

FilesUser ==
  \/ \E f \in FileNames : Upload(f) \/ ClickFile(f)
  \/ CloseDownload \/ ConfirmDownload \/ MountFiles \/ UnmountFiles

ListingAnswers ==
  \/ \E names \in SUBSET filesStored : AnswerFiles(names)
  \/ FailFiles

UploadAnswers ==
  \E u \in uploads : CompleteUpload(u) \/ StoreFile(u) \/ Uploaded(u) \/ FailUpload(u)

DownloadAnswers == Downloaded \/ FailDownload

FilesEffects == ReloadEffect \/ CatchCancelled

FilesNext ==
  \/ FilesUser \/ ListingAnswers \/ UploadAnswers \/ DownloadAnswers \/ FilesEffects
  \/ ReplaceAmphora

FilesInit ==
  /\ files = Off
  /\ otherReads = 0
  /\ reloadDue = FALSE
  /\ listing = NoListing
  /\ cancelled = 0
  /\ uploads = {}
  /\ download = NoDownload
  /\ filesStored = {}
  /\ outdated = FALSE
  /\ fileFaults = 0

------------------------------------------------------------------------------
(* What the page promises *)

\* With nothing under way the page shows the files that are stored, unless a
\* request failed, a download that ended late wrote earlier names back, an upload
\* of an earlier visit to the page ended, which nobody hears, or the Amphora was
\* replaced while the list was loaded again, which empties it.
FilesAreShown ==
  ShowsFiles /\ ~listing.active /\ uploads = {} /\ ~outdated =>
    files.fileNames = filesStored

\* A page that is loading has a request to wait for: no cancellation leaves it
\* loading for ever, though the effect that cancels may send none.
LoadingIsAwaited ==
  files # Off /\ FilesSettled /\ files.isLoading => listing.active

\* The list of files is the server's, or loading with an answer to come.
ListingIsTrue == FilesAreShown /\ LoadingIsAwaited
==============================================================================
