---------------------------- MODULE ManagingProofs ---------------------------
(***************************************************************************)
(* Proofs about the pages of Managing and the shell around them: what they *)
(* show and send, for any number of uploads, selections and requests under *)
(* way, answered in any order, lost, or not heard any more.                *)
(***************************************************************************)
EXTENDS Managing, SequenceTheorems, FiniteSetTheorems, TLAPS

\* A step of the client is a step of what is visited, and of nothing else.
LEMMA PageSteps ==
  [Next]_managingVars =>
    /\ FilesNext \/ UNCHANGED filesVars
    /\ ApplicationsNext \/ UNCHANGED applicationsVars
    /\ AccountNext \/ UNCHANGED accountVars
    /\ TermsNext \/ UNCHANGED termsVars
    /\ AttributesNext \/ UNCHANGED attributesVars
    /\ SessionNext \/ UNCHANGED sessionVars
    /\ NavigationNext \/ UNCHANGED navigationVars
    /\ WorkerSteps \/ UNCHANGED workerVars
    /\ NoticesNext \/ UNCHANGED noticesVars
  <1> SUFFICES ASSUME [Next]_managingVars
               PROVE  /\ FilesNext \/ UNCHANGED filesVars
                      /\ ApplicationsNext \/ UNCHANGED applicationsVars
                      /\ AccountNext \/ UNCHANGED accountVars
                      /\ TermsNext \/ UNCHANGED termsVars
                      /\ AttributesNext \/ UNCHANGED attributesVars
                      /\ SessionNext \/ UNCHANGED sessionVars
                      /\ NavigationNext \/ UNCHANGED navigationVars
                      /\ WorkerSteps \/ UNCHANGED workerVars
                      /\ NoticesNext \/ UNCHANGED noticesVars
    OBVIOUS
  <1>. QED
    BY DEF Next, Visit, managingVars, OffFiles, OffApplications, OffAccount, OffTerms,
           OffAttributes, OffSession, OffNavigation, OffWorker, OffNotices

------------------------------------------------------------------------------
(* The service worker *)

Steps == {"load", "check", "unregister", "register", "done"}

WorkerType ==
  /\ isLocalhost \in BOOLEAN
  /\ deployed \in Nat /\ active \in Nat /\ waiting \in Nat /\ checked \in Nat
  /\ visit # Off => visit \in [version : Nat, doing : Steps]
  /\ reloads \in Nat

\* What was checked last serves the next visit: it is active, or waits behind an
\* older one; the server never goes back behind it, though it may have no worker.  A
\* reload takes the worker away, and none is registered before the page is done.
WorkerInv ==
  /\ deployed # NoWorker => deployed >= checked
  /\ IF waiting # NoWorker THEN active # NoWorker /\ active < waiting /\ waiting = checked
     ELSE active # NoWorker => active = checked
  /\ SeenOnNextVisit
  /\ ReloadsOnce
  /\ visit # Off /\ reloads = 1 => active = NoWorker \/ visit.doing = "done"

\* A step of the worker keeps its invariant.
LEMMA WorkerStep ==
  ASSUME WorkerType, WorkerInv, WorkerSteps
  PROVE  WorkerType' /\ WorkerInv'
  <1> USE DEF NoWorker, SeenOnNextVisit, ReloadsOnce, Doing
  <1>1. CASE OpenVisit
    BY <1>1 DEF WorkerType, WorkerInv, OpenVisit, Steps
  <1>2. CASE CloseVisit
    BY <1>2 DEF WorkerType, WorkerInv, CloseVisit
  <1>3. CASE Register
    BY <1>3 DEF WorkerType, WorkerInv, Register, Steps
  <1>4. CASE UnregisterAndReload
    BY <1>4 DEF WorkerType, WorkerInv, UnregisterAndReload, Steps
  <1>5. ASSUME NEW v \in Versions, Deploy(v) PROVE WorkerType' /\ WorkerInv'
    <2>1. v \in Nat
      BY WorkerAssumption DEF Versions
    <2>. QED BY <1>5, <2>1 DEF WorkerType, WorkerInv, Deploy
  <1>6. ASSUME NEW c \in BOOLEAN, CheckValidServiceWorker(c) PROVE WorkerType' /\ WorkerInv'
    BY <1>6 DEF WorkerType, WorkerInv, CheckValidServiceWorker, Steps
  <1>7. ASSUME NEW c \in BOOLEAN, RegisterValidSW(c) PROVE WorkerType' /\ WorkerInv'
    BY <1>7 DEF WorkerType, WorkerInv, RegisterValidSW, Steps
  <1>. QED BY <1>1, <1>2, <1>3, <1>4, <1>5, <1>6, <1>7 DEF WorkerSteps

\* registerServiceWorker.ts: a visit sees what an earlier one found deployed, in any
\* order of deployments and visits, and the page is reloaded once at most.
THEOREM UpdatesAreSeen == Spec => []NewestIsSeen
  <1> DEFINE Inv == WorkerType /\ WorkerInv
  <1>1. Init => Inv
    <2>1. WorkerInit => deployed \in Nat
      BY WorkerAssumption DEF WorkerInit, Versions
    <2>. QED BY <2>1 DEF Init, WorkerInit, WorkerType, WorkerInv, NoWorker, SeenOnNextVisit,
                         ReloadsOnce, Doing
  <1>2. Inv /\ [Next]_managingVars => Inv'
    <2>1. ASSUME WorkerType, WorkerInv, UNCHANGED workerVars PROVE WorkerType' /\ WorkerInv'
      BY <2>1 DEF WorkerType, WorkerInv, SeenOnNextVisit, ReloadsOnce, Doing, workerVars
    <2>. QED BY <2>1, WorkerStep, PageSteps
  <1>3. Inv => NewestIsSeen
    BY DEF WorkerInv, NewestIsSeen
  <1>. QED BY <1>1, <1>2, <1>3, PTL DEF Spec

------------------------------------------------------------------------------
(* The files of an Amphora *)

Uploads == [file : FileNames, state : [isLoading : {FALSE}, requiresReload : Flags,
                                       fileNames : SUBSET FileNames,
                                       downloadFileName : FileNames \cup {NoFile}],
            step : {"request", "put"}, mounted : BOOLEAN]

FilesType ==
  /\ files # Off => files \in FileStates
  /\ reloadDue \in BOOLEAN /\ outdated \in BOOLEAN
  /\ listing \in [active : BOOLEAN, from : SUBSET FileNames]
  /\ cancelled \in Nat
  /\ uploads \subseteq Uploads
  /\ download \in [file : FileNames \cup {NoFile}, names : SUBSET FileNames]
  /\ filesStored \subseteq FileNames

\* What is stored is on the list, or is that of an upload under way.
Has(names) == \A f \in filesStored : f \in names \/ \E u \in uploads : u.file = f

\* A page that is loading waits for a request, or for the catch of one that is
\* cancelled; an upload that has ended has one, or its effect is due; and if the list
\* is not old, then either it is loaded again anyway, or a cancellation is yet to be
\* caught, or what is listed, or is about to be, is all that no upload under way will
\* have loaded again.
FilesInv ==
  /\ listing.from \subseteq filesStored
  /\ listing.active => files # Off
  /\ \A u \in uploads : u.mounted => files # Off
  /\ download # NoDownload => files # Off
  /\ files # Off =>
       /\ files.isLoading => listing.active \/ cancelled > 0
       /\ files.requiresReload = "true" => reloadDue \/ listing.active \/ cancelled > 0
       /\ ~outdated /\ ~reloadDue =>
            IF listing.active THEN files.requiresReload # "undefined" \/ Has(listing.from)
            ELSE cancelled > 0 \/ (files.fileNames \subseteq filesStored /\ Has(files.fileNames))

FilesGood == FilesType /\ FilesInv

\* A list that is set after an answer, a cancellation or a download.
LEMMA ListedStates ==
  ASSUME NEW names \in SUBSET FileNames
  PROVE  /\ Listed(names) \in FileStates /\ Listed(names) # Off /\ ~Listed(names).isLoading
         /\ Listed(names).requiresReload = "undefined" /\ Listed(names).fileNames = names
  <1>1. Listed(names) \in FileStates
    BY DEF Listed, FileStates, Flags
  <1>2. Listed(names) # Off
    BY <1>1, FilesAssumption
  <1>3. ~Listed(names).isLoading /\ Listed(names).requiresReload = "undefined"
        /\ Listed(names).fileNames = names
    BY DEF Listed
  <1>. QED BY <1>1, <1>2, <1>3

\* The effect, and what mounts and unmounts it.
LEMMA EffectStep ==
  ASSUME FilesGood, MountFiles \/ UnmountFiles \/ ReplaceAmphora \/ ReloadEffect
  PROVE  FilesGood'
  <1>0. FilesType /\ FilesInv
    BY DEF FilesGood
  <1>1. ASSUME NEW u \in Uploads PROVE [u EXCEPT !.mounted = FALSE] \in Uploads
    BY DEF Uploads
  <1>2. CASE MountFiles
    <2>0. NewFiles \in FileStates /\ ~NewFiles.isLoading
      BY DEF NewFiles, FileStates, Flags
    <2>1. NewFiles \in FileStates /\ NewFiles # Off /\ ~NewFiles.isLoading
      BY <2>0, FilesAssumption
    <2>2. uploads' \subseteq Uploads
      BY <1>0, <1>1, <1>2 DEF MountFiles, FilesType
    <2>3. FilesType'
      BY <1>0, <1>2, <2>1, <2>2 DEF MountFiles, FilesType
    <2>4. FilesInv'
      BY <1>0, <1>2, <2>1 DEF MountFiles, FilesInv
    <2>. QED BY <2>3, <2>4 DEF FilesGood
  <1>3. CASE UnmountFiles
    <2>1. uploads' \subseteq Uploads
      BY <1>0, <1>1, <1>3 DEF UnmountFiles, FilesType
    <2>2. NoListing \in [active : BOOLEAN, from : SUBSET FileNames] /\ NoListing.from = {}
          /\ NoDownload \in [file : FileNames \cup {NoFile}, names : SUBSET FileNames]
      BY DEF NoListing, NoDownload
    <2>3. FilesType'
      BY <1>0, <1>3, <2>1, <2>2 DEF UnmountFiles, FilesType
    <2>5. \A u \in Uploads : ~[u EXCEPT !.mounted = FALSE].mounted
      BY DEF Uploads
    <2>6. \A u \in uploads' : ~u.mounted
      BY <1>0, <1>3, <2>5 DEF UnmountFiles, FilesType
    <2>7. files' = Off /\ cancelled' = 0 /\ listing' = NoListing /\ download' = NoDownload
      BY <1>3 DEF UnmountFiles
    <2>8. ~NoListing.active
      BY DEF NoListing
    <2>4. FilesInv'
      BY <2>2, <2>6, <2>7, <2>8 DEF FilesInv
    <2>. QED BY <2>3, <2>4 DEF FilesGood
  <1>4. CASE ReloadEffect
    <2>1. /\ files # Off /\ files \in FileStates
          /\ reloadDue' = FALSE /\ cancelled \in Nat
          /\ UNCHANGED <<uploads, download, filesStored>>
          /\ filesStored \subseteq FileNames
          /\ cancelled' = cancelled + (IF listing.active THEN 1 ELSE 0)
      BY <1>0, <1>4 DEF ReloadEffect, FilesType
    <2>2. cancelled' \in Nat /\ (listing.active \/ cancelled > 0 => cancelled' > 0)
      <3>1. CASE listing.active
        BY <2>1, <3>1
      <3>2. CASE ~listing.active
        BY <2>1, <3>2
      <3>. QED BY <3>1, <3>2
    <2>3. CASE files.isLoading
      <3>1. listing' = NoListing /\ UNCHANGED <<files, outdated>>
        BY <1>4, <2>3 DEF ReloadEffect
      <3>2. /\ NoListing \in [active : BOOLEAN, from : SUBSET FileNames]
            /\ NoListing.from = {} /\ ~NoListing.active
        BY DEF NoListing
      <3>3. cancelled' > 0
        BY <1>0, <2>1, <2>2, <2>3 DEF FilesInv
      <3>4. FilesType'
        BY <1>0, <2>1, <2>2, <3>1, <3>2 DEF FilesType
      <3>5. FilesInv'
        BY <1>0, <2>1, <3>1, <3>2, <3>3 DEF FilesInv
      <3>. QED BY <3>4, <3>5 DEF FilesGood
    <2>4. CASE ~files.isLoading
      <3>1. /\ listing' = [active |-> TRUE, from |-> filesStored]
            /\ files' = [files EXCEPT !.isLoading = TRUE] /\ outdated' = FALSE
        BY <1>4, <2>4 DEF ReloadEffect
      <3>2. files' \in FileStates /\ files' # Off
        BY <2>1, <3>1, FilesAssumption DEF FileStates
      <3>3. FilesType'
        BY <1>0, <2>1, <2>2, <3>1, <3>2 DEF FilesType
      <3>4. FilesInv'
        BY <1>0, <2>1, <3>1, <3>2 DEF FilesInv, Has
      <3>. QED BY <3>3, <3>4 DEF FilesGood
    <2>. QED BY <2>3, <2>4
  <1>5. CASE ReplaceAmphora
    <2>1. /\ files # Off /\ reloadDue' = TRUE
          /\ UNCHANGED <<files, listing, cancelled, uploads, download, filesStored, outdated>>
      BY <1>5 DEF ReplaceAmphora
    <2>2. FilesType'
      BY <1>0, <2>1 DEF FilesType
    <2>3. FilesInv'
      BY <1>0, <2>1 DEF FilesInv
    <2>. QED BY <2>2, <2>3 DEF FilesGood
  <1>. QED BY <1>2, <1>3, <1>4, <1>5

\* The list is answered, or its cancellation is caught.
LEMMA ListingStep ==
  ASSUME FilesGood, ListingAnswers \/ CatchCancelled
  PROVE  FilesGood'
  <1>0. FilesType /\ FilesInv
    BY DEF FilesGood
  <1>1. NoListing \in [active : BOOLEAN, from : SUBSET FileNames] /\ NoListing.from = {}
        /\ ~NoListing.active
    BY DEF NoListing
  <1>2. CASE CatchCancelled
    <2>1. /\ files # Off /\ ~reloadDue /\ cancelled \in Nat /\ cancelled > 0
          /\ cancelled' = cancelled - 1 /\ files' = Listed({})
          /\ reloadDue' = (reloadDue \/ Listed({}).requiresReload # files.requiresReload)
          /\ outdated' = (outdated \/ (~reloadDue' /\ ~listing.active))
          /\ UNCHANGED <<listing, uploads, download, filesStored>>
      BY <1>0, <1>2 DEF CatchCancelled, SetFiles, FilesType
    <2>2. /\ Listed({}) \in FileStates /\ Listed({}) # Off /\ ~Listed({}).isLoading
          /\ Listed({}).requiresReload = "undefined"
      BY ListedStates
    <2>3. cancelled' \in Nat /\ reloadDue' \in BOOLEAN /\ outdated' \in BOOLEAN
      BY <1>0, <2>1 DEF FilesType
    <2>4. FilesType'
      BY <1>0, <2>1, <2>2, <2>3 DEF FilesType
    <2>5. ~outdated' /\ ~reloadDue' => listing.active /\ Has(listing.from)
      BY <1>0, <2>1, <2>2 DEF FilesInv
    <2>6. Has(listing.from) => Has(listing.from)'
      BY <2>1 DEF Has
    <2>7. FilesInv'
      BY <1>0, <2>1, <2>2, <2>5, <2>6 DEF FilesInv
    <2>. QED BY <2>4, <2>7 DEF FilesGood
  <1>3. ASSUME NEW names \in SUBSET filesStored, AnswerFiles(names) PROVE FilesGood'
    <2>0. names \in SUBSET FileNames
      BY <1>0 DEF FilesType
    <2>1. /\ ~reloadDue /\ cancelled = 0 /\ listing.active
          /\ listing.from \subseteq names /\ names \subseteq filesStored
          /\ listing' = NoListing /\ files' = Listed(names)
          /\ reloadDue' = (reloadDue \/ Listed(names).requiresReload # files.requiresReload)
          /\ UNCHANGED <<cancelled, uploads, download, filesStored, outdated>>
      BY <1>3 DEF AnswerFiles, SetFiles, FilesSettled
    <2>2. /\ Listed(names) \in FileStates /\ Listed(names) # Off /\ ~Listed(names).isLoading
          /\ Listed(names).requiresReload = "undefined" /\ Listed(names).fileNames = names
      BY <2>0, ListedStates
    <2>3. FilesType'
      BY <1>0, <1>1, <2>1, <2>2 DEF FilesType
    <2>4. files # Off /\ ~outdated /\ ~reloadDue' => Has(names)
      BY <1>0, <2>1, <2>2 DEF FilesInv, Has
    <2>5. files # Off /\ ~outdated' /\ ~reloadDue' => Has(names)'
      BY <2>1, <2>4 DEF Has
    <2>6. /\ ~listing'.active /\ listing'.from = {} /\ cancelled' = 0
          /\ ~files'.isLoading /\ files'.requiresReload = "undefined" /\ files'.fileNames = names
          /\ filesStored' = filesStored
      BY <1>1, <2>1, <2>2
    <2>7. files # Off
      BY <1>0, <2>1 DEF FilesInv
    <2>8. FilesInv'
      BY <2>1, <2>2, <2>5, <2>6, <2>7 DEF FilesInv, Has
    <2>. QED BY <2>3, <2>8 DEF FilesGood
  <1>4. CASE FailFiles
    <2>1. /\ ~reloadDue /\ cancelled = 0
          /\ listing' = NoListing /\ files' = Listed({}) /\ outdated' = TRUE
          /\ reloadDue' = (reloadDue \/ Listed({}).requiresReload # files.requiresReload)
          /\ UNCHANGED <<cancelled, uploads, download, filesStored>>
      BY <1>4 DEF FailFiles, SetFiles, FilesSettled
    <2>2. /\ Listed({}) \in FileStates /\ Listed({}) # Off /\ ~Listed({}).isLoading
          /\ Listed({}).requiresReload = "undefined"
      BY ListedStates
    <2>3. FilesType'
      BY <1>0, <1>1, <2>1, <2>2 DEF FilesType
    <2>4. FilesInv'
      BY <1>1, <2>1, <2>2 DEF FilesInv
    <2>. QED BY <2>3, <2>4 DEF FilesGood
  <1>. QED BY <1>2, <1>3, <1>4 DEF ListingAnswers

\* An upload goes on, ends or fails.
LEMMA UploadStep ==
  ASSUME FilesGood, UploadAnswers \/ \E f \in FileNames : Upload(f)
  PROVE  FilesGood'
  <1>0. FilesType /\ FilesInv
    BY DEF FilesGood
  <1>1. ASSUME NEW f \in FileNames, Upload(f) PROVE FilesGood'
    <2>1. /\ files # Off /\ files \in FileStates /\ ~files.isLoading
          /\ uploads' = uploads \cup
               {[file |-> f, state |-> files, step |-> "request", mounted |-> TRUE]}
          /\ UNCHANGED <<files, reloadDue, listing, cancelled, download, filesStored, outdated>>
      BY <1>0, <1>1 DEF Upload, ShowsFiles, FilesType
    <2>2. [file |-> f, state |-> files, step |-> "request", mounted |-> TRUE] \in Uploads
      BY <2>1 DEF FileStates, Uploads
    <2>3. FilesType'
      BY <1>0, <2>1, <2>2 DEF FilesType
    <2>4. FilesInv'
      BY <1>0, <2>1 DEF FilesInv, Has
    <2>. QED BY <2>3, <2>4 DEF FilesGood
  <1>2. ASSUME NEW u \in uploads, CompleteUpload(u) PROVE FilesGood'
    <2>1. /\ u \in Uploads
          /\ uploads' = (uploads \ {u}) \cup {[u EXCEPT !.step = "put"]}
          /\ UNCHANGED <<files, reloadDue, listing, cancelled, download, filesStored, outdated>>
      BY <1>0, <1>2 DEF CompleteUpload, FilesType
    <2>2. /\ [u EXCEPT !.step = "put"] \in Uploads
          /\ [u EXCEPT !.step = "put"].file = u.file
          /\ [u EXCEPT !.step = "put"].mounted = u.mounted
      BY <2>1 DEF Uploads
    <2>3. FilesType'
      BY <1>0, <2>1, <2>2 DEF FilesType
    <2>4. ASSUME NEW names, Has(names) PROVE Has(names)'
      BY <2>1, <2>2, <2>4 DEF Has
    <2>5. \A v \in uploads' : v.mounted => files' # Off
      BY <1>0, <2>1, <2>2 DEF FilesInv
    <2>6. FilesInv'
      BY <1>0, <2>1, <2>4, <2>5 DEF FilesInv
    <2>. QED BY <2>3, <2>6 DEF FilesGood
  <1>3. ASSUME NEW u \in uploads, StoreFile(u) PROVE FilesGood'
    <2>1. /\ u \in Uploads /\ u.file \in FileNames
          /\ filesStored' = filesStored \cup {u.file}
          /\ UNCHANGED <<files, reloadDue, listing, cancelled, uploads, download, outdated>>
      BY <1>0, <1>3 DEF StoreFile, FilesType, Uploads
    <2>2. FilesType'
      BY <1>0, <2>1 DEF FilesType
    <2>3. ASSUME NEW names, Has(names) PROVE Has(names)'
      BY <2>1, <2>3 DEF Has
    <2>4. FilesInv'
      BY <1>0, <2>1, <2>3 DEF FilesInv
    <2>. QED BY <2>2, <2>4 DEF FilesGood
  <1>4. ASSUME NEW u \in uploads, Uploaded(u) PROVE FilesGood'
    <2>1. /\ u \in Uploads /\ ~reloadDue /\ cancelled = 0 /\ uploads' = uploads \ {u}
          /\ UNCHANGED <<listing, cancelled, download, filesStored>>
      BY <1>0, <1>4 DEF Uploaded, FilesSettled, FilesType
    <2>2. CASE u.mounted
      <3>1. /\ files' = [u.state EXCEPT !.requiresReload = "true"] /\ outdated' = FALSE
            /\ reloadDue' = (reloadDue
                 \/ [u.state EXCEPT !.requiresReload = "true"].requiresReload
                      # files.requiresReload)
        BY <1>4, <2>2 DEF Uploaded, SetFiles
      <3>2. /\ files' \in FileStates /\ files'.requiresReload = "true" /\ ~files'.isLoading
            /\ [u.state EXCEPT !.requiresReload = "true"].requiresReload = "true"
        BY <2>1, <3>1 DEF Uploads, FileStates, Flags
      <3>3. files' # Off
        BY <3>2, FilesAssumption
      <3>4. reloadDue' \in BOOLEAN /\ (files.requiresReload # "true" => reloadDue')
        BY <3>1, <3>2
      <3>5. files # Off
        BY <1>0, <2>2 DEF FilesInv
      <3>6. FilesType'
        BY <1>0, <2>1, <3>1, <3>2, <3>4 DEF FilesType
      <3>7. FilesInv'
        BY <1>0, <2>1, <3>1, <3>2, <3>3, <3>4, <3>5 DEF FilesInv
      <3>. QED BY <3>6, <3>7 DEF FilesGood
    <2>3. CASE ~u.mounted
      <3>1. outdated' = TRUE /\ UNCHANGED <<files, reloadDue>>
        BY <1>4, <2>3 DEF Uploaded
      <3>2. FilesType'
        BY <1>0, <2>1, <3>1 DEF FilesType
      <3>3. FilesInv'
        BY <1>0, <2>1, <3>1 DEF FilesInv
      <3>. QED BY <3>2, <3>3 DEF FilesGood
    <2>. QED BY <2>2, <2>3
  <1>5. ASSUME NEW u \in uploads, FailUpload(u) PROVE FilesGood'
    <2>1. /\ uploads' = uploads \ {u} /\ outdated' = (outdated \/ u.file \in filesStored)
          /\ UNCHANGED <<files, reloadDue, listing, cancelled, download, filesStored>>
      BY <1>5 DEF FailUpload
    <2>2. FilesType'
      BY <1>0, <2>1 DEF FilesType
    <2>3. ASSUME NEW names, Has(names), ~outdated' PROVE Has(names)'
      BY <2>1, <2>3 DEF Has
    <2>4. FilesInv'
      BY <1>0, <2>1, <2>3 DEF FilesInv
    <2>. QED BY <2>2, <2>4 DEF FilesGood
  <1>. QED BY <1>1, <1>2, <1>3, <1>4, <1>5 DEF UploadAnswers

\* The dialog of a download.  The names it writes back are those it was opened on,
\* or the list is old.
LEMMA DownloadStep ==
  ASSUME FilesGood,
         DownloadAnswers \/ CloseDownload \/ ConfirmDownload \/ \E f \in FileNames : ClickFile(f)
  PROVE  FilesGood'
  <1>0. FilesType /\ FilesInv
    BY DEF FilesGood
  <1>1. ASSUME NEW f \in FileNames, ClickFile(f) PROVE FilesGood'
    <2>1. /\ files # Off /\ ~reloadDue /\ files \in FileStates
          /\ files' = [Listed(files.fileNames) EXCEPT !.downloadFileName = f]
          /\ reloadDue' = (reloadDue \/ files'.requiresReload # files.requiresReload)
          /\ UNCHANGED <<listing, cancelled, uploads, download, filesStored, outdated>>
      BY <1>0, <1>1 DEF ClickFile, ShowsFiles, FilesSettled, SetFiles, FilesType
    <2>2. /\ files' \in FileStates /\ ~files'.isLoading
          /\ files'.requiresReload = "undefined" /\ files'.fileNames = files.fileNames
      BY <2>1 DEF Listed, FileStates, Flags
    <2>3. files' # Off
      BY <2>2, FilesAssumption
    <2>4. reloadDue' \in BOOLEAN /\ (~reloadDue' => files.requiresReload = "undefined")
      BY <2>1, <2>2
    <2>5. FilesType'
      BY <1>0, <2>1, <2>2, <2>4 DEF FilesType
    <2>6. FilesInv'
      BY <1>0, <2>1, <2>2, <2>3, <2>4 DEF FilesInv, Has
    <2>. QED BY <2>5, <2>6 DEF FilesGood
  <1>2. CASE CloseDownload
    <2>1. /\ files # Off /\ ~reloadDue /\ files \in FileStates
          /\ files.fileNames \in SUBSET FileNames
          /\ files' = Listed(files.fileNames)
          /\ reloadDue' = (reloadDue
               \/ Listed(files.fileNames).requiresReload # files.requiresReload)
          /\ UNCHANGED <<listing, cancelled, uploads, download, filesStored, outdated>>
      BY <1>0, <1>2
      DEF CloseDownload, CloseModal, ShowsFiles, FilesSettled, SetFiles, FilesType, FileStates
    <2>2. /\ files' \in FileStates /\ files' # Off /\ ~files'.isLoading
          /\ files'.requiresReload = "undefined" /\ files'.fileNames = files.fileNames
          /\ Listed(files.fileNames).requiresReload = "undefined"
      BY <2>1, ListedStates
    <2>4. reloadDue' \in BOOLEAN /\ (~reloadDue' => files.requiresReload = "undefined")
      BY <2>1, <2>2
    <2>5. FilesType'
      BY <1>0, <2>1, <2>2, <2>4 DEF FilesType
    <2>6. FilesInv'
      BY <1>0, <2>1, <2>2, <2>4 DEF FilesInv, Has
    <2>. QED BY <2>5, <2>6 DEF FilesGood
  <1>3. CASE ConfirmDownload
    <2>1. /\ files # Off /\ files \in FileStates
          /\ download' = [file |-> files.downloadFileName, names |-> files.fileNames]
          /\ UNCHANGED <<files, reloadDue, listing, cancelled, uploads, filesStored, outdated>>
      BY <1>0, <1>3 DEF ConfirmDownload, ShowsFiles, FilesType
    <2>2. download' \in [file : FileNames \cup {NoFile}, names : SUBSET FileNames]
      BY <2>1 DEF FileStates
    <2>3. FilesType'
      BY <1>0, <2>1, <2>2 DEF FilesType
    <2>4. FilesInv'
      BY <1>0, <2>1 DEF FilesInv, Has
    <2>. QED BY <2>3, <2>4 DEF FilesGood
  <1>4. CASE Downloaded
    <2>1. /\ ~reloadDue /\ cancelled = 0 /\ download.names \in SUBSET FileNames
          /\ download # NoDownload /\ download' = NoDownload
          /\ files' = Listed(download.names)
          /\ reloadDue' = (reloadDue \/ Listed(download.names).requiresReload
                                          # files.requiresReload)
          /\ outdated' = (outdated \/ download.names # files.fileNames)
          /\ UNCHANGED <<listing, cancelled, uploads, filesStored>>
      BY <1>0, <1>4 DEF Downloaded, CloseModal, FilesSettled, SetFiles, FilesType
    <2>2. /\ files' \in FileStates /\ files' # Off /\ ~files'.isLoading
          /\ files'.requiresReload = "undefined" /\ files'.fileNames = download.names
          /\ Listed(download.names).requiresReload = "undefined"
      BY <2>1, ListedStates
    <2>3. /\ reloadDue' \in BOOLEAN /\ (~reloadDue' => files.requiresReload = "undefined")
          /\ (~outdated' => ~outdated /\ files'.fileNames = files.fileNames)
      BY <2>1, <2>2
    <2>4. NoDownload \in [file : FileNames \cup {NoFile}, names : SUBSET FileNames]
      BY DEF NoDownload
    <2>5. FilesType'
      BY <1>0, <2>1, <2>2, <2>3, <2>4 DEF FilesType
    <2>6. files # Off
      BY <1>0, <2>1 DEF FilesInv
    <2>7. FilesInv'
      BY <1>0, <2>1, <2>2, <2>3, <2>6 DEF FilesInv, Has
    <2>. QED BY <2>5, <2>7 DEF FilesGood
  <1>5. CASE FailDownload
    <2>1. /\ download' = NoDownload
          /\ UNCHANGED <<files, reloadDue, listing, cancelled, uploads, filesStored, outdated>>
      BY <1>5 DEF FailDownload
    <2>2. NoDownload \in [file : FileNames \cup {NoFile}, names : SUBSET FileNames]
      BY DEF NoDownload
    <2>3. FilesType'
      BY <1>0, <2>1, <2>2 DEF FilesType
    <2>4. FilesInv'
      BY <1>0, <2>1 DEF FilesInv, Has
    <2>. QED BY <2>3, <2>4 DEF FilesGood
  <1>. QED BY <1>1, <1>2, <1>3, <1>4, <1>5 DEF DownloadAnswers

\* Files.tsx: with nothing under way the list is the server's, whatever uploads and
\* downloads ended in which order; a page that is loading has a request to wait for.
THEOREM ListIsTheServers == Spec => []ListingIsTrue
  <1>1. Init => FilesGood
    <2>1. NoListing \in [active : BOOLEAN, from : SUBSET FileNames] /\ NoListing.from = {}
          /\ ~NoListing.active
          /\ NoDownload \in [file : FileNames \cup {NoFile}, names : SUBSET FileNames]
      BY DEF NoListing, NoDownload
    <2>2. Init => FilesInit
      BY DEF Init
    <2>3. ASSUME FilesInit PROVE FilesType
      <3>1. files = Off /\ reloadDue = FALSE /\ listing = NoListing /\ cancelled = 0 /\ uploads = {}
            /\ download = NoDownload /\ filesStored = {} /\ outdated = FALSE
        BY <2>3 DEF FilesInit
      <3>. QED BY <2>1, <3>1 DEF FilesType
    <2>4. FilesInit => FilesInv
      BY <2>1 DEF FilesInit, FilesInv
    <2>. QED BY <2>2, <2>3, <2>4 DEF FilesGood
  <1>2. FilesGood /\ [Next]_managingVars => FilesGood'
    <2>1. ASSUME FilesGood, FilesNext PROVE FilesGood'
      BY <2>1, EffectStep, ListingStep, UploadStep, DownloadStep
      DEF FilesNext, FilesUser, FilesEffects
    <2>2. ASSUME FilesGood, UNCHANGED filesVars PROVE FilesGood'
      BY <2>2 DEF FilesGood, FilesType, FilesInv, Has, filesVars
    <2>. QED BY <2>1, <2>2, PageSteps
  <1>3. FilesGood => ListingIsTrue
    BY DEF FilesGood, FilesType, FilesInv, Has, ListingIsTrue, FilesAreShown, LoadingIsAwaited,
           ShowsFiles, FilesSettled
  <1>. QED BY <1>1, <1>2, <1>3, PTL DEF Spec

------------------------------------------------------------------------------
(* The editor of attributes *)

Indexed == \E D \in SUBSET (0 .. LastIndex) : attributes \in [D -> Row]

\* Rows with a text in one of their cells.
Changed(rows, i, c, text) == [rows EXCEPT ![i][c] = text]

\* A cell shows a text if it shows the whole, or what a redraw shows of it.
Shows(drawn, text) == drawn \in {text, ShownAs(text)}

\* The form would send the rows as they are; the inputs show them, but for the
\* one that is being changed.
AttributesInv ==
  /\ Indexed
  /\ drawnRows \in [Indices -> Row]
  /\ metadataInput = attributes
  /\ changing # Off => \E i \in Indices, c \in Cells : changing = <<i, c>>
  /\ \A i \in Indices, c \in Cells :
       changing # <<i, c>> => Shows(drawnRows[i][c], attributes[i][c])

\* A row is added at an index that no row has.
LEMMA NewIndexIsNew ==
  ASSUME Indexed, NEW i, IsNewIndex(i)
  PROVE  i \notin Indices
  <1>1. Indices \subseteq 0 .. LastIndex
    BY DEF Indexed, Indices
  <1>2. CASE Indices = {}
    BY <1>2
  <1>3. ASSUME NEW m \in Indices, IsMaxIndex(m), i = m + 1 PROVE i \notin Indices
    <2>1. m \in Nat /\ \A j \in Indices : j \in Nat /\ j <= m
      BY <1>1, <1>3 DEF IsMaxIndex
    <2>. QED BY <1>3, <2>1
  <1>. QED BY <1>2, <1>3 DEF IsNewIndex

\* One cell of one row is changed.
LEMMA CellChange ==
  ASSUME NEW D \in SUBSET (0 .. LastIndex), NEW rows \in [D -> Row], NEW i \in D, NEW c \in Cells,
         NEW text \in AttributeTexts
  PROVE  /\ Changed(rows, i, c, text) \in [D -> Row]
         /\ \A j \in D, d \in Cells :
              Changed(rows, i, c, text)[j][d] = IF j = i /\ d = c THEN text ELSE rows[j][d]
  <1>1. rows[i] \in Row
    OBVIOUS
  <1>2. /\ [rows[i] EXCEPT ![c] = text] \in Row
        /\ \A d \in Cells : [rows[i] EXCEPT ![c] = text][d] = IF d = c THEN text ELSE rows[i][d]
    BY <1>1 DEF Row
  <1>3. Changed(rows, i, c, text) = [rows EXCEPT ![i] = [rows[i] EXCEPT ![c] = text]]
    BY DEF Changed
  <1>. QED BY <1>2, <1>3

\* What is drawn are rows, each cell with what a redraw shows of it.
LEMMA Redrawn ==
  ASSUME NEW D, NEW rows \in [D -> Row]
  PROVE  /\ redrawUI(rows) \in [D -> Row]
         /\ \A i \in D, c \in Cells : Shows(redrawUI(rows)[i][c], rows[i][c])
  <1>1. \A i \in D, c \in Cells : rows[i][c] \in AttributeTexts
    BY DEF Row
  <1>2. \A t \in AttributeTexts : ShownAs(t) \in AttributeTexts
    BY AttributesAssumption DEF AttributeTexts, ShownAs
  <1>3. redrawUI(rows) = [i \in D |-> [c \in Cells |-> ShownAs(rows[i][c])]]
    BY DEF redrawUI
  <1>4. \A i \in D : [c \in Cells |-> ShownAs(rows[i][c])] \in Row
    BY <1>1, <1>2 DEF Row
  <1>. QED BY <1>3, <1>4 DEF Shows

\* The editor goes from rows to rows, and what the form sends goes with it.
LEMMA EditorStep ==
  ASSUME AttributesInv, AttributesNext
  PROVE  AttributesInv'
  <1>1. PICK D \in SUBSET (0 .. LastIndex) : attributes \in [D -> Row]
    BY DEF AttributesInv, Indexed
  <1>2. Indices = D /\ drawnRows \in [D -> Row]
    BY <1>1 DEF AttributesInv, Indices
  <1>3. PICK i \in 0 .. LastIndex :
          \/ addMetaDataRow(i) \/ removeMetaRow(i) \/ keyChanged(i) \/ valueChanged(i)
          \/ \E c \in Cells, text \in AttributeTexts : TypeCell(i, c, text)
    BY DEF AttributesNext
  <1>4. ASSUME NEW E \in SUBSET (0 .. LastIndex), attributes' \in [E -> Row],
               drawnRows' = redrawUI(attributes'), metadataInput' = attributes', changing' = Off
        PROVE  AttributesInv'
    <2>1. Indices' = E
      BY <1>4 DEF Indices
    <2>2. /\ drawnRows' \in [E -> Row]
          /\ \A j \in E, c \in Cells : Shows(drawnRows'[j][c], attributes'[j][c])
      BY <1>4, Redrawn
    <2>3. Indexed'
      BY <1>4 DEF Indexed
    <2>. QED BY <1>4, <2>1, <2>2, <2>3 DEF AttributesInv
  <1>5. CASE addMetaDataRow(i)
    <2>1. EmptyRow \in Row
      BY AttributesAssumption DEF EmptyRow, EmptyText, AttributeTexts, Row
    <2>2. AddedRow(i) \in [D \cup {i} -> Row]
      BY <1>1, <1>2, <2>1 DEF AddedRow
    <2>. QED BY <1>4, <1>5, <2>2 DEF addMetaDataRow
  <1>6. CASE removeMetaRow(i)
    <2>1. attributes' = [j \in D \ {i} |-> attributes[j]]
      BY <1>2, <1>6 DEF removeMetaRow
    <2>2. attributes' \in [D \ {i} -> Row]
      BY <1>1, <2>1
    <2>. QED BY <1>4, <1>6, <2>2 DEF removeMetaRow
  <1>7. ASSUME NEW c \in Cells, changing = <<i, c>>, changing' = Off,
               attributes' = Changed(attributes, i, c, drawnRows[i][c]),
               metadataInput' = attributes', UNCHANGED drawnRows
        PROVE  AttributesInv'
    <2>1. i \in D
      <3>1. changing # Off
        BY <1>7, AttributesAssumption DEF Cells
      <3>. QED BY <1>2, <1>7, <3>1 DEF AttributesInv
    <2>2. drawnRows[i][c] \in AttributeTexts
      BY <1>2, <2>1 DEF Row
    <2>3. /\ attributes' \in [D -> Row]
          /\ \A j \in D, d \in Cells :
               attributes'[j][d] = IF j = i /\ d = c THEN drawnRows[i][c] ELSE attributes[j][d]
      <3> DEFINE text == drawnRows[i][c]
      <3>1. attributes' = Changed(attributes, i, c, text) /\ text \in AttributeTexts
        BY <1>7, <2>2
      <3> HIDE DEF text
      <3>2. /\ Changed(attributes, i, c, text) \in [D -> Row]
            /\ \A j \in D, d \in Cells : Changed(attributes, i, c, text)[j][d]
                 = IF j = i /\ d = c THEN text ELSE attributes[j][d]
        BY <1>1, <2>1, <3>1, CellChange
      <3>. QED BY <3>1, <3>2 DEF text
    <2>4. Indices' = D /\ Indexed'
      BY <2>3 DEF Indices, Indexed
    <2>5. ASSUME NEW j \in D, NEW d \in Cells
          PROVE  Shows(drawnRows'[j][d], attributes'[j][d])
      <3>1. CASE j = i /\ d = c
        BY <1>7, <2>3, <3>1 DEF Shows
      <3>2. CASE ~(j = i /\ d = c)
        <4>1. attributes'[j][d] = attributes[j][d] /\ changing # <<j, d>>
          BY <1>7, <2>3, <3>2
        <4>. QED BY <1>2, <1>7, <4>1 DEF AttributesInv
      <3>. QED BY <3>1, <3>2
    <2>. QED BY <1>2, <1>7, <2>4, <2>5 DEF AttributesInv
  <1>8. CASE keyChanged(i)
    BY <1>7, <1>8 DEF keyChanged, Cells, Changed
  <1>9. CASE valueChanged(i)
    BY <1>7, <1>9 DEF valueChanged, Cells, Changed
  <1>10. ASSUME NEW c \in Cells, NEW text \in AttributeTexts, TypeCell(i, c, text)
         PROVE  AttributesInv'
    <2>1. /\ i \in D /\ changing = Off /\ changing' = <<i, c>>
          /\ drawnRows' = Changed(drawnRows, i, c, text)
          /\ UNCHANGED <<attributes, metadataInput>>
      BY <1>2, <1>10 DEF TypeCell, Changed
    <2>2. /\ drawnRows' \in [D -> Row]
          /\ \A j \in D, d \in Cells :
               drawnRows'[j][d] = IF j = i /\ d = c THEN text ELSE drawnRows[j][d]
      BY <1>2, <2>1, CellChange
    <2>3. Indices' = D /\ Indexed' /\ metadataInput' = attributes'
      BY <1>2, <2>1 DEF AttributesInv, Indices, Indexed
    <2>4. ASSUME NEW j \in D, NEW d \in Cells, changing' # <<j, d>>
          PROVE  Shows(drawnRows'[j][d], attributes'[j][d])
      <3>1. drawnRows'[j][d] = drawnRows[j][d]
        BY <2>1, <2>2, <2>4
      <3>2. changing # <<j, d>>
        BY <1>2, <2>1, AttributesAssumption DEF Cells
      <3>. QED BY <1>2, <2>1, <3>1, <3>2 DEF AttributesInv
    <2>. QED BY <2>1, <2>2, <2>3, <2>4 DEF AttributesInv
  <1>. QED BY <1>3, <1>5, <1>6, <1>8, <1>9, <1>10

\* The editor's invariant, from the attributes the server had.
LEMMA EditorInvariant == Spec => []AttributesInv
  <1>1. Init => AttributesInv
    <2>1. SUFFICES ASSUME AttributesInit PROVE AttributesInv
      BY DEF Init
    <2>2. PICK n \in 0 .. 1 : attributes \in [0 .. n - 1 -> Row]
      BY <2>1 DEF AttributesInit
    <2>4. LastIndex \in Nat
      BY AttributesAssumption
    <2>5. n = 0 \/ n = 1
      BY <2>2
    <2>3. 0 .. n - 1 \subseteq 0 .. LastIndex
      BY <2>4, <2>5
    <2>6. Indexed /\ attributes \in [Indices -> Row]
      BY <2>2, <2>3 DEF Indexed, Indices
    <2>7. /\ drawnRows \in [Indices -> Row]
          /\ \A i \in Indices, c \in Cells : Shows(drawnRows[i][c], attributes[i][c])
      BY <2>1, <2>6, Redrawn DEF AttributesInit
    <2>. QED BY <2>1, <2>6, <2>7 DEF AttributesInit, AttributesInv
  <1>2. AttributesInv /\ [Next]_managingVars => AttributesInv'
    <2>1. ASSUME AttributesInv, UNCHANGED attributesVars PROVE AttributesInv'
      BY <2>1 DEF AttributesInv, Indexed, Indices, attributesVars
    <2>. QED BY <2>1, EditorStep, PageSteps
  <1>. QED BY <1>1, <1>2, PTL DEF Spec

\* attributeEditor.js: a row that is added takes the place of no other, also after
\* rows before it were removed.
THEOREM RowsAreAddedApart == Spec => AddedRowsAreNew
  <1>1. AttributesInv /\ [Next]_managingVars
          => [Indices \subseteq Indices' =>
                \A i \in Indices : changing = Off => attributes'[i] = attributes[i]]_attributesVars
    <2>1. SUFFICES ASSUME AttributesInv, AttributesNext, Indices \subseteq Indices',
                          NEW i \in Indices, changing = Off
                   PROVE  attributes'[i] = attributes[i]
      BY PageSteps DEF attributesVars
    <2>2. PICK k \in 0 .. LastIndex :
            \/ addMetaDataRow(k) \/ removeMetaRow(k) \/ keyChanged(k) \/ valueChanged(k)
            \/ \E c \in Cells, text \in AttributeTexts : TypeCell(k, c, text)
      BY <2>1 DEF AttributesNext
    <2>3. CASE addMetaDataRow(k)
      <3>1. k \notin Indices
        BY <2>1, <2>3, NewIndexIsNew DEF AttributesInv, addMetaDataRow
      <3>. QED BY <2>1, <2>3, <3>1 DEF addMetaDataRow, AddedRow
    <2>4. CASE removeMetaRow(k)
      BY <2>1, <2>4 DEF removeMetaRow, Indices
    <2>5. ~keyChanged(k) /\ ~valueChanged(k)
      BY <2>1, AttributesAssumption DEF keyChanged, valueChanged, Cells
    <2>6. ASSUME NEW c \in Cells, NEW text \in AttributeTexts, TypeCell(k, c, text)
          PROVE  attributes'[i] = attributes[i]
      BY <2>6 DEF TypeCell
    <2>. QED BY <2>2, <2>3, <2>4, <2>5, <2>6
  <1>. QED BY <1>1, EditorInvariant, PTL DEF Spec, AddedRowsAreNew

------------------------------------------------------------------------------
(* The form of terms, the modal of an invitation *)

\* What the form keeps of a text is what its input shows, but for the input that has
\* the focus and for texts that are too short.
TermsInv ==
  /\ SentTermsAreShown
  /\ termsForm # Off =>
       /\ termsForm \in [typed : [TermsFields -> TermsTexts], focus : TermsFields \cup {"none"},
                         model : [TermsFields -> TermsTexts]]
       /\ \A f \in TermsFields : termsForm.focus # f =>
            termsForm.model[f] = termsForm.typed[f] \/ ~IsLongEnough(termsForm.typed[f])

\* A form keeps its texts, and its terms are sent with them.
LEMMA TermsStep ==
  ASSUME TermsInv, TermsNext
  PROVE  TermsInv'
  <1> DEFINE Forms == [typed : [TermsFields -> TermsTexts], focus : TermsFields \cup {"none"},
                       model : [TermsFields -> TermsTexts]]
             Keeps(s) == \A f \in TermsFields : s.focus # f =>
                           s.model[f] = s.typed[f] \/ ~IsLongEnough(s.typed[f])
  <1>0. termsForm # Off => termsForm \in Forms /\ Keeps(termsForm)
    BY DEF TermsInv
  <1>1. ASSUME termsSent' = NoTermsSent PROVE SentTermsAreShown'
    BY <1>1 DEF NoTermsSent, SentTermsAreShown, IsLongEnough
  <1>2. ASSUME UNCHANGED termsSent PROVE SentTermsAreShown'
    BY <1>2 DEF TermsInv, SentTermsAreShown
  <1>3. ASSUME SentTermsAreShown', termsForm' \in Forms /\ Keeps(termsForm')
        PROVE  TermsInv'
    BY <1>0, <1>3 DEF TermsInv
  <1>11. ASSUME SentTermsAreShown', termsForm' = Off PROVE TermsInv'
    BY <1>11 DEF TermsInv
  <1>12. ASSUME SentTermsAreShown', UNCHANGED termsForm PROVE TermsInv'
    BY <1>12 DEF TermsInv
  <1>4. CASE ListTerms \/ LeaveTerms
    <2>1. termsSent' = NoTermsSent /\ termsForm' = Off
      BY <1>4 DEF ListTerms, LeaveTerms
    <2>. QED BY <1>1, <1>11, <2>1
  <1>5. CASE OpenTermsForm
    <2>1. NewTermsForm \in Forms /\ Keeps(NewTermsForm)
      BY DEF NewTermsForm, NoText, TermsTexts
    <2>. QED BY <1>2, <1>3, <1>5, <2>1 DEF OpenTermsForm
  <1>6. CASE ClearTitle
    <2>1. termsForm \in Forms /\ Keeps(termsForm) /\ termsForm.focus = "none"
          /\ termsForm' = [termsForm EXCEPT !.typed["name"] = ""] /\ UNCHANGED termsSent
      BY <1>0, <1>6 DEF ClearTitle
    <2>2. termsForm' \in Forms
      BY <2>1 DEF TermsFields, TermsTexts
    <2>3. \A f \in TermsFields : termsForm'.model[f] = termsForm.model[f]
            /\ termsForm'.typed[f] = (IF f = "name" THEN "" ELSE termsForm.typed[f])
      BY <2>1 DEF TermsFields
    <2>4. Keeps(termsForm')
      BY <2>1, <2>3 DEF IsLongEnough
    <2>. QED BY <1>2, <1>3, <2>1, <2>2, <2>4
  <1>7. ASSUME NEW f \in TermsFields, NEW text \in TermsTexts, TypeTerms(f, text)
        PROVE  TermsInv'
    <2>1. termsForm \in Forms /\ Keeps(termsForm) /\ termsForm.focus \in {"none", f}
          /\ termsForm' = [termsForm EXCEPT !.typed[f] = text, !.focus = f]
          /\ UNCHANGED termsSent
      BY <1>0, <1>7 DEF TypeTerms
    <2>2. termsForm' \in Forms /\ termsForm'.focus = f
      BY <2>1
    <2>3. \A g \in TermsFields : termsForm'.model[g] = termsForm.model[g]
            /\ (g # f => termsForm'.typed[g] = termsForm.typed[g] /\ termsForm.focus # g)
      BY <2>1 DEF TermsFields
    <2>4. Keeps(termsForm')
      BY <2>1, <2>2, <2>3
    <2>. QED BY <1>2, <1>3, <2>1, <2>2, <2>4
  <1>8. CASE BlurTerms
    <2> DEFINE f == termsForm.focus
               text == termsForm.typed[f]
    <2>1. termsForm \in Forms /\ Keeps(termsForm) /\ f \in TermsFields /\ text \in TermsTexts
          /\ UNCHANGED termsSent
      BY <1>0, <1>8 DEF BlurTerms
    <2>2. CASE IsLongEnough(text)
      <3>1. termsForm' = [termsForm EXCEPT !.focus = "none",
                                           !.model = [termsForm.model EXCEPT ![f] = text]]
        BY <1>8, <2>2 DEF BlurTerms, SetTermsText
      <3>2. termsForm' \in Forms
        BY <2>1, <3>1
      <3>3. \A g \in TermsFields : termsForm'.typed[g] = termsForm.typed[g]
              /\ termsForm'.model[g] = (IF g = f THEN text ELSE termsForm.model[g])
        BY <2>1, <3>1
      <3>4. Keeps(termsForm')
        BY <2>1, <3>3
      <3>. QED BY <1>2, <1>3, <2>1, <3>2, <3>4
    <2>3. CASE ~IsLongEnough(text)
      <3>1. termsForm' = [termsForm EXCEPT !.focus = "none", !.model = @]
        BY <1>8, <2>3 DEF BlurTerms
      <3>2. termsForm' \in Forms
        BY <2>1, <3>1
      <3>3. termsForm'.typed = termsForm.typed /\ termsForm'.model = termsForm.model
        BY <2>1, <3>1
      <3>4. Keeps(termsForm')
        BY <2>1, <2>3, <3>3
      <3>. QED BY <1>2, <1>3, <2>1, <3>2, <3>4
    <2>. QED BY <2>2, <2>3
  <1>9. ASSUME NEW t \in AllTerms, CompleteTerms(t) PROVE TermsInv'
    <2>1. termsForm \in Forms /\ Keeps(termsForm) /\ termsForm.focus = "none" /\ ~saveDisabled
          /\ termsSent' = [model |-> termsForm.model, typed |-> termsForm.typed]
          /\ termsForm' = Off
      BY <1>0, <1>9 DEF CompleteTerms
    <2>2. \A f \in TermsFields : IsLongEnough(termsForm.model[f])
            /\ (termsForm.model[f] = termsForm.typed[f] \/ ~IsLongEnough(termsForm.typed[f]))
      BY <2>1 DEF saveDisabled, TermsFields
    <2>3. SentTermsAreShown'
      BY <2>1, <2>2 DEF SentTermsAreShown, IsLongEnough
    <2>. QED BY <1>11, <2>1, <2>3
  <1>10. CASE TermsAnswers \/ \E t \in AllTerms : OpenTermsDetail(t)
    <2>1. UNCHANGED <<termsForm, termsSent>>
      BY <1>10 DEF TermsAnswers, AnswerCreateTerms, AnswerSingleTerms, LoseTerms, AnswerTermsList,
                   OpenTermsDetail
    <2>. QED BY <1>2, <1>12, <2>1
  <1>. QED BY <1>4, <1>5, <1>6, <1>7, <1>8, <1>9, <1>10
           DEF TermsNext, TermsUser, OpenTerms, CloseTermsDetail

\* What the modal keeps is a valid address or none, and the one in the input unless
\* that one has the focus or is not valid.
InvitationInv ==
  /\ InvitationIsShown
  /\ inviteModal # Off =>
       /\ inviteModal \in [typed : Emails \cup {"", BadEmail}, focused : BOOLEAN,
                           email : Emails \cup {""}]
       /\ inviteModal.focused
            \/ inviteModal.email = inviteModal.typed \/ inviteModal.typed \notin Emails

\* The modal keeps an address, and sends it.
LEMMA InvitationStep ==
  ASSUME InvitationInv, AccountNext
  PROVE  InvitationInv'
  <1> DEFINE Modals == [typed : Emails \cup {"", BadEmail}, focused : BOOLEAN,
                        email : Emails \cup {""}]
             Good(s) == s \in Modals /\ (s.focused \/ s.email = s.typed \/ s.typed \notin Emails)
  <1>0. InvitationIsShown /\ (inviteModal # Off => Good(inviteModal))
    BY DEF InvitationInv
  <1>1. ASSUME InvitationIsShown', inviteModal' = Off \/ Good(inviteModal') PROVE InvitationInv'
    BY <1>1 DEF InvitationInv
  <1>2. ASSUME UNCHANGED <<inviteModal, invited>> PROVE InvitationInv'
    BY <1>2 DEF InvitationInv, InvitationIsShown
  <1>3. ASSUME inviteModal' = Off, invited' = NotInvited PROVE InvitationInv'
    BY <1>3 DEF InvitationInv, InvitationIsShown, NotInvited
  <1>4. ASSUME NEW name, ToSection(name) PROVE InvitationInv'
    BY <1>3, <1>4 DEF ToSection
  <1>5. CASE LeaveAccount
    BY <1>3, <1>5 DEF LeaveAccount
  <1>6. CASE OpenInvitation
    <2>1. inviteModal' = [typed |-> "", focused |-> FALSE, email |-> ""] /\ UNCHANGED invited
      BY <1>6 DEF OpenInvitation
    <2>2. Good(inviteModal')
      BY <2>1
    <2>3. InvitationIsShown'
      BY <1>0, <2>1 DEF InvitationIsShown
    <2>. QED BY <1>1, <2>2, <2>3
  <1>7. ASSUME NEW text \in Emails \cup {"", BadEmail}, TypeEmail(text) PROVE InvitationInv'
    <2>1. Good(inviteModal) /\ UNCHANGED invited
          /\ inviteModal' = [inviteModal EXCEPT !.typed = text, !.focused = TRUE]
      BY <1>0, <1>7 DEF TypeEmail
    <2>2. Good(inviteModal')
      BY <2>1
    <2>3. InvitationIsShown'
      BY <1>0, <2>1 DEF InvitationIsShown
    <2>. QED BY <1>1, <2>2, <2>3
  <1>8. CASE BlurEmail
    <2>1. Good(inviteModal) /\ UNCHANGED invited
          /\ inviteModal' = [inviteModal EXCEPT
               !.focused = FALSE,
               !.email = IF inviteModal.typed \in Emails THEN inviteModal.typed ELSE @]
      BY <1>0, <1>8 DEF BlurEmail, validateEmail
    <2>2. Good(inviteModal')
      BY <2>1
    <2>3. InvitationIsShown'
      BY <1>0, <2>1 DEF InvitationIsShown
    <2>. QED BY <1>1, <2>2, <2>3
  <1>9. CASE SubmitInvitation
    <2>1. inviteModal # Off /\ ~inviteModal.focused /\ UNCHANGED inviteModal
          /\ invited' = [email |-> inviteModal.email, typed |-> inviteModal.typed]
      BY <1>9 DEF SubmitInvitation
    <2>2. Good(inviteModal)
      BY <1>0, <2>1
    <2>3. InvitationIsShown'
      BY <2>1, <2>2 DEF InvitationIsShown
    <2>. QED BY <1>1, <2>1, <2>2, <2>3
  <1>10. CASE OpenSelectPlan \/ (\E p \in Plans : SelectPlan(p)) \/ SectionAnswers \/ PlanAnswers
              \/ Others
    <2>1. UNCHANGED <<inviteModal, invited>>
      BY <1>10 DEF OpenSelectPlan, SelectPlan, SectionAnswers, AnswerSection, PlanAnswers, SetPlan,
                   PlanIsSet, PlanIsNotSet, Others, Grow
    <2>. QED BY <1>2, <2>1
  <1>. QED BY <1>4, <1>5, <1>6, <1>7, <1>8, <1>9, <1>10
           DEF AccountNext, AccountUser, OpenAccount, OpenFeed, OpenQuality, ClickAccountTab,
               CloseInvitation, CloseSelectPlan

\* CreateTermsOfUseComponent.tsx, attributeEditor.js, InvitationModal.tsx: what is sent is
\* what the inputs show, after any order of typing, correcting, adding and removing; but
\* of an attribute's text with a double quote an input may show only what is before it.
THEOREM SentIsWhatIsShown == Spec => []FormsSendWhatTheyShow
  <1> DEFINE Inv == TermsInv /\ InvitationInv
  <1>1. Init => Inv
    <2>1. TermsInit => TermsInv
      BY DEF TermsInit, TermsInv, SentTermsAreShown, NoTermsSent, IsLongEnough
    <2>3. AccountInit => inviteModal = Off /\ invited = NotInvited
      BY DEF AccountInit
    <2>4. NotInvited.email = "" /\ NotInvited.typed = ""
      BY DEF NotInvited
    <2>2. AccountInit => InvitationInv
      BY <2>3, <2>4 DEF InvitationInv, InvitationIsShown
    <2>. QED BY <2>1, <2>2 DEF Init
  <1>2. Inv /\ [Next]_managingVars => Inv'
    <2>1. ASSUME TermsInv, UNCHANGED termsVars PROVE TermsInv'
      BY <2>1 DEF TermsInv, SentTermsAreShown, termsVars
    <2>2. ASSUME InvitationInv, UNCHANGED accountVars PROVE InvitationInv'
      BY <2>2 DEF InvitationInv, InvitationIsShown, accountVars
    <2>. QED BY <2>1, <2>2, TermsStep, InvitationStep, PageSteps
  <1>3. AttributesInv => SentAttributesAreShown
    <2> SUFFICES ASSUME AttributesInv, changing = Off PROVE SentAttributesAreShown
      BY DEF SentAttributesAreShown
    <2>1. metadataInput = attributes /\ DOMAIN drawnRows = Indices /\ DOMAIN attributes = Indices
      BY DEF AttributesInv, Indices
    <2>2. Indices \subseteq 0 .. LastIndex
      BY DEF AttributesInv, Indexed, Indices
    <2>3. \A i \in Indices, c \in Cells : changing # <<i, c>>
      BY <2>2, AttributesAssumption DEF Cells
    <2>4. \A i \in Indices, c \in Cells : Shows(drawnRows[i][c], attributes[i][c])
      BY <2>3 DEF AttributesInv
    <2>. QED BY <2>1, <2>4 DEF SentAttributesAreShown, Shows
  <1>4. Inv /\ AttributesInv => FormsSendWhatTheyShow
    BY <1>3 DEF TermsInv, InvitationInv, FormsSendWhatTheyShow
  <1>. QED BY <1>1, <1>2, <1>4, EditorInvariant, PTL DEF Spec

------------------------------------------------------------------------------
(* The account *)

SectionStates == [name : Sections, loading : BOOLEAN, error : BOOLEAN,
                  rows : SUBSET (Rows \cup Plans \cup {"estimate"})]

PlansAsked == [plan : Plans, set : BOOLEAN, heard : BOOLEAN]

AccountType ==
  /\ planAsked \subseteq PlansAsked
  /\ section # Off => section \in SectionStates
  /\ kept \in [Lists -> SUBSET Rows]
  /\ plan \in Plans
  /\ raced \in BOOLEAN

\* While an answer is awaited, the server still has all it had when the section was
\* mounted; and the plan can change under its section only if a selection was under way
\* when it was mounted.
AccountInv ==
  /\ SectionIsComplete
  /\ section # Off /\ reading =>
       section.loading /\ (section.name # "plan" => since \subseteq ServerHas(section.name))
  /\ section # Off /\ section.name = "plan" /\ ~raced =>
       planAsked = {} /\ planModal = Off /\ section.rows \in {{}, {plan}}

AccountGood == AccountType /\ AccountInv

\* What the server has are rows.
LEMMA ServerHasRows ==
  ASSUME AccountType, NEW name \in Sections
  PROVE  ServerHas(name) \in SUBSET (Rows \cup Plans \cup {"estimate"})
  <1>1. CASE name = "plan"
    BY <1>1 DEF ServerHas, AccountType, Lists
  <1>2. CASE name = "quality"
    BY <1>2 DEF ServerHas, Lists
  <1>3. CASE name \in Lists
    BY <1>3 DEF ServerHas, AccountType, Lists
  <1>. QED BY <1>1, <1>2, <1>3 DEF Sections

\* A section with its answer: the rows, an error, or still the feed without either.
LEMMA SectionAnswered ==
  ASSUME NEW s \in SectionStates, NEW ok \in BOOLEAN,
         NEW rows \in SUBSET (Rows \cup Plans \cup {"estimate"})
  PROVE  /\ SectionAfter(s, ok, rows) \in SectionStates
         /\ SectionAfter(s, ok, rows).name = s.name
         /\ ok => SectionAfter(s, ok, rows).rows = rows
         /\ ~ok => /\ SectionAfter(s, ok, rows).rows \in {{}, s.rows}
                   /\ SectionAfter(s, ok, rows).error \/ SectionAfter(s, ok, rows) = s
  <1>1. /\ SectionLoaded(s, rows) \in SectionStates /\ SectionLoaded(s, rows).name = s.name
        /\ SectionLoaded(s, rows).rows = rows
    BY DEF SectionLoaded, SectionStates
  <1>2. /\ SectionFailed(s) \in SectionStates /\ SectionFailed(s).name = s.name
        /\ SectionFailed(s).rows = s.rows /\ SectionFailed(s).error
    BY DEF SectionFailed, SectionStates
  <1> DEFINE emptied == [SectionFailed(s) EXCEPT !.rows = {}]
  <1>3. emptied \in SectionStates /\ emptied.name = s.name /\ emptied.rows = {} /\ emptied.error
    BY <1>2 DEF SectionStates
  <1>4. SectionAfter(s, ok, rows) = IF ok THEN SectionLoaded(s, rows)
                                    ELSE CASE s.name \in {"members", "invoices"} -> emptied
                                           [] s.name \in {"transactions", "plan", "quality"} -> SectionFailed(s)
                                           [] s.name = "feed" -> s
    <2>1. s.name \in {"members", "transactions", "invoices", "feed", "plan", "quality"}
      BY DEF SectionStates, Sections, Lists
    <2>. QED BY <2>1 DEF SectionAfter, MembersAfter, TransactionsAfter, InvoicesAfter, PlanAfter,
                         FeedAfter, QualityAfter
  <1> HIDE DEF emptied
  <1>5. s.name \in {"members", "transactions", "invoices", "feed", "plan", "quality"}
    BY DEF SectionStates, Sections, Lists
  <1>. QED BY <1>1, <1>2, <1>3, <1>4, <1>5

\* A section is mounted: nothing is shown, and what there is is remembered.
LEMMA SectionOpened ==
  ASSUME AccountGood, NEW name \in Sections, SectionMounted(name), planModal' = Off,
         planAsked = {} => planAsked' = {}, planAsked' \subseteq PlansAsked,
         UNCHANGED <<kept, plan>>
  PROVE  AccountGood'
  <1>1. /\ section' = [name |-> name, loading |-> TRUE, error |-> FALSE, rows |-> {}]
        /\ since' = ServerHas(name) /\ raced' = (name = "plan" /\ planAsked # {})
        /\ kept' = kept /\ plan' = plan
    BY DEF SectionMounted
  <1>2. section' \in SectionStates /\ section'.name = name /\ section'.loading /\ section'.rows = {}
    BY <1>1 DEF SectionStates
  <1>3. ServerHas(name)' = ServerHas(name)
    BY <1>1 DEF ServerHas
  <1>4. AccountType'
    BY <1>1, <1>2 DEF AccountGood, AccountType
  <1>5. AccountInv'
    BY <1>1, <1>2, <1>3 DEF AccountInv, SectionIsComplete
  <1>. QED BY <1>4, <1>5 DEF AccountGood

\* Of a plan that is asked for, it may become known that it is set, or not be heard.
LEMMA PlansStayAsked ==
  ASSUME AccountType, NEW q \in planAsked
  PROVE  [q EXCEPT !.set = TRUE] \in PlansAsked /\ [q EXCEPT !.heard = FALSE] \in PlansAsked
  BY DEF AccountType, PlansAsked

\* Every step of the account keeps the rows and the plan as they are promised.
LEMMA AccountStep ==
  ASSUME AccountGood, AccountNext
  PROVE  AccountGood'
  <1>0. AccountType /\ AccountInv
    BY DEF AccountGood
  <1>1. ASSUME NEW name \in Sections, ToSection(name) PROVE AccountGood'
    <2>1. planAsked = {} => planAsked' = {}
      BY <1>1 DEF ToSection, PlansUnheard
    <2>2. planAsked' \subseteq PlansAsked
      BY <1>0, <1>1, PlansStayAsked DEF ToSection, PlansUnheard
    <2>. QED BY <1>1, <2>1, <2>2, SectionOpened DEF ToSection
  <1>2. ASSUME section' = Off, UNCHANGED <<kept, plan>>, raced' = FALSE,
               planAsked' \subseteq PlansAsked
        PROVE  AccountGood'
    BY <1>0, <1>2 DEF AccountGood, AccountType, AccountInv, SectionIsComplete
  <1>3. CASE LeaveAccount \/ OpenInvitation \/ OpenSelectPlan
    <2>1. PlansUnheard \subseteq PlansAsked /\ planAsked \subseteq PlansAsked
      BY <1>0, PlansStayAsked DEF PlansUnheard, AccountType
    <2>. QED BY <1>2, <1>3, <2>1
             DEF LeaveAccount, OpenInvitation, OpenSelectPlan, SectionUnmounted
  <1>4. ASSUME NEW ok \in BOOLEAN, AnswerSection(ok) PROVE AccountGood'
    <2> DEFINE rows == ServerHas(section.name)
    <2>1. /\ section # Off /\ reading /\ reading' = FALSE
          /\ section' = SectionAfter(section, ok, rows)
          /\ raced' = (raced \/ (section.name = "plan" /\ \E q \in planAsked : ~q.heard))
          /\ UNCHANGED <<planModal, planAsked, kept, plan, since>>
      BY <1>4 DEF AnswerSection
    <2>2. section \in SectionStates /\ section.name \in Sections
      BY <1>0, <2>1 DEF AccountType, SectionStates
    <2>3. rows \in SUBSET (Rows \cup Plans \cup {"estimate"})
      BY <1>0, <2>2, ServerHasRows
    <2>4. section.loading /\ (section.name # "plan" => since \subseteq rows)
      BY <1>0, <2>1 DEF AccountInv
    <2>5. section.name = "plan" => rows = {plan}
      BY DEF ServerHas, Lists
    <2> HIDE DEF rows
    <2>6. /\ section' \in SectionStates /\ section'.name = section.name
          /\ ok => section'.rows = rows
          /\ ~ok => section'.rows \in {{}, section.rows} /\ (section'.error \/ section' = section)
      BY <2>1, <2>2, <2>3, SectionAnswered
    <2>7. AccountType'
      BY <1>0, <2>1, <2>6 DEF AccountType
    <2>8. SectionIsComplete'
      BY <2>1, <2>4, <2>6 DEF SectionIsComplete
    <2>9. AccountInv'
      BY <1>0, <2>1, <2>5, <2>6, <2>8 DEF AccountInv
    <2>. QED BY <2>7, <2>9 DEF AccountGood
  <1>5. ASSUME NEW name \in Lists, NEW row \in Rows, Grow(name, row) PROVE AccountGood'
    <2>1. /\ kept' = [kept EXCEPT ![name] = @ \cup {row}]
          /\ UNCHANGED <<section, reading, planModal, planAsked, plan, since, raced>>
      BY <1>5 DEF Grow
    <2>2. kept' \in [Lists -> SUBSET Rows] /\ \A n \in Lists : kept[n] \subseteq kept'[n]
      BY <1>0, <2>1 DEF AccountType
    <2>3. AccountType'
      BY <1>0, <2>1, <2>2 DEF AccountType
    <2>4. \A n \in Sections : ServerHas(n) \subseteq ServerHas(n)'
      BY <2>1, <2>2 DEF ServerHas, Sections
    <2>5. section # Off => section.name \in Sections
      BY <1>0 DEF AccountType, SectionStates
    <2>6. AccountInv'
      BY <1>0, <2>1, <2>4, <2>5 DEF AccountInv, SectionIsComplete
    <2>. QED BY <2>3, <2>6 DEF AccountGood
  <1>6. ASSUME NEW p \in Plans, SelectPlan(p) PROVE AccountGood'
    <2>1. planModal # Off /\ UNCHANGED <<section, reading, kept, plan, since, raced>>
      BY <1>6 DEF SelectPlan
    <2>2. ServerHas(section.name)' = ServerHas(section.name)
      BY <2>1 DEF ServerHas
    <2>3. planAsked' = planAsked \cup {[plan |-> p, set |-> FALSE, heard |-> TRUE]}
      BY <1>6 DEF SelectPlan
    <2>5. [plan |-> p, set |-> FALSE, heard |-> TRUE] \in PlansAsked
      BY DEF PlansAsked
    <2>4. planAsked' \subseteq PlansAsked
      BY <1>0, <2>3, <2>5 DEF AccountType
    <2>. QED BY <1>0, <2>1, <2>2, <2>4 DEF AccountGood, AccountType, AccountInv, SectionIsComplete
  <1>7. ASSUME NEW q \in planAsked, SetPlan(q) PROVE AccountGood'
    <2>1. plan' = q.plan /\ UNCHANGED <<section, reading, planModal, kept, since, raced>>
      BY <1>7 DEF SetPlan
    <2>2. \A n \in Sections \ {"plan"} : ServerHas(n)' = ServerHas(n)
      BY <2>1 DEF ServerHas, Sections, Lists
    <2>3. section # Off => section.name \in Sections
      BY <1>0 DEF AccountType, SectionStates
    <2>4. q.plan \in Plans /\ planAsked # {}
      BY <1>0, <1>7 DEF AccountType, PlansAsked
    <2>7. planAsked' = (planAsked \ {q}) \cup {[q EXCEPT !.set = TRUE]}
      BY <1>7 DEF SetPlan
    <2>8. planAsked' \subseteq PlansAsked
      BY <1>0, <2>7, PlansStayAsked DEF AccountType
    <2>5. AccountType'
      BY <1>0, <2>1, <2>4, <2>8 DEF AccountType
    <2>6. AccountInv'
      BY <1>0, <2>1, <2>2, <2>3, <2>4 DEF AccountInv, SectionIsComplete
    <2>. QED BY <2>5, <2>6 DEF AccountGood
  <1>8. ASSUME NEW q \in planAsked, PlanIsSet(q) PROVE AccountGood'
    <2>1. CASE q.heard
      <3>1. /\ section' = [name |-> "plan", loading |-> TRUE, error |-> FALSE, rows |-> {}]
            /\ since' = {plan} /\ raced' = (planAsked # {q}) /\ planModal' = Off
            /\ planAsked' = {[p EXCEPT !.heard = FALSE] : p \in planAsked \ {q}}
            /\ UNCHANGED <<kept, plan>>
        BY <1>8, <2>1 DEF PlanIsSet
      <3>2. /\ section' \in SectionStates /\ section'.name = "plan" /\ section'.loading
            /\ section'.rows = {}
        BY <3>1 DEF SectionStates, Sections
      <3>3. raced' \in BOOLEAN /\ (~raced' => planAsked' = {})
        BY <3>1
      <3>6. planAsked' \subseteq PlansAsked
        BY <1>0, <3>1, PlansStayAsked
      <3>4. AccountType'
        BY <1>0, <3>1, <3>2, <3>3, <3>6 DEF AccountType
      <3>5. AccountInv'
        BY <3>1, <3>2, <3>3 DEF AccountInv, SectionIsComplete
      <3>. QED BY <3>4, <3>5 DEF AccountGood
    <2>2. CASE ~q.heard
      <3>1. /\ planAsked' = planAsked \ {q}
            /\ UNCHANGED <<section, reading, since, raced, planModal, kept, plan>>
        BY <1>8, <2>2 DEF PlanIsSet
      <3>2. ServerHas(section.name)' = ServerHas(section.name)
        BY <3>1 DEF ServerHas
      <3>. QED BY <1>0, <3>1, <3>2 DEF AccountGood, AccountType, AccountInv, SectionIsComplete
    <2>. QED BY <2>1, <2>2
  <1>9. ASSUME NEW q \in planAsked, PlanIsNotSet(q) PROVE AccountGood'
    <2>1. /\ planAsked # {} /\ planAsked' = planAsked \ {q}
          /\ UNCHANGED <<section, reading, kept, plan, since, raced>>
      BY <1>9 DEF PlanIsNotSet
    <2>2. ServerHas(section.name)' = ServerHas(section.name)
      BY <2>1 DEF ServerHas
    <2>. QED BY <1>0, <2>1, <2>2 DEF AccountGood, AccountType, AccountInv, SectionIsComplete
  <1>10. CASE (\E text \in Emails \cup {"", BadEmail} : TypeEmail(text)) \/ BlurEmail
              \/ SubmitInvitation
    <2>1. UNCHANGED <<section, reading, planModal, planAsked, kept, plan, since, raced>>
      BY <1>10 DEF TypeEmail, BlurEmail, SubmitInvitation
    <2>2. ServerHas(section.name)' = ServerHas(section.name)
      BY <2>1 DEF ServerHas
    <2>. QED BY <1>0, <2>1, <2>2 DEF AccountGood, AccountType, AccountInv, SectionIsComplete
  <1>11. CASE \/ OpenAccount \/ OpenFeed \/ OpenQuality \/ CloseInvitation \/ CloseSelectPlan
              \/ \E name \in Sections : ClickAccountTab(name)
    BY <1>1, <1>11 DEF OpenAccount, OpenFeed, OpenQuality, CloseInvitation, CloseSelectPlan,
                       ClickAccountTab, Sections, Lists
  <1>. QED BY <1>3, <1>4, <1>5, <1>6, <1>7, <1>8, <1>9, <1>10, <1>11
           DEF AccountNext, AccountUser, SectionAnswers, PlanAnswers, Others

\* AccountPage.tsx and its sections: what has loaded shows all the server had when it was
\* opened, and the plan of the organisation, whatever was selected before.
THEOREM AccountShowsTheServers == Spec => []AccountIsTrue
  <1>1. Init => AccountGood
    <2>1. SUFFICES ASSUME AccountInit PROVE AccountGood
      BY DEF Init
    <2>2. section = Off /\ kept = [name \in Lists |-> {}] /\ plan = FirstPlan /\ raced = FALSE
          /\ planAsked = {}
      BY <2>1 DEF AccountInit
    <2>3. AccountType
      BY <2>2, AccountAssumption DEF AccountType
    <2>. QED BY <2>2, <2>3 DEF AccountGood, AccountInv, SectionIsComplete
  <1>2. AccountGood /\ [Next]_managingVars => AccountGood'
    <2>1. ASSUME AccountGood, UNCHANGED accountVars PROVE AccountGood'
      <3>1. ServerHas(section.name)' = ServerHas(section.name)
        BY <2>1 DEF ServerHas, accountVars
      <3>. QED BY <2>1, <3>1
               DEF AccountGood, AccountType, AccountInv, SectionIsComplete, accountVars
    <2>. QED BY <2>1, AccountStep, PageSteps
  <1>3. AccountGood => AccountIsTrue
    <2>1. ASSUME AccountGood, section # Off, section.name = "plan", SectionSays(section) = "rows",
                 ~raced
          PROVE  section.rows = {plan}
      <3>1. section.rows \in {{}, {plan}}
        BY <2>1 DEF AccountGood, AccountInv
      <3>2. section.rows # {}
        <4>1. ~section.loading
          BY <2>1 DEF SectionSays
        <4>2. SectionSays(section) = PlanSays(section)
          BY <2>1, <4>1 DEF SectionSays
        <4>. QED BY <2>1, <4>2 DEF PlanSays
      <3>. QED BY <3>1, <3>2
    <2>. QED BY <2>1 DEF AccountGood, AccountInv, AccountIsTrue, PlanShownIsPlan
  <1>. QED BY <1>1, <1>2, <1>3, PTL DEF Spec

------------------------------------------------------------------------------
(* The shell of every page *)

Paths == PagePaths \cup {"challenge", "callback"}

\* A page that is there is behind the splash or shown; the layout is due or fits.
SessionInv ==
  /\ tab # Off => tab \in [at : {"splash", "app"}, path : Paths]
  /\ LayoutFitsUser

\* What was stored is what was answered.
NavigationInv ==
  /\ TourFollowsAnswer /\ BurgerFitsWindow
  /\ window \in [wide : BOOLEAN, due : BOOLEAN]
  /\ tour \in [prompt : BOOLEAN, do : BOOLEAN]
  /\ \/ answer = "none" /\ tourStored = "none"
     \/ answer = "yes" /\ tourStored = "accept"
     \/ answer = "no" /\ tourStored = "dismiss"

\* A setting that is on was asked for.
NoticesInv ==
  /\ ToggleShowsSetting /\ QuietUnlessAsked
  /\ settings \in BOOLEAN
  /\ settings => everAsked

\* The layout follows the user.
LEMMA SessionStep ==
  ASSUME SessionInv, SessionNext
  PROVE  SessionInv'
  <1> USE DEF SessionInv, LayoutFitsUser, InApp, Paths
  <1>1. ASSUME NEW path \in Paths, LoadPage(path) PROVE SessionInv'
    <2>1. /\ tab' = [at |-> "splash", path |-> path]
          /\ tab' \in [at : {"splash", "app"}, path : Paths] /\ tab'.at # "app"
      BY <1>1 DEF LoadPage
    <2>. QED BY <2>1
  <1>2. CASE (tab # Off /\ CloseSite) \/ \E r \in Redirects : LeaveFor(r)
    BY <1>2 DEF CloseSite, LeaveFor
  <1>3. ASSUME tab # Off, NEW path \in Paths, tab' = [tab EXCEPT !.path = path]
        PROVE  tab' \in [at : {"splash", "app"}, path : Paths] /\ tab'.at = tab.at
    BY <1>3
  <1>4. ASSUME tab # Off, NEW path \in Paths, tab' = [tab EXCEPT !.path = path],
               UNCHANGED <<user, connected, connectDue>>
        PROVE  SessionInv'
    BY <1>3, <1>4
  <1>5. ASSUME NEW u \in BOOLEAN, SetUser(u), tab # Off, UNCHANGED connected,
               tab' \in [at : {"splash", "app"}, path : Paths] /\ tab'.at = tab.at
        PROVE  SessionInv'
    BY <1>5 DEF SetUser, ConnectDue
  <1>6. ASSUME NEW path \in PagePaths, OpenSite(path) \/ ClickPath(path) PROVE SessionInv'
    BY <1>1, <1>4, <1>6 DEF OpenSite, ClickPath, ShowsPages
  <1>7. CASE SignInAtIdentity \/ SignInFails
    BY <1>1, <1>7 DEF SignInAtIdentity, SignInFails
  <1>8. CASE logout \/ SignInButton \/ Challenge
    BY <1>8 DEF logout, SignInButton, Challenge
  <1>9. CASE ConnectEffect
    BY <1>9 DEF ConnectEffect
  <1>10. CASE RedirectToChallenge
    BY <1>4, <1>10 DEF RedirectToChallenge, ShowsAnonymous
  <1>11. CASE UserIsLoaded \/ UserIsRemoved
    BY <1>5, <1>11 DEF UserIsLoaded, UserIsRemoved
  <1>12. CASE SignedIn
    <2>1. tab' = [tab EXCEPT !.path = "/"] /\ tab # Off /\ SetUser(TRUE) /\ UNCHANGED connected
      BY <1>12 DEF SignedIn
    <2>2. "/" \in Paths
      BY SessionAssumption
    <2>. QED BY <1>3, <1>5, <2>1, <2>2
  <1>13. CASE SplashEnds
    BY <1>13 DEF SplashEnds
  <1>14. CASE ClickHome
    BY <1>4, <1>14, SessionAssumption DEF ClickHome, ShowsAnonymous
  <1>. QED BY <1>2, <1>6, <1>7, <1>8, <1>9, <1>10, <1>11, <1>12, <1>13, <1>14
           DEF SessionNext, SessionUser, SessionEffects, SessionLibrary

\* The tour follows the answer, the menu the window.
LEMMA NavigationStep ==
  ASSUME NavigationInv, NavigationNext
  PROVE  NavigationInv'
  <1> USE DEF NavigationInv, TourFollowsAnswer, BurgerFitsWindow, Calm
  <1>1. ASSUME NEW stored \in {"none", "accept", "dismiss"}, LoadShell(stored)
        PROVE  /\ window' \in [wide : BOOLEAN, due : BOOLEAN] /\ window'.due
               /\ tour' = [prompt |-> stored = "none", do |-> stored = "accept"]
    BY <1>1 DEF LoadShell
  <1>2. ASSUME NEW path, GoTo(path)
        PROVE  window' \in [wide : BOOLEAN, due : BOOLEAN] /\ window'.wide = window.wide
               /\ (window.due => window'.due)
    BY <1>2 DEF GoTo
  <1>3. CASE OpenShell
    <2>1. tourStored \in {"none", "accept", "dismiss"} /\ LoadShell(tourStored)
          /\ UNCHANGED <<tourStored, answer>>
      BY <1>3 DEF OpenShell
    <2>2. /\ window' \in [wide : BOOLEAN, due : BOOLEAN] /\ window'.due
          /\ tour' = [prompt |-> tourStored = "none", do |-> tourStored = "accept"]
      BY <1>1, <2>1
    <2>3. (tour'.prompt <=> answer = "none") /\ (tour'.do <=> answer = "yes")
          /\ tour' \in [prompt : BOOLEAN, do : BOOLEAN]
      <3>1. CASE answer = "none" /\ tourStored = "none"
        BY <2>2, <3>1
      <3>2. CASE answer = "yes" /\ tourStored = "accept"
        BY <2>2, <3>2
      <3>3. CASE answer = "no" /\ tourStored = "dismiss"
        BY <2>2, <3>3
      <3>. QED BY <3>1, <3>2, <3>3
    <2>. QED BY <2>1, <2>2, <2>3
  <1>4. CASE CloseShell
    BY <1>4 DEF CloseShell
  <1>5. CASE ResizeWindow
    BY <1>5 DEF ResizeWindow
  <1>6. CASE ToggleBurger \/ \E n \in MenuSections : ToggleSection(n)
    BY <1>6 DEF ToggleBurger, ToggleSection
  <1>7. CASE ClickTour
    BY <1>1, <1>7 DEF ClickTour
  <1>8. ASSUME NEW item \in DOMAIN MenuItems, ClickItem(item) PROVE NavigationInv'
    BY <1>2, <1>8 DEF ClickItem
  <1>9. CASE dismissTour
    BY <1>9 DEF dismissTour
  <1>14. CASE acceptTour
    BY <1>14 DEF acceptTour
  <1>10. CASE PassOver
    BY <1>10 DEF PassOver
  <1>11. CASE OpenTooltip
    BY <1>2, <1>11 DEF OpenTooltip
  <1>12. CASE CloseTooltip
    BY <1>12 DEF CloseTooltip
  <1>13. CASE MenuSizeEffect
    BY <1>13 DEF MenuSizeEffect
  <1>. QED BY <1>3, <1>4, <1>5, <1>6, <1>7, <1>8, <1>9, <1>10, <1>11, <1>12, <1>13, <1>14
           DEF NavigationNext, NavigationUser

\* Nothing is told but errors and signing in, unless more was asked for.
LEMMA NoticesStep ==
  ASSUME NoticesInv, NoticesNext
  PROVE  NoticesInv'
  <1> USE DEF NoticesInv, ToggleShowsSetting, QuietUnlessAsked
  <1>1. ASSUME NEW kind, NEW of, Toast(kind, of), UNCHANGED <<settings, toggle, everAsked>>,
               everAsked \/ kind = "error" \/ of \in {"welcome", "retrying"}
        PROVE  NoticesInv'
    <2>1. notices' \cup queued' \subseteq notices \cup queued \cup {<<kind, of>>}
      BY <1>1 DEF Toast
    <2>2. <<kind, of>>[1] = kind /\ <<kind, of>>[2] = of
      OBVIOUS
    <2>. QED BY <1>1, <2>1, <2>2
  <1>2. ASSUME UNCHANGED <<settings, toggle, everAsked>>,
               notices' \cup queued' \subseteq notices \cup queued
        PROVE  NoticesInv'
    BY <1>2
  <1>3. CASE BeginOperation
    BY <1>1, <1>2, <1>3 DEF BeginOperation, toastOnAction, info, NoToast
  <1>4. ASSUME NEW result \in {"error", "payload", "none"}, EndOperation(result)
        PROVE  NoticesInv'
    BY <1>1, <1>2, <1>4
    DEF EndOperation, toastOnActionResult, error, success, info, NoToast
  <1>5. ASSUME NEW ok \in BOOLEAN, TellSignIn(ok) PROVE NoticesInv'
    BY <1>1, <1>5 DEF TellSignIn, success, warning
  <1>6. CASE ToasterMounts \/ \E n \in notices : CloseNotice(n)
    BY <1>2, <1>6 DEF ToasterMounts, CloseNotice
  <1>7. CASE Reload
    BY <1>7 DEF Reload
  <1>8. CASE OpenSettings \/ CloseSettings
    BY <1>8 DEF OpenSettings, CloseSettings
  <1>9. ASSUME NEW o \in ToggleOptions, SelectOption(o) PROVE NoticesInv'
    <2>1. /\ toggle' = o /\ (settings' <=> o = "enable") /\ settings' \in BOOLEAN
          /\ (everAsked' <=> everAsked \/ settings')
          /\ UNCHANGED <<notices, queued>>
      BY <1>9 DEF SelectOption
    <2>. QED BY <2>1
  <1>. QED BY <1>3, <1>4, <1>5, <1>6, <1>7, <1>8, <1>9 DEF NoticesNext

\* Layout.tsx, withTour.tsx, burgerMenu.ts, SettingsPage.tsx, toasts.ts: the layout is that
\* of who is signed in, the tour, the menu, the switch and the silence are as chosen.
THEOREM ShellIsTheUsers == Spec => []ShellFollowsUser
  <1> DEFINE Inv == SessionInv /\ NavigationInv /\ NoticesInv
  <1>1. Init => Inv
    <2>1. SessionInit => SessionInv
      BY DEF SessionInit, SessionInv, LayoutFitsUser, InApp
    <2>4. ASSUME NavigationInit
          PROVE  /\ shown = Off /\ tourStored = "none" /\ answer = "none"
                 /\ tour \in [prompt : BOOLEAN, do : BOOLEAN]
                 /\ window \in [wide : BOOLEAN, due : BOOLEAN]
      BY <2>4 DEF NavigationInit
    <2>2. NavigationInit => NavigationInv
      BY <2>4 DEF NavigationInv, TourFollowsAnswer, BurgerFitsWindow, Calm
    <2>3. NoticesInit => NoticesInv
      BY DEF NoticesInit, NoticesInv, ToggleShowsSetting, QuietUnlessAsked
    <2>. QED BY <2>1, <2>2, <2>3 DEF Init
  <1>2. Inv /\ [Next]_managingVars => Inv'
    <2>1. ASSUME SessionInv, UNCHANGED sessionVars PROVE SessionInv'
      BY <2>1 DEF SessionInv, LayoutFitsUser, InApp, sessionVars
    <2>2. ASSUME NavigationInv, UNCHANGED navigationVars PROVE NavigationInv'
      BY <2>2 DEF NavigationInv, TourFollowsAnswer, BurgerFitsWindow, Calm, navigationVars
    <2>3. ASSUME NoticesInv, UNCHANGED noticesVars PROVE NoticesInv'
      BY <2>3 DEF NoticesInv, ToggleShowsSetting, QuietUnlessAsked, noticesVars
    <2>. QED BY <2>1, <2>2, <2>3, SessionStep, NavigationStep, NoticesStep, PageSteps
  <1>3. Inv => ShellFollowsUser
    BY DEF SessionInv, NavigationInv, NoticesInv, ShellFollowsUser
  <1>. QED BY <1>1, <1>2, <1>3, PTL DEF Spec

------------------------------------------------------------------------------
(* The applications *)

Kinds == {"list", "read", "create", "update", "delete"}
Requests == [kind : Kinds, id : Ids, app : AppRecords, answer : {"none", "ok", "refused"},
             heard : BOOLEAN]

AreRequests(reqs) == reqs \in [DOMAIN reqs -> Nat \ {0}] /\ DOMAIN reqs \subseteq Requests

AppsType ==
  /\ AreRequests(appReqs)
  /\ modal # Off => modal \in ModalStates
  /\ apps \subseteq AppRecords
  /\ given \in Nat
  /\ excused \in BOOLEAN /\ stale \in BOOLEAN

\* A creation the modal waits for and the server has not made.
IsAwaited(r) == r.heard /\ r.kind = "create" /\ r.answer = "none"

NoneAwaited == \A r \in DOMAIN appReqs : ~IsAwaited(r)

\* A list hears its list, a modal the rest; what a modal reads is what it was opened for.
HeardInv ==
  \A r \in DOMAIN appReqs : r.heard =>
    /\ r.kind = "list" => modal = Off
    /\ r.kind # "list" => modal # Off
    /\ r.kind = "read" => r.id # NoApp /\ (r.answer = "ok" => r.app.id = r.id)

\* A new application is created once, by the Save after which the modal stays loading;
\* what is read to be edited keeps its id, so that no Save creates.
CreatesInv ==
  modal # Off /\ ~excused =>
    /\ modal.opened = NoApp =>
         /\ \A r \in DOMAIN appReqs : r.heard => r.kind # "read"
         /\ \A r \in DOMAIN appReqs : IsAwaited(r) =>
              appReqs[r] = 1 /\ \A q \in DOMAIN appReqs : IsAwaited(q) => q = r
         /\ made # {} => NoneAwaited /\ \E id \in Nat : made = {id}
         /\ ~modal.loading => made = {} /\ NoneAwaited
    /\ modal.opened # NoApp => made = {} /\ modal.id # NoApp /\ NoneAwaited

\* While the list is there nothing changes, but for what was under way before.
StoredInv ==
  appList # Off /\ ~stale /\ ~appList.error =>
    /\ modal = Off /\ ~ChangeUnderWay
    /\ ~appList.loading => appList.applications = Stored

AppsGood == AppsType /\ HeardInv /\ CreatesInv /\ StoredInv

------------------------------------------------------------------------------

\* A sequence without one of its elements is one of the same set.
LEMMA WithoutIn ==
  ASSUME NEW T, NEW s \in Seq(T), NEW i \in DOMAIN s
  PROVE  Without(s, i) \in Seq(T)
  <1>1. Len(s) \in Nat /\ i \in 1 .. Len(s) /\ \A j \in 1 .. Len(s) : s[j] \in T
    BY LenProperties, ElementOfSeq
  <1>2. SubSeq(s, 1, i - 1) \in Seq(T)
    BY <1>1, SubSeqProperties
  <1>3. SubSeq(s, i + 1, Len(s)) \in Seq(T)
    <2>1. i + 1 \in Int /\ Len(s) \in Int /\ \A j \in i + 1 .. Len(s) : s[j] \in T
      BY <1>1
    <2>. QED BY <2>1, SubSeqProperties
  <1>. QED BY <1>2, <1>3, ConcatProperties DEF Without

\* A request more.
LEMMA MoreRequests ==
  ASSUME NEW reqs, AreRequests(reqs), NEW r \in Requests
  PROVE  /\ AreRequests(With(reqs, r))
         /\ DOMAIN With(reqs, r) = DOMAIN reqs \cup {r}
         /\ \A q \in DOMAIN reqs : q # r => With(reqs, r)[q] = reqs[q]
         /\ r \notin DOMAIN reqs => With(reqs, r)[r] = 1
  <1> DEFINE One == [e \in {r} |-> 1]
             Sum == [e \in DOMAIN reqs \cup DOMAIN One |->
                       (IF e \in DOMAIN reqs THEN reqs[e] ELSE 0)
                         + (IF e \in DOMAIN One THEN One[e] ELSE 0)]
  <1>1. With(reqs, r) = Sum
    BY DEF With, (+), SetToBag
  <1>2. DOMAIN Sum = DOMAIN reqs \cup {r}
    OBVIOUS
  <1>3. ASSUME NEW q \in DOMAIN reqs, q # r PROVE Sum[q] = reqs[q]
    BY <1>3 DEF AreRequests
  <1>4. Sum[r] = IF r \in DOMAIN reqs THEN reqs[r] + 1 ELSE 1
    BY DEF AreRequests
  <1>5. \A q \in DOMAIN Sum : Sum[q] \in Nat \ {0}
    <2>. SUFFICES ASSUME NEW q \in DOMAIN reqs \cup {r} PROVE Sum[q] \in Nat \ {0}
      BY <1>2
    <2>1. CASE q = r
      <3>1. r \in DOMAIN reqs => reqs[r] \in Nat
        BY DEF AreRequests
      <3>. QED BY <1>4, <2>1, <3>1
    <2>2. CASE q # r
      BY <1>3, <2>2 DEF AreRequests
    <2>. QED BY <2>1, <2>2
  <1>6. Sum \in [DOMAIN Sum -> Nat \ {0}]
    BY <1>5
  <1> HIDE DEF Sum
  <1>. QED BY <1>1, <1>2, <1>3, <1>4, <1>6 DEF AreRequests

\* A request less.
LEMMA LessRequests ==
  ASSUME AreRequests(appReqs), NEW r \in DOMAIN appReqs
  PROVE  /\ AreRequests(Less(r))
         /\ DOMAIN Less(r) \subseteq DOMAIN appReqs
         /\ \A q \in DOMAIN Less(r) : Less(r)[q] \in Nat \ {0} /\ Less(r)[q] <= appReqs[q]
         /\ appReqs[r] = 1 => r \notin DOMAIN Less(r)
  <1> DEFINE One == [e \in {r} |-> 1]
             Rest == [e \in DOMAIN appReqs |->
                        IF e \in DOMAIN One THEN appReqs[e] - One[e] ELSE appReqs[e]]
             Left == {d \in DOMAIN Rest : Rest[d] > 0}
             Sum == [e \in Left |-> Rest[e]]
  <1>1. Less(r) = Sum
    BY DEF Less, (-), SetToBag
  <1>2. DOMAIN Rest = DOMAIN appReqs /\ DOMAIN Sum = Left /\ Left \subseteq DOMAIN appReqs
    OBVIOUS
  <1>3. \A q \in DOMAIN appReqs : appReqs[q] \in Nat \ {0}
    BY DEF AreRequests
  <1>4. \A q \in DOMAIN appReqs : q # r => Rest[q] = appReqs[q]
    OBVIOUS
  <1>5. Rest[r] = appReqs[r] - 1
    OBVIOUS
  <1>6. ASSUME NEW q \in Left PROVE Sum[q] \in Nat \ {0} /\ Sum[q] <= appReqs[q]
    <2>1. q \in DOMAIN appReqs /\ Rest[q] > 0 /\ Sum[q] = Rest[q]
      OBVIOUS
    <2> HIDE DEF Rest, Sum, Left
    <2>2. CASE q = r
      BY <1>3, <1>5, <2>1, <2>2
    <2>3. CASE q # r
      BY <1>3, <1>4, <2>1, <2>3
    <2>. QED BY <2>2, <2>3
  <1>7. appReqs[r] = 1 => r \notin Left
    BY <1>5
  <1>8. Sum \in [DOMAIN Sum -> Nat \ {0}]
    BY <1>6
  <1> HIDE DEF Sum, Left
  <1>. QED BY <1>1, <1>2, <1>6, <1>7, <1>8 DEF AreRequests

\* What is left are changes under way, which nobody hears.
LEMMA UnheardRequests ==
  ASSUME AreRequests(appReqs)
  PROVE  /\ AreRequests(Unheard)
         /\ \A u \in DOMAIN Unheard : ~u.heard
         /\ ~ChangeUnderWay => DOMAIN Unheard = {}
  <1> DEFINE left == {r \in DOMAIN appReqs : IsUnderWay(r)}
             silent == {[r EXCEPT !.heard = FALSE] : r \in left}
             copies(u) == Copies(u) + Copies([u EXCEPT !.heard = TRUE])
  <1>1. Unheard = [u \in silent |-> copies(u)]
    BY DEF Unheard
  <1>2. ASSUME NEW r \in left
        PROVE  /\ [r EXCEPT !.heard = FALSE] \in Requests /\ ~[r EXCEPT !.heard = FALSE].heard
               /\ (r = [r EXCEPT !.heard = FALSE]
                   \/ r = [[r EXCEPT !.heard = FALSE] EXCEPT !.heard = TRUE])
    <2>1. r \in Requests
      BY DEF AreRequests
    <2>2. CASE r.heard
      BY <2>1, <2>2 DEF Requests
    <2>3. CASE ~r.heard
      BY <2>1, <2>3 DEF Requests
    <2>. QED BY <2>2, <2>3
  <1>3. \A e : Copies(e) \in Nat
    BY DEF Copies, AreRequests
  <1>4. \A e \in DOMAIN appReqs : Copies(e) \in Nat \ {0}
    BY DEF Copies, AreRequests
  <1>5. ASSUME NEW u \in silent PROVE copies(u) \in Nat \ {0}
    <2>1. PICK r \in left : u = [r EXCEPT !.heard = FALSE]
      OBVIOUS
    <2>2. r = u \/ r = [u EXCEPT !.heard = TRUE]
      BY <1>2, <2>1
    <2>3. Copies(u) \in Nat \ {0} \/ Copies([u EXCEPT !.heard = TRUE]) \in Nat \ {0}
      BY <1>4, <2>2
    <2>4. Copies(u) \in Nat /\ Copies([u EXCEPT !.heard = TRUE]) \in Nat
      BY <1>3
    <2>. QED BY <2>3, <2>4
  <1>6. silent \subseteq Requests /\ \A u \in silent : ~u.heard
    BY <1>2
  <1>7. ~ChangeUnderWay => silent = {}
    BY DEF ChangeUnderWay
  <1> HIDE DEF silent, copies
  <1>. QED BY <1>1, <1>5, <1>6, <1>7 DEF AreRequests

\* An answer or a reply adds nothing that is awaited, no change and nothing that is heard,
\* but in place of what it answers.
ReqsKept ==
  /\ AreRequests(appReqs)'
  /\ \A r \in DOMAIN appReqs' :
       /\ IsUnderWay(r) => r \in DOMAIN appReqs
       /\ IsAwaited(r) => r \in DOMAIN appReqs /\ appReqs'[r] <= appReqs[r]
       /\ r.heard => \E q \in DOMAIN appReqs :
            /\ q.heard /\ q.kind = r.kind
            /\ \/ r = q
               \/ r.id = q.id /\ (r.kind = "read" /\ r.answer = "ok" => r.app.id = r.id)

\* The modal stays that of what it was opened for, and keeps its id while it is loading,
\* unless it is excused.
ModalKept ==
  /\ modal = Off => modal' = Off
  /\ modal # Off =>
       /\ modal' # Off /\ modal' \in ModalStates /\ modal'.opened = modal.opened
       /\ ~excused' =>
            /\ ~excused
            /\ modal.id # NoApp => modal'.id # NoApp
            /\ modal.opened = NoApp /\ modal.loading => modal'.loading

\* Requests that stay as they are, or fewer of them.
LEMMA KeptRequests ==
  ASSUME AreRequests(appReqs)',
         \A q \in DOMAIN appReqs' : q \in DOMAIN appReqs /\ appReqs'[q] <= appReqs[q]
  PROVE  ReqsKept
  <1>1. ASSUME NEW r \in DOMAIN appReqs', r.heard
        PROVE  \E q \in DOMAIN appReqs :
                 /\ q.heard /\ q.kind = r.kind
                 /\ \/ r = q
                    \/ r.id = q.id /\ (r.kind = "read" /\ r.answer = "ok" => r.app.id = r.id)
    <2>1. r \in DOMAIN appReqs /\ r.heard /\ r.kind = r.kind /\ r = r
      BY <1>1
    <2>. WITNESS r \in DOMAIN appReqs
    <2>. QED BY <2>1
  <1>2. ASSUME NEW r \in DOMAIN appReqs'
        PROVE  /\ IsUnderWay(r) => r \in DOMAIN appReqs
               /\ IsAwaited(r) => r \in DOMAIN appReqs /\ appReqs'[r] <= appReqs[r]
    OBVIOUS
  <1>. QED BY <1>1, <1>2 DEF ReqsKept

\* What is answered is not under way any more.
LEMMA AnsweredKept ==
  ASSUME AreRequests(appReqs), NEW r \in DOMAIN appReqs, appReqs' = Less(r)
  PROVE  ReqsKept
  <1>1. AreRequests(Less(r)) /\ DOMAIN Less(r) \subseteq DOMAIN appReqs
        /\ \A q \in DOMAIN Less(r) : Less(r)[q] <= appReqs[q]
    BY LessRequests
  <1>2. AreRequests(appReqs)'
    BY <1>1 DEF AreRequests
  <1>3. ASSUME NEW q \in DOMAIN appReqs'
        PROVE  q \in DOMAIN appReqs /\ appReqs'[q] <= appReqs[q]
    BY <1>1
  <1>. QED BY <1>2, <1>3, KeptRequests

\* Nor what is replied to: its reply is.
LEMMA RepliedKept ==
  ASSUME AreRequests(appReqs), NEW r \in DOMAIN appReqs, NEW said \in {"ok", "refused"},
         NEW app \in AppRecords, Reply(r, said, app),
         r.kind = "read" /\ said = "ok" => app.id = r.id
  PROVE  ReqsKept
  <1>1. CASE ~r.heard
    BY <1>1, AnsweredKept DEF Reply
  <1>2. CASE r.heard
    <2> DEFINE reply == [r EXCEPT !.answer = said, !.app = app]
    <2>1. r \in Requests
      BY DEF AreRequests
    <2>2. /\ reply \in Requests /\ reply.answer = said /\ reply.heard /\ reply.kind = r.kind
          /\ reply.id = r.id /\ reply.app = app
      BY <1>2, <2>1 DEF Requests
    <2>3. appReqs' = With(Less(r), reply)
      BY <1>2 DEF Reply
    <2> HIDE DEF reply
    <2>4. /\ AreRequests(appReqs)'
          /\ DOMAIN appReqs' = DOMAIN Less(r) \cup {reply}
          /\ \A q \in DOMAIN Less(r) : q # reply => appReqs'[q] = Less(r)[q]
      <3>1. AreRequests(Less(r))
        BY LessRequests
      <3>2. /\ AreRequests(With(Less(r), reply))
            /\ DOMAIN With(Less(r), reply) = DOMAIN Less(r) \cup {reply}
            /\ \A q \in DOMAIN Less(r) : q # reply => With(Less(r), reply)[q] = Less(r)[q]
        BY <2>2, <3>1, MoreRequests
      <3>3. AreRequests(appReqs)'
        BY <2>3, <3>2 DEF AreRequests
      <3>. QED BY <2>3, <3>2, <3>3
    <2>5. ~IsUnderWay(reply) /\ ~IsAwaited(reply)
      BY <2>2 DEF IsUnderWay, IsAwaited
    <2>6. ASSUME NEW q \in DOMAIN appReqs', q # reply
          PROVE  q \in DOMAIN appReqs /\ appReqs'[q] <= appReqs[q]
      BY <2>4, <2>6, LessRequests
    <2>7. ASSUME NEW q \in DOMAIN appReqs', q.heard
          PROVE  \E p \in DOMAIN appReqs :
                   /\ p.heard /\ p.kind = q.kind
                   /\ (q = p \/ (q.id = p.id /\ (q.kind = "read" /\ q.answer = "ok" => q.app.id = q.id)))
      <3>1. CASE q = reply
        BY <1>2, <2>2, <3>1
      <3>2. CASE q # reply
        <4>1. q \in DOMAIN appReqs /\ q.heard /\ q.kind = q.kind /\ q = q
          BY <2>6, <2>7, <3>2
        <4>. QED BY <4>1
      <3>. QED BY <3>1, <3>2
    <2>8. ASSUME NEW q \in DOMAIN appReqs'
          PROVE  /\ IsUnderWay(q) => q \in DOMAIN appReqs
                 /\ IsAwaited(q) => q \in DOMAIN appReqs /\ appReqs'[q] <= appReqs[q]
      BY <2>5, <2>6
    <2>. QED BY <2>4, <2>7, <2>8 DEF ReqsKept
  <1>. QED BY <1>1, <1>2

\* What keeps the requests and the modal keeps what the requests are heard by.
LEMMA HeardStep ==
  ASSUME HeardInv, ReqsKept, ModalKept
  PROVE  HeardInv'
  BY DEF HeardInv, ReqsKept, ModalKept

\* And what is promised of them.
LEMMA ModalStep ==
  ASSUME AppsType, HeardInv, CreatesInv, ReqsKept, ModalKept, UNCHANGED made
  PROVE  HeardInv' /\ CreatesInv'
  <1>1. HeardInv'
    BY HeardStep
  <1>2. ASSUME modal' # Off, ~excused'
        PROVE  /\ modal # Off /\ ~excused /\ modal'.opened = modal.opened
               /\ modal.id # NoApp => modal'.id # NoApp
               /\ modal.opened = NoApp /\ modal.loading => modal'.loading
    BY <1>2 DEF ModalKept
  <1>3. NoneAwaited => NoneAwaited'
    BY DEF NoneAwaited, ReqsKept
  <1>4. CreatesInv'
    <2>1. SUFFICES ASSUME modal' # Off, ~excused'
                   PROVE  /\ modal.opened = NoApp =>
                               /\ \A r \in DOMAIN appReqs' : r.heard => r.kind # "read"
                               /\ \A r \in DOMAIN appReqs' : IsAwaited(r) =>
                                    appReqs'[r] = 1
                                      /\ \A q \in DOMAIN appReqs' : IsAwaited(q) => q = r
                               /\ made # {} => NoneAwaited' /\ \E id \in Nat : made = {id}
                               /\ ~modal'.loading => made = {} /\ NoneAwaited'
                          /\ modal.opened # NoApp =>
                               made = {} /\ modal'.id # NoApp /\ NoneAwaited'
      BY <1>2 DEF CreatesInv, IsAwaited
    <2>2. CASE modal.opened = NoApp
      <3>1. /\ \A r \in DOMAIN appReqs : r.heard => r.kind # "read"
            /\ \A r \in DOMAIN appReqs : IsAwaited(r) =>
                 appReqs[r] = 1 /\ \A q \in DOMAIN appReqs : IsAwaited(q) => q = r
            /\ made # {} => NoneAwaited /\ \E id \in Nat : made = {id}
            /\ ~modal.loading => made = {} /\ NoneAwaited
        BY <1>2, <2>1, <2>2 DEF CreatesInv
      <3>2. ASSUME NEW r \in DOMAIN appReqs', IsAwaited(r)
            PROVE  appReqs'[r] = 1 /\ \A q \in DOMAIN appReqs' : IsAwaited(q) => q = r
        <4>1. appReqs'[r] \in Nat \ {0} /\ appReqs'[r] <= appReqs[r] /\ r \in DOMAIN appReqs
          BY <3>2 DEF ReqsKept, AreRequests
        <4>2. \A q \in DOMAIN appReqs' : IsAwaited(q) => q \in DOMAIN appReqs
          BY DEF ReqsKept
        <4>. QED BY <3>1, <3>2, <4>1, <4>2
      <3>3. \A r \in DOMAIN appReqs' : r.heard => r.kind # "read"
        BY <3>1 DEF ReqsKept
      <3>. QED BY <1>2, <1>3, <2>1, <2>2, <3>1, <3>2, <3>3
    <2>3. CASE modal.opened # NoApp
      BY <1>2, <1>3, <2>1, <2>3 DEF CreatesInv
    <2>. QED BY <2>2, <2>3
  <1>. QED BY <1>1, <1>4

\* The list stays while what is stored does, or while a modal is there.
LEMMA StoredStep ==
  ASSUME StoredInv, UNCHANGED <<appList, stale>>,
         \/ modal # Off
         \/ ReqsKept /\ ModalKept /\ (ChangeUnderWay \/ UNCHANGED apps)
  PROVE  StoredInv'
  <1>1. SUFFICES ASSUME appList # Off, ~stale, ~appList.error, modal = Off, ~ChangeUnderWay,
                        ~appList.loading => appList.applications = Stored,
                        ReqsKept, modal' = Off, UNCHANGED apps
                 PROVE  /\ ~ChangeUnderWay'
                        /\ ~appList.loading => appList.applications = Stored'
    BY DEF StoredInv, ModalKept
  <1>2. ~ChangeUnderWay'
    BY <1>1 DEF ReqsKept, ChangeUnderWay, IsUnderWay, IsChange
  <1>. QED BY <1>1, <1>2 DEF Stored

\* A step that keeps the requests and the modal, and creates nothing.
LEMMA KeepingStep ==
  ASSUME AppsGood, ReqsKept, ModalKept, UNCHANGED <<made, appList, stale, given>>,
         modal' # Off => modal' \in ModalStates, apps' \subseteq AppRecords,
         excused' \in BOOLEAN, ChangeUnderWay \/ UNCHANGED apps
  PROVE  AppsGood'
  <1>1. AppsType'
    BY DEF AppsGood, AppsType, ReqsKept
  <1>. QED BY <1>1, ModalStep, StoredStep DEF AppsGood

\* Routes: nothing is heard any more of what was asked before.
LEMMA RouteStep ==
  ASSUME AppsGood,
         \/ OpenApplications \/ LeaveApplications
         \/ NewApplication \/ \E id \in Apps : EditApplication(id) \/ ClickDelete(id)
  PROVE  AppsGood'
  <1>0. AppsType /\ AreRequests(appReqs)
    BY DEF AppsGood, AppsType
  <1>1. /\ AreRequests(Unheard) /\ \A u \in DOMAIN Unheard : ~u.heard
        /\ ~ChangeUnderWay => DOMAIN Unheard = {}
    BY <1>0, UnheardRequests
  <1>2. Blank \in AppRecords
    BY DEF Blank, AppRecords, Ids, Names
  <1>3. CASE LeaveApplications
    <2>1. /\ appList' = Off /\ modal' = Off /\ appReqs' = Unheard /\ excused' = FALSE
          /\ stale' = FALSE /\ UNCHANGED <<apps, given>>
      BY <1>3 DEF LeaveApplications
    <2>2. AreRequests(appReqs)'
      BY <1>1, <2>1 DEF AreRequests
    <2>3. AppsType'
      BY <1>0, <2>1, <2>2 DEF AppsType
    <2>. QED BY <1>1, <2>1, <2>3 DEF AppsGood, HeardInv, CreatesInv, StoredInv
  <1>4. CASE OpenApplications
    <2> DEFINE asked == Request("list", NoApp, Blank)
    <2>1. /\ appList' = [loading |-> TRUE, error |-> FALSE, applications |-> {}] /\ modal' = Off
          /\ appReqs' = With(Unheard, asked) /\ excused' = FALSE
          /\ stale' = ChangeUnderWay /\ UNCHANGED <<apps, given>>
      BY <1>4 DEF OpenApplications
    <2>2. asked \in Requests /\ asked.kind = "list"
      BY <1>2 DEF Request, Requests, Kinds, Ids
    <2>3. ~IsUnderWay(asked)
      BY <2>2 DEF IsUnderWay, IsChange
    <2> HIDE DEF asked
    <2>4. AreRequests(appReqs)' /\ DOMAIN appReqs' = DOMAIN Unheard \cup {asked}
      <3>1. AreRequests(With(Unheard, asked)) /\ DOMAIN With(Unheard, asked) = DOMAIN Unheard \cup {asked}
        BY <1>1, <2>2, MoreRequests
      <3>. QED BY <2>1, <3>1 DEF AreRequests
    <2>5. stale' \in BOOLEAN
      BY <2>1 DEF ChangeUnderWay
    <2>6. AppsType'
      BY <1>0, <2>1, <2>4, <2>5 DEF AppsType
    <2>7. HeardInv'
      BY <1>1, <2>1, <2>2, <2>4 DEF HeardInv
    <2>8. CreatesInv'
      BY <2>1 DEF CreatesInv
    <2>9. ~stale' => ~ChangeUnderWay'
      <3>1. ASSUME ~ChangeUnderWay PROVE ~\E r \in DOMAIN appReqs' : IsUnderWay(r)
        BY <1>1, <2>3, <2>4, <3>1
      <3>. QED BY <2>1, <3>1 DEF ChangeUnderWay, IsUnderWay, IsChange
    <2>10. StoredInv'
      BY <2>1, <2>9 DEF StoredInv
    <2>. QED BY <2>6, <2>7, <2>8, <2>10 DEF AppsGood
  <1>5. ASSUME NEW kind \in {"edit", "delete"}, NEW id \in Ids, OpenModal(kind, id)
        PROVE  AppsGood'
    <2>1. /\ appList' = Off /\ excused' = FALSE /\ stale' = FALSE /\ made' = {}
          /\ modal' = [kind |-> kind, opened |-> id, id |-> id, loading |-> id # NoApp,
                       closed |-> FALSE, app |-> Blank]
          /\ UNCHANGED <<apps, given>>
      BY <1>5 DEF OpenModal
    <2>2. modal' \in ModalStates /\ modal'.opened = id /\ modal'.id = id
      BY <1>2, <2>1 DEF ModalStates
    <2>3. modal' # Off
      BY <2>2, ApplicationsAssumption
    <2>4. /\ AreRequests(appReqs)'
          /\ \A r \in DOMAIN appReqs' : r.heard =>
               r.kind = "read" /\ r.id # NoApp /\ r.answer # "ok" /\ id # NoApp
      <3>1. CASE id = NoApp
        <4>1. appReqs' = Unheard
          BY <1>5, <3>1 DEF OpenModal
        <4>. QED BY <1>1, <4>1 DEF AreRequests
      <3>2. CASE id # NoApp
        <4> DEFINE asked == Request("read", id, Blank)
        <4>1. appReqs' = With(Unheard, asked)
          BY <1>5, <3>2 DEF OpenModal
        <4>2. asked \in Requests /\ asked.kind = "read" /\ asked.id = id /\ asked.answer = "none"
          BY <1>2 DEF Request, Requests, Kinds
        <4> HIDE DEF asked
        <4>3. AreRequests(With(Unheard, asked)) /\ DOMAIN With(Unheard, asked) = DOMAIN Unheard \cup {asked}
          BY <1>1, <4>2, MoreRequests
        <4>4. AreRequests(appReqs)' /\ DOMAIN appReqs' = DOMAIN Unheard \cup {asked}
          BY <4>1, <4>3 DEF AreRequests
        <4>. QED BY <1>1, <3>2, <4>2, <4>4
      <3>. QED BY <3>1, <3>2
    <2>5. AppsType'
      BY <1>0, <2>1, <2>2, <2>4 DEF AppsType
    <2>6. HeardInv'
      BY <2>3, <2>4 DEF HeardInv
    <2>7. \A r \in DOMAIN appReqs' : ~IsAwaited(r)
      BY <2>4 DEF IsAwaited
    <2>8. CreatesInv'
      BY <2>1, <2>2, <2>4, <2>7 DEF CreatesInv, NoneAwaited, IsAwaited
    <2>9. StoredInv'
      BY <2>1 DEF StoredInv
    <2>. QED BY <2>5, <2>6, <2>8, <2>9 DEF AppsGood
  <1>6. CASE NewApplication
    BY <1>5, <1>6 DEF NewApplication, Ids
  <1>7. ASSUME NEW id \in Apps, EditApplication(id) \/ ClickDelete(id) PROVE AppsGood'
    <2>1. id \in Ids
      <3>1. MaxApps \in Nat
        BY ApplicationsAssumption
      <3>. QED BY <1>7, <3>1 DEF Apps, Ids
    <2>. QED BY <1>5, <1>7, <2>1 DEF EditApplication, ClickDelete
  <1>. QED BY <1>3, <1>4, <1>6, <1>7

\* Editing changes the application of the modal and nothing else.
LEMMA WriteStep ==
  ASSUME AppsGood,
         \/ \E name \in AppNames : SetAppName(name)
         \/ AddNewLocation
         \/ \E i \in 1 .. MaxLocations :
              ClickRemove(i) \/ \E origin \in AppNames : UpdateOrigin(i, origin)
  PROVE  AppsGood'
  <1>1. modal # Off /\ modal \in ModalStates /\ modal.app \in AppRecords
        /\ modal.app.locations \in Seq(Names)
    <2>1. modal # Off
      BY DEF SetAppName, AddNewLocation, ClickRemove, UpdateOrigin, ShowsLocation, ShowsInputs
    <2>. QED BY <2>1 DEF AppsGood, AppsType, ModalStates, AppRecords
  <1>2. ASSUME NEW app \in AppRecords, Write(app) PROVE AppsGood'
    <2>1. modal' = [modal EXCEPT !.app = app]
          /\ UNCHANGED <<appList, appReqs, apps, given, made, excused, stale>>
      BY <1>2 DEF Write
    <2>2. /\ modal' \in ModalStates /\ modal'.opened = modal.opened /\ modal'.id = modal.id
          /\ modal'.loading = modal.loading
      BY <1>1, <2>1 DEF ModalStates
    <2>3. modal' # Off
      BY <2>2, ApplicationsAssumption
    <2>4. ModalKept
      BY <1>1, <2>1, <2>2, <2>3 DEF ModalKept
    <2>5. ReqsKept
      <3>1. AreRequests(appReqs) /\ \A q \in DOMAIN appReqs : appReqs[q] \in Nat
        BY DEF AppsGood, AppsType, AreRequests
      <3>2. AreRequests(appReqs)'
        BY <2>1, <3>1 DEF AreRequests
      <3>3. \A q \in DOMAIN appReqs' : q \in DOMAIN appReqs /\ appReqs'[q] <= appReqs[q]
        BY <2>1, <3>1
      <3>. QED BY <3>2, <3>3, KeptRequests
    <2>. QED BY <2>1, <2>2, <2>4, <2>5, KeepingStep DEF AppsGood, AppsType
  <1>3. ASSUME NEW locations \in Seq(Names) PROVE [modal.app EXCEPT !.locations = locations] \in AppRecords
    BY <1>1 DEF AppRecords
  <1>4. ASSUME NEW name \in AppNames, SetAppName(name) PROVE AppsGood'
    <2>1. [modal.app EXCEPT !.name = name] \in AppRecords
      BY <1>1 DEF AppRecords, Names
    <2>. QED BY <1>2, <1>4, <2>1 DEF SetAppName
  <1>5. CASE AddNewLocation
    <2>1. Append(modal.app.locations, "") \in Seq(Names)
      <3>1. "" \in Names
        BY DEF Names
      <3>. QED BY <1>1, <3>1, AppendProperties
    <2>2. [modal.app EXCEPT !.locations = Append(@, "")] \in AppRecords
      BY <1>3, <2>1
    <2>. QED BY <1>2, <1>5, <2>2 DEF AddNewLocation
  <1>6. ASSUME NEW i \in 1 .. MaxLocations, ClickRemove(i) PROVE AppsGood'
    <2>1. i \in DOMAIN modal.app.locations
      BY <1>6 DEF ClickRemove, ShowsLocation
    <2>2. Without(modal.app.locations, i) \in Seq(Names)
      BY <1>1, <2>1, WithoutIn
    <2>3. [modal.app EXCEPT !.locations = Without(@, i)] \in AppRecords
      BY <1>3, <2>2
    <2>. QED BY <1>2, <1>6, <2>3 DEF ClickRemove, removeLocation
  <1>7. ASSUME NEW i \in 1 .. MaxLocations, NEW origin \in AppNames, UpdateOrigin(i, origin)
        PROVE  AppsGood'
    <2>1. [modal.app.locations EXCEPT ![i] = origin] \in Seq(Names)
      <3>1. origin \in Names /\ i \in DOMAIN modal.app.locations
        BY <1>7 DEF Names, UpdateOrigin, ShowsLocation
      <3>. QED BY <1>1, <3>1, ExceptSeq
    <2>2. [modal.app EXCEPT !.locations[i] = origin] \in AppRecords
      BY <1>3, <2>1
    <2>. QED BY <1>2, <1>7, <2>2 DEF UpdateOrigin, updateLocation
  <1>. QED BY <1>4, <1>5, <1>6, <1>7

\* Save and Confirm ask for a change; a Save that is excused aside, one that creates is
\* clicked when nothing has been asked for.
LEMMA AskStep ==
  ASSUME AppsGood, modal # Off, NEW asked \in Requests,
         asked.heard, IsChange(asked), appReqs' = With(appReqs, asked),
         modal' \in ModalStates, modal' # Off, modal'.opened = modal.opened,
         modal'.id = modal.id, modal.loading => modal'.loading,
         UNCHANGED <<appList, apps, given, made, stale>>, excused' \in BOOLEAN,
         ~excused' => ~excused,
         ~excused' /\ asked.kind = "create" =>
           modal.id = NoApp /\ ~modal.loading /\ modal'.loading
  PROVE  AppsGood'
  <1>1. AreRequests(appReqs)
    BY DEF AppsGood, AppsType
  <1>2. /\ AreRequests(appReqs)' /\ DOMAIN appReqs' = DOMAIN appReqs \cup {asked}
        /\ \A q \in DOMAIN appReqs : q # asked => appReqs'[q] = appReqs[q]
        /\ asked \notin DOMAIN appReqs => appReqs'[asked] = 1
    <2>1. /\ AreRequests(With(appReqs, asked))
          /\ DOMAIN With(appReqs, asked) = DOMAIN appReqs \cup {asked}
          /\ \A q \in DOMAIN appReqs : q # asked => With(appReqs, asked)[q] = appReqs[q]
          /\ asked \notin DOMAIN appReqs => With(appReqs, asked)[asked] = 1
      BY <1>1, MoreRequests
    <2>. QED BY <2>1 DEF AreRequests
  <1>3. AppsType'
    BY <1>2 DEF AppsGood, AppsType
  <1>4. HeardInv'
    <2>1. asked.kind # "list" /\ asked.kind # "read"
      BY DEF IsChange
    <2>2. ASSUME NEW r \in DOMAIN appReqs', r.heard
          PROVE  /\ r.kind = "list" => modal' = Off
                 /\ r.kind # "list" => modal' # Off
                 /\ r.kind = "read" => r.id # NoApp /\ (r.answer = "ok" => r.app.id = r.id)
      <3>1. CASE r = asked
        BY <2>1, <3>1
      <3>2. CASE r # asked
        BY <1>2, <2>2, <3>2 DEF AppsGood, HeardInv
      <3>. QED BY <3>1, <3>2
    <2>. QED BY <2>2 DEF HeardInv
  <1>5. CreatesInv'
    <2>1. SUFFICES ASSUME ~excused'
                   PROVE  /\ modal.opened = NoApp =>
                               /\ \A r \in DOMAIN appReqs' : r.heard => r.kind # "read"
                               /\ \A r \in DOMAIN appReqs' : IsAwaited(r) =>
                                    appReqs'[r] = 1
                                      /\ \A q \in DOMAIN appReqs' : IsAwaited(q) => q = r
                               /\ made # {} => NoneAwaited' /\ \E id \in Nat : made = {id}
                               /\ ~modal'.loading => made = {} /\ NoneAwaited'
                          /\ modal.opened # NoApp =>
                               made = {} /\ modal.id # NoApp /\ NoneAwaited'
      BY DEF CreatesInv, IsAwaited
    <2>2. CASE asked.kind = "create"
      <3>1. modal.id = NoApp /\ ~modal.loading /\ modal'.loading /\ ~excused
        BY <2>1, <2>2
      <3>2. /\ modal.opened = NoApp /\ made = {} /\ NoneAwaited
            /\ \A r \in DOMAIN appReqs : r.heard => r.kind # "read"
        BY <3>1 DEF AppsGood, CreatesInv
      <3>3. \A r \in DOMAIN appReqs' : IsAwaited(r) => r = asked /\ asked \notin DOMAIN appReqs
        BY <1>2, <3>2 DEF NoneAwaited
      <3>4. \A r \in DOMAIN appReqs' : IsAwaited(r) => appReqs'[r] = 1
        BY <1>2, <3>3
      <3>5. \A r \in DOMAIN appReqs' : r.heard => r.kind # "read"
        BY <1>2, <2>2, <3>2
      <3>. QED BY <3>1, <3>2, <3>3, <3>4, <3>5
    <2>3. CASE asked.kind # "create"
      <3>1. ~IsAwaited(asked) /\ asked.kind # "read"
        BY <2>3 DEF IsAwaited, IsChange
      <3>2. \A r \in DOMAIN appReqs' : IsAwaited(r) => r \in DOMAIN appReqs /\ appReqs'[r] = appReqs[r]
        BY <1>2, <3>1
      <3>3. NoneAwaited => NoneAwaited'
        BY <3>2 DEF NoneAwaited, IsAwaited
      <3>4. (\A r \in DOMAIN appReqs : r.heard => r.kind # "read") =>
              \A r \in DOMAIN appReqs' : r.heard => r.kind # "read"
        BY <1>2, <3>1
      <3>5. ~excused /\ CreatesInv
        BY <2>1 DEF AppsGood
      <3>6. CASE modal.opened = NoApp
        <4>1. /\ \A r \in DOMAIN appReqs : r.heard => r.kind # "read"
              /\ \A r \in DOMAIN appReqs : IsAwaited(r) =>
                   appReqs[r] = 1 /\ \A q \in DOMAIN appReqs : IsAwaited(q) => q = r
              /\ made # {} => NoneAwaited /\ \E id \in Nat : made = {id}
              /\ ~modal.loading => made = {} /\ NoneAwaited
          BY <3>5, <3>6 DEF CreatesInv
        <4>2. \A r \in DOMAIN appReqs' : IsAwaited(r) =>
                appReqs'[r] = 1 /\ \A q \in DOMAIN appReqs' : IsAwaited(q) => q = r
          BY <3>2, <4>1
        <4>. QED BY <3>3, <3>4, <3>6, <4>1, <4>2
      <3>7. CASE modal.opened # NoApp
        <4>1. made = {} /\ modal.id # NoApp /\ NoneAwaited
          BY <3>5, <3>7 DEF CreatesInv
        <4>. QED BY <3>3, <3>7, <4>1
      <3>. QED BY <3>6, <3>7
    <2>. QED BY <2>2, <2>3
  <1>6. StoredInv'
    BY DEF AppsGood, StoredInv
  <1>. QED BY <1>3, <1>4, <1>5, <1>6 DEF AppsGood

\* The user asks for a change.
LEMMA ChangeStep ==
  ASSUME AppsGood, Save \/ ConfirmDelete
  PROVE  AppsGood'
  <1>1. modal # Off /\ modal \in ModalStates /\ modal.app \in AppRecords /\ modal.id \in Ids
        /\ modal.app.id \in Ids /\ modal.loading \in BOOLEAN /\ excused \in BOOLEAN
    <2>1. modal # Off
      BY DEF Save, ConfirmDelete, ShowsDelete
    <2>. QED BY <2>1 DEF AppsGood, AppsType, ModalStates, AppRecords
  <1>2. ASSUME NEW kind \in {"create", "update", "delete"}, NEW id \in Ids
        PROVE  LET asked == Request(kind, id, modal.app)
               IN  asked \in Requests /\ asked.heard /\ IsChange(asked) /\ asked.kind = kind
    BY <1>1 DEF Request, Requests, Kinds, IsChange
  <1>3. CASE Save
    <2>1. /\ modal' = [modal EXCEPT !.loading = TRUE] /\ excused' = (excused \/ modal.loading)
          /\ UNCHANGED <<appList, apps, given, made, stale>>
      BY <1>3 DEF Save
    <2>2. /\ modal' \in ModalStates /\ modal'.opened = modal.opened /\ modal'.id = modal.id
          /\ modal'.loading
      BY <1>1, <2>1 DEF ModalStates
    <2>3. modal' # Off
      BY <2>2, ApplicationsAssumption
    <2>4. excused' \in BOOLEAN /\ (~excused' => ~excused /\ ~modal.loading)
      BY <1>1, <2>1
    <2>5. CASE modal.id = NoApp
      <3> DEFINE asked == Request("create", NoApp, modal.app)
      <3>1. appReqs' = With(appReqs, asked)
        BY <1>3, <2>5 DEF Save, Send
      <3>2. asked \in Requests /\ asked.heard /\ IsChange(asked)
        BY <1>2 DEF Ids
      <3> HIDE DEF asked
      <3>. QED BY <1>1, <2>1, <2>2, <2>3, <2>4, <2>5, <3>1, <3>2, AskStep
    <2>6. CASE modal.id # NoApp
      <3> DEFINE asked == Request("update", modal.id, modal.app)
      <3>1. appReqs' = With(appReqs, asked)
        BY <1>3, <2>6 DEF Save, Send
      <3>2. asked \in Requests /\ asked.heard /\ IsChange(asked) /\ asked.kind = "update"
        BY <1>1, <1>2
      <3> HIDE DEF asked
      <3>. QED BY <1>1, <2>1, <2>2, <2>3, <2>4, <3>1, <3>2, AskStep
    <2>. QED BY <2>5, <2>6
  <1>4. CASE ConfirmDelete
    <2> DEFINE asked == Request("delete", modal.app.id, modal.app)
    <2>1. appReqs' = With(appReqs, asked)
          /\ UNCHANGED <<appList, modal, apps, given, made, excused, stale>>
      BY <1>4 DEF ConfirmDelete, Send
    <2>2. asked \in Requests /\ asked.heard /\ IsChange(asked) /\ asked.kind = "delete"
      BY <1>1, <1>2
    <2> HIDE DEF asked
    <2>3. /\ modal' \in ModalStates /\ modal' # Off /\ modal'.opened = modal.opened
          /\ modal'.id = modal.id /\ modal'.loading = modal.loading /\ excused' \in BOOLEAN
          /\ excused' = excused
      BY <1>1, <2>1
    <2>. QED BY <1>1, <2>1, <2>2, <2>3, AskStep
  <1>. QED BY <1>3, <1>4

\* A modal that stays as it is.
LEMMA SameModal ==
  ASSUME AppsType, UNCHANGED <<modal, excused>>
  PROVE  ModalKept /\ (modal' # Off => modal' \in ModalStates) /\ excused' \in BOOLEAN
  BY DEF AppsType, ModalKept

\* The server makes a new application.
LEMMA CreateStep ==
  ASSUME AppsGood, NEW r \in DOMAIN appReqs, ServeCreate(r)
  PROVE  AppsGood'
  <1>1. /\ AppsType /\ HeardInv /\ CreatesInv /\ StoredInv /\ AreRequests(appReqs)
        /\ r \in Requests /\ r.app \in AppRecords
    BY DEF AppsGood, AppsType, AreRequests, Requests
  <1>2. /\ given' = given + 1 /\ apps' = apps \cup {[r.app EXCEPT !.id = given']}
        /\ Reply(r, "ok", r.app) /\ made' = (IF r.heard THEN made \cup {given'} ELSE made)
        /\ r.kind = "create" /\ r.answer = "none"
        /\ UNCHANGED <<appList, modal, excused, stale>>
    BY DEF ServeCreate
  <1>3. ReqsKept
    BY <1>1, <1>2, RepliedKept
  <1>4. ModalKept /\ (modal' # Off => modal' \in ModalStates) /\ excused' \in BOOLEAN
    BY <1>1, <1>2, SameModal
  <1>5. given' \in Nat
    BY <1>1, <1>2 DEF AppsType
  <1>6. apps' \subseteq AppRecords
    <2>1. [r.app EXCEPT !.id = given'] \in AppRecords
      BY <1>1, <1>5 DEF AppRecords, Ids
    <2>. QED BY <1>1, <1>2, <2>1 DEF AppsType
  <1>7. AppsType'
    BY <1>1, <1>2, <1>3, <1>4, <1>5, <1>6 DEF AppsType, ReqsKept
  <1>8. StoredInv'
    <2>1. ChangeUnderWay
      BY <1>2 DEF ChangeUnderWay, IsUnderWay, IsChange
    <2>. QED BY <1>1, <1>2, <1>3, <1>4, <2>1, StoredStep
  <1>9. HeardInv'
    BY <1>1, <1>3, <1>4, HeardStep
  <1>10. CreatesInv'
    <2>1. CASE ~r.heard
      BY <1>1, <1>2, <1>3, <1>4, <2>1, ModalStep
    <2>2. CASE r.heard
      <3>1. IsAwaited(r)
        BY <1>2, <2>2 DEF IsAwaited
      <3>2. SUFFICES ASSUME modal # Off, ~excused
                     PROVE  /\ modal.opened = NoApp
                            /\ \A q \in DOMAIN appReqs' : q.heard => q.kind # "read"
                            /\ NoneAwaited' /\ made' = {given'} /\ modal.loading
        BY <1>2, <1>5 DEF CreatesInv, NoneAwaited, IsAwaited
      <3>3. modal.opened = NoApp
        BY <1>1, <3>1, <3>2 DEF CreatesInv, NoneAwaited
      <3>4. /\ \A q \in DOMAIN appReqs : q.heard => q.kind # "read"
            /\ \A q \in DOMAIN appReqs : IsAwaited(q) => q = r
            /\ appReqs[r] = 1 /\ made = {} /\ modal.loading
        BY <1>1, <3>1, <3>2, <3>3 DEF CreatesInv, NoneAwaited
      <3>5. r \notin DOMAIN appReqs'
        <4> DEFINE reply == [r EXCEPT !.answer = "ok", !.app = r.app]
        <4>1. appReqs' = With(Less(r), reply)
          BY <1>2, <2>2 DEF Reply
        <4>2. reply \in Requests /\ reply.answer = "ok"
          BY <1>1 DEF Requests
        <4> HIDE DEF reply
        <4>3. AreRequests(Less(r)) /\ r \notin DOMAIN Less(r)
          BY <1>1, <3>4, LessRequests
        <4>4. DOMAIN With(Less(r), reply) = DOMAIN Less(r) \cup {reply}
          BY <4>2, <4>3, MoreRequests
        <4>5. r # reply
          BY <1>2, <4>2
        <4>. QED BY <4>1, <4>3, <4>4, <4>5
      <3>6. NoneAwaited'
        <4>1. \A q \in DOMAIN appReqs' : IsAwaited(q) => q \in DOMAIN appReqs
          BY <1>3 DEF ReqsKept
        <4>2. \A q \in DOMAIN appReqs' : ~IsAwaited(q)
          BY <3>4, <3>5, <4>1
        <4>. QED BY <4>2 DEF NoneAwaited, IsAwaited
      <3>7. \A q \in DOMAIN appReqs' : q.heard => q.kind # "read"
        BY <1>3, <3>4 DEF ReqsKept
      <3>8. made' = {given'}
        BY <1>2, <2>2, <3>4
      <3>. QED BY <3>3, <3>4, <3>6, <3>7, <3>8
    <2>. QED BY <2>1, <2>2
  <1>. QED BY <1>7, <1>8, <1>9, <1>10 DEF AppsGood

\* The server serves another request.
LEMMA ServeStep ==
  ASSUME AppsGood, NEW r \in DOMAIN appReqs,
         ServeReadApp(r) \/ ServeUpdateApp(r) \/ ServeDelete(r)
  PROVE  AppsGood'
  <1>1. /\ AppsType /\ AreRequests(appReqs) /\ apps \subseteq AppRecords
        /\ r \in Requests /\ r.app \in AppRecords
    BY DEF AppsGood, AppsType, AreRequests, Requests
  <1>2. UNCHANGED <<appList, modal, given, made, excused, stale>>
    BY DEF ServeReadApp, ServeUpdateApp, ServeDelete
  <1>3. ModalKept /\ (modal' # Off => modal' \in ModalStates) /\ excused' \in BOOLEAN
    BY <1>1, <1>2, SameModal
  <1>4. ASSUME ReqsKept, apps' \subseteq AppRecords, ChangeUnderWay \/ UNCHANGED apps
        PROVE  AppsGood'
    BY <1>2, <1>3, <1>4, KeepingStep
  <1>5. CASE ServeReadApp(r)
    <2>1. UNCHANGED apps
      BY <1>5 DEF ServeReadApp
    <2>2. CASE r.id \in Stored
      <3> DEFINE found == CHOOSE a \in apps : a.id = r.id
      <3>1. Reply(r, "ok", found)
        BY <1>5, <2>2 DEF ServeReadApp
      <3>2. \E a \in apps : a.id = r.id
        BY <2>2 DEF Stored
      <3>3. found \in apps /\ found.id = r.id
        BY <3>2
      <3> HIDE DEF found
      <3>4. ReqsKept
        BY <1>1, <3>1, <3>3, RepliedKept
      <3>. QED BY <1>1, <1>4, <2>1, <3>4
    <2>3. CASE r.id \notin Stored
      <3>1. Reply(r, "refused", Blank)
        BY <1>5, <2>3 DEF ServeReadApp
      <3>2. Blank \in AppRecords
        BY DEF Blank, AppRecords, Ids, Names
      <3>3. ReqsKept
        BY <1>1, <3>1, <3>2, RepliedKept
      <3>. QED BY <1>1, <1>4, <2>1, <3>3
    <2>. QED BY <2>2, <2>3
  <1>6. CASE ServeUpdateApp(r)
    <2>1. r.kind = "update" /\ r.answer = "none" /\ ChangeUnderWay
      BY <1>6 DEF ServeUpdateApp, ChangeUnderWay, IsUnderWay, IsChange
    <2>2. CASE r.app.id = r.id /\ r.id \in Stored
      <3>1. Reply(r, "ok", r.app) /\ apps' = {a \in apps : a.id # r.id} \cup {r.app}
        BY <1>6, <2>2 DEF ServeUpdateApp
      <3>2. ReqsKept
        BY <1>1, <2>1, <3>1, RepliedKept
      <3>. QED BY <1>1, <1>4, <2>1, <3>1, <3>2
    <2>3. CASE ~(r.app.id = r.id /\ r.id \in Stored)
      <3>1. Reply(r, "refused", r.app) /\ UNCHANGED apps
        BY <1>6, <2>3 DEF ServeUpdateApp
      <3>2. ReqsKept
        BY <1>1, <2>1, <3>1, RepliedKept
      <3>. QED BY <1>1, <1>4, <3>1, <3>2
    <2>. QED BY <2>2, <2>3
  <1>7. CASE ServeDelete(r)
    <2>1. r.kind = "delete" /\ r.answer = "none" /\ ChangeUnderWay
      BY <1>7 DEF ServeDelete, ChangeUnderWay, IsUnderWay, IsChange
    <2>2. PICK answered \in {"ok", "refused"} : Reply(r, answered, r.app)
      BY <1>7 DEF ServeDelete
    <2>3. ReqsKept
      BY <1>1, <2>1, <2>2, RepliedKept
    <2>4. apps' \subseteq AppRecords
      BY <1>1, <1>7 DEF ServeDelete
    <2>. QED BY <1>4, <2>1, <2>3, <2>4
  <1>. QED BY <1>5, <1>6, <1>7

\* The list is answered.
LEMMA ListStep ==
  ASSUME AppsGood, NEW r \in DOMAIN appReqs, AnswerListApps(r)
  PROVE  AppsGood'
  <1>1. AppsType /\ HeardInv /\ CreatesInv /\ StoredInv /\ AreRequests(appReqs) /\ stale \in BOOLEAN
    BY DEF AppsGood, AppsType
  <1>2. /\ r.kind = "list" /\ appReqs' = Less(r)
        /\ appList' = (IF r.heard THEN [loading |-> FALSE, error |-> FALSE, applications |-> Stored]
                       ELSE appList)
        /\ stale' = (stale \/ ChangeUnderWay)
        /\ UNCHANGED <<modal, apps, given, made, excused>>
    BY DEF AnswerListApps, Answered
  <1>3. ReqsKept
    BY <1>1, <1>2, AnsweredKept
  <1>4. ModalKept /\ (modal' # Off => modal' \in ModalStates) /\ excused' \in BOOLEAN
    BY <1>1, <1>2, SameModal
  <1>5. HeardInv' /\ CreatesInv'
    BY <1>1, <1>2, <1>3, <1>4, ModalStep
  <1>6. AppsType'
    BY <1>1, <1>2, <1>3, <1>4 DEF AppsType, ReqsKept, ChangeUnderWay
  <1>7. StoredInv'
    <2>1. SUFFICES ASSUME appList' # Off, ~stale', ~appList'.error
                   PROVE  /\ modal' = Off /\ ~ChangeUnderWay'
                          /\ ~appList'.loading => appList'.applications = Stored'
      BY DEF StoredInv
    <2>2. ~stale /\ ~ChangeUnderWay /\ Stored' = Stored
      BY <1>2, <2>1 DEF Stored
    <2>3. ~ChangeUnderWay'
      BY <1>3, <2>2 DEF ReqsKept, ChangeUnderWay, IsUnderWay, IsChange
    <2>4. CASE r.heard
      <3>1. modal = Off
        BY <1>1, <1>2, <2>4 DEF HeardInv
      <3>. QED BY <1>2, <2>2, <2>3, <2>4, <3>1
    <2>5. CASE ~r.heard
      <3>1. appList' = appList
        BY <1>2, <2>5
      <3>. QED BY <1>1, <1>2, <2>1, <2>2, <2>3, <3>1 DEF StoredInv
    <2>. QED BY <2>4, <2>5
  <1>. QED BY <1>5, <1>6, <1>7 DEF AppsGood

\* A request is answered to the modal, or lost.
LEMMA AnswerStep ==
  ASSUME AppsGood, NEW r \in DOMAIN appReqs,
         \/ AnswerRead(r) \/ AnswerChange(r)
         \/ RefuseSave(r) \/ RefuseRead(r) \/ RefuseDelete(r) \/ LoseRequest(r)
  PROVE  AppsGood'
  <1>1. /\ AppsType /\ HeardInv /\ CreatesInv /\ StoredInv /\ AreRequests(appReqs)
        /\ apps \subseteq AppRecords /\ excused \in BOOLEAN
        /\ r \in Requests /\ r.id \in Ids /\ r.app \in AppRecords /\ r.app.id \in Ids
    BY DEF AppsGood, AppsType, AreRequests, Requests, AppRecords
  <1>2. appReqs' = Less(r) /\ UNCHANGED <<apps, given, made, stale>>
    BY DEF AnswerRead, AnswerChange, RefuseSave, RefuseRead, RefuseDelete, LoseRequest, Answered
  <1>3. ReqsKept
    BY <1>1, <1>2, AnsweredKept
  <1>4. ASSUME ModalKept, UNCHANGED appList, modal' # Off => modal' \in ModalStates,
               excused' \in BOOLEAN
        PROVE  AppsGood'
    BY <1>1, <1>2, <1>3, <1>4, KeepingStep
  <1>5. ASSUME UNCHANGED <<appList, modal, excused>> PROVE AppsGood'
    BY <1>1, <1>4, <1>5, SameModal
  <1>6. ASSUME r.heard, r.kind # "list" PROVE modal # Off /\ modal \in ModalStates
    BY <1>1, <1>6 DEF HeardInv, AppsType
  <1>7. ASSUME NEW closed \in ModalStates, modal' = closed, modal # Off, modal \in ModalStates,
               closed.opened = modal.opened, closed.id = modal.id, closed.loading = modal.loading,
               UNCHANGED <<appList, excused>>
        PROVE  AppsGood'
    <2>1. modal' # Off
      BY <1>7, ApplicationsAssumption
    <2>2. ModalKept
      BY <1>7, <2>1 DEF ModalKept
    <2>. QED BY <1>1, <1>4, <1>7, <2>2
  <1>8. ASSUME r.heard, r.kind # "list", modal' = [modal EXCEPT !.closed = TRUE],
               UNCHANGED <<appList, excused>>
        PROVE  AppsGood'
    <2>1. modal # Off /\ modal \in ModalStates
      BY <1>6, <1>8
    <2>2. modal' \in ModalStates /\ modal'.opened = modal.opened /\ modal'.id = modal.id
          /\ modal'.loading = modal.loading
      BY <1>8, <2>1 DEF ModalStates
    <2>. QED BY <1>7, <1>8, <2>1, <2>2
  <1>9. ASSUME FailedSave(r), r.kind \in {"create", "update"}, UNCHANGED appList PROVE AppsGood'
    <2>1. CASE r.heard
      <3>1. modal # Off /\ modal \in ModalStates
        BY <1>6, <1>9, <2>1
      <3>2. modal' = [modal EXCEPT !.loading = FALSE, !.id = NoApp, !.app = r.app] /\ excused' = TRUE
        BY <1>9, <2>1 DEF FailedSave
      <3>3. modal' \in ModalStates /\ modal'.opened = modal.opened
        BY <1>1, <3>1, <3>2 DEF ModalStates, Ids
      <3>4. modal' # Off
        BY <3>3, ApplicationsAssumption
      <3>5. ModalKept
        BY <3>1, <3>2, <3>3, <3>4 DEF ModalKept
      <3>. QED BY <1>4, <1>9, <3>2, <3>3, <3>5
    <2>2. CASE ~r.heard
      <3>1. UNCHANGED <<modal, excused>>
        BY <1>1, <1>9, <2>2 DEF FailedSave
      <3>. QED BY <1>5, <1>9, <3>1
    <2>. QED BY <2>1, <2>2
  <1>10. CASE AnswerRead(r)
    <2>1. /\ r.kind = "read" /\ r.answer = "ok" /\ UNCHANGED <<appList, excused>>
          /\ modal' = (IF r.heard THEN Loaded(r.app) ELSE modal)
      BY <1>10 DEF AnswerRead, Answered
    <2>2. CASE r.heard
      <3>1. modal # Off /\ modal \in ModalStates
        BY <1>6, <2>1, <2>2
      <3>2. r.app.id # NoApp
        BY <1>1, <2>1, <2>2 DEF HeardInv
      <3>3. modal' = [modal EXCEPT !.loading = FALSE, !.app = r.app, !.id = r.app.id]
        BY <2>1, <2>2 DEF Loaded
      <3>4. modal' \in ModalStates /\ modal'.opened = modal.opened /\ modal'.id = r.app.id
        BY <1>1, <3>1, <3>3 DEF ModalStates
      <3>5. modal' # Off
        BY <3>4, ApplicationsAssumption
      <3>6. ~excused => modal.opened # NoApp
        BY <1>1, <2>1, <2>2, <3>1 DEF CreatesInv
      <3>7. ModalKept
        BY <2>1, <3>1, <3>2, <3>4, <3>5, <3>6 DEF ModalKept
      <3>. QED BY <1>1, <1>4, <2>1, <3>4, <3>7
    <2>3. CASE ~r.heard
      BY <1>5, <2>1, <2>3
    <2>. QED BY <2>2, <2>3
  <1>11. CASE AnswerChange(r)
    <2>1. /\ r.kind # "list" /\ UNCHANGED <<appList, excused>>
          /\ modal' = (IF r.heard THEN [modal EXCEPT !.closed = TRUE] ELSE modal)
      BY <1>11 DEF AnswerChange, SucceededModal, IsChange
    <2>. QED BY <1>5, <1>8, <2>1
  <1>12. CASE RefuseSave(r)
    BY <1>9, <1>12 DEF RefuseSave
  <1>13. CASE RefuseRead(r)
    <2>1. /\ r.kind # "list" /\ UNCHANGED <<appList, excused>>
          /\ modal' = (IF r.heard THEN [modal EXCEPT !.closed = TRUE] ELSE modal)
      BY <1>13 DEF RefuseRead
    <2>. QED BY <1>5, <1>8, <2>1
  <1>14. CASE RefuseDelete(r)
    BY <1>5, <1>14 DEF RefuseDelete
  <1>15. CASE LoseRequest(r)
    <2>1. CASE Heard(r, "list")
      <3>1. appList' = ListFailed /\ UNCHANGED <<modal, excused>>
        BY <1>15, <2>1 DEF LoseRequest, Heard
      <3>2. ModalKept /\ (modal' # Off => modal' \in ModalStates) /\ excused' \in BOOLEAN
        BY <1>1, <3>1, SameModal
      <3>3. HeardInv' /\ CreatesInv'
        BY <1>1, <1>2, <1>3, <3>2, ModalStep
      <3>4. AppsType'
        BY <1>1, <1>2, <1>3, <3>2 DEF AppsType, ReqsKept
      <3>5. StoredInv'
        BY <3>1 DEF StoredInv, ListFailed
      <3>. QED BY <3>3, <3>4, <3>5 DEF AppsGood
    <2>2. CASE Heard(r, "read")
      <3>1. modal' = [modal EXCEPT !.closed = TRUE] /\ UNCHANGED <<appList, excused>>
        BY <1>15, <2>2 DEF LoseRequest, Heard
      <3>. QED BY <1>8, <2>2, <3>1 DEF Heard
    <2>3. CASE r.kind \in {"create", "update"}
      <3>1. FailedSave(r) /\ UNCHANGED appList
        BY <1>15, <2>3 DEF LoseRequest, Heard
      <3>. QED BY <1>9, <2>3, <3>1
    <2>4. CASE ~Heard(r, "list") /\ ~Heard(r, "read") /\ r.kind \notin {"create", "update"}
      <3>1. UNCHANGED <<appList, modal, excused>>
        BY <1>15, <2>4 DEF LoseRequest
      <3>. QED BY <1>5, <3>1
    <2>. QED BY <2>1, <2>2, <2>3, <2>4
  <1>. QED BY <1>10, <1>11, <1>12, <1>13, <1>14, <1>15

\* Whatever happens on the page.
LEMMA ApplicationsStep ==
  ASSUME AppsGood, [ApplicationsNext]_applicationsVars
  PROVE  AppsGood'
  <1>1. CASE ApplicationsUser
    BY <1>1, RouteStep, WriteStep, ChangeStep DEF ApplicationsUser, CloseApplication
  <1>2. CASE ApplicationsAnswers
    <2>1. PICK r \in DOMAIN appReqs :
            \/ ServeReadApp(r) \/ ServeCreate(r) \/ ServeUpdateApp(r) \/ ServeDelete(r)
            \/ AnswerListApps(r) \/ AnswerRead(r) \/ AnswerChange(r)
            \/ RefuseSave(r) \/ RefuseRead(r) \/ RefuseDelete(r) \/ LoseRequest(r)
      BY <1>2 DEF ApplicationsAnswers
    <2>. QED BY <2>1, CreateStep, ServeStep, ListStep, AnswerStep
  <1>3. CASE UNCHANGED applicationsVars
    BY <1>3 DEF applicationsVars, AppsGood, AppsType, AreRequests, HeardInv, CreatesInv,
                NoneAwaited, IsAwaited, StoredInv, ChangeUnderWay, IsUnderWay, IsChange, Stored
  <1>. QED BY <1>1, <1>2, <1>3 DEF ApplicationsNext

\* The invariant says what is promised.
LEMMA ApplicationsPromise ==
  ASSUME AppsGood
  PROVE  ApplicationsAreAsAsked
  <1>1. SavesOnce
    <2>1. SUFFICES ASSUME modal # Off, ~excused
                   PROVE  Cardinality(made) <= IF modal.opened = NoApp THEN 1 ELSE 0
      BY DEF SavesOnce
    <2>2. Cardinality({}) = 0 /\ \A id : Cardinality({id}) = 1
      BY FS_EmptySet, FS_Singleton
    <2>3. CASE modal.opened = NoApp
      <3>1. made = {} \/ \E id \in Nat : made = {id}
        BY <2>1, <2>3 DEF AppsGood, CreatesInv
      <3>2. Cardinality(made) = 0 \/ Cardinality(made) = 1
        BY <2>2, <3>1
      <3>. QED BY <2>3, <3>2
    <2>4. CASE modal.opened # NoApp
      <3>1. made = {}
        BY <2>1, <2>4 DEF AppsGood, CreatesInv
      <3>. QED BY <2>2, <2>4, <3>1
    <2>. QED BY <2>3, <2>4
  <1>2. ListIsOfServer
    BY DEF AppsGood, StoredInv, ListIsOfServer
  <1>. QED BY <1>1, <1>2 DEF ApplicationsAreAsAsked

\* ApplicationsPage.tsx and its dialogs, for any number of applications and requests, copies
\* of one request included: one opening of a form creates one application at most, of one
\* that edits none, save for the two cases the form leaves open; and a list that is shown
\* is that of the server when nothing changed while it was loaded.
THEOREM ApplicationsAsAsked == Spec => []ApplicationsAreAsAsked
  <1>1. Init => AppsGood
    <2>1. ASSUME ApplicationsInit PROVE AppsGood
      <3>1. /\ appList = Off /\ modal = Off /\ apps = {} /\ given = 0
            /\ excused = FALSE /\ stale = FALSE
        BY <2>1 DEF ApplicationsInit
      <3>2. appReqs = [e \in {} |-> 1]
        BY <2>1 DEF ApplicationsInit, EmptyBag, SetToBag
      <3>3. DOMAIN appReqs = {} /\ AreRequests(appReqs)
        BY <3>2 DEF AreRequests
      <3>. QED BY <3>1, <3>3 DEF AppsGood, AppsType, HeardInv, CreatesInv, StoredInv
    <2>. QED BY <2>1 DEF Init
  <1>2. AppsGood /\ [Next]_managingVars => AppsGood'
    BY ApplicationsStep, PageSteps
  <1>3. AppsGood => ApplicationsAreAsAsked
    BY ApplicationsPromise
  <1>. QED BY <1>1, <1>2, <1>3, PTL DEF Spec
==============================================================================
