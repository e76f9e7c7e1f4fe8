------------------------------- MODULE Managing ------------------------------
(***************************************************************************)
(* The pages with which files, applications, terms, attributes and the     *)
(* account are managed, and what surrounds every page: the session, the    *)
(* navigation, the service worker and the notices.  As in Browsing, a      *)
(* behaviour is about one of them, for they share no state.                *)
(***************************************************************************)
EXTENDS FilesPage, Applications, Account, Terms, Attributes, Session, Navigation,
        Worker, Notices

VARIABLE visited     \* the page, or the part of the shell

managingVars ==
  <<visited, filesVars, applicationsVars, accountVars, termsVars,
    attributesVars, sessionVars, navigationVars, workerVars, noticesVars>>

Visits == {"files", "applications", "account", "terms", "attributes", "session",
           "navigation", "worker", "notices"}

\* A step of what is visited.
Visit(page, move, others) == visited = page /\ move /\ UNCHANGED <<visited, others>>

OffFiles ==
  <<applicationsVars, accountVars, termsVars, attributesVars, sessionVars,
    navigationVars, workerVars, noticesVars>>
OffApplications ==
  <<filesVars, accountVars, termsVars, attributesVars, sessionVars,
    navigationVars, workerVars, noticesVars>>
OffAccount ==
  <<filesVars, applicationsVars, termsVars, attributesVars, sessionVars,
    navigationVars, workerVars, noticesVars>>
OffTerms ==
  <<filesVars, applicationsVars, accountVars, attributesVars, sessionVars,
    navigationVars, workerVars, noticesVars>>
OffAttributes ==
  <<filesVars, applicationsVars, accountVars, termsVars, sessionVars,
    navigationVars, workerVars, noticesVars>>
OffSession ==
  <<filesVars, applicationsVars, accountVars, termsVars, attributesVars,
    navigationVars, workerVars, noticesVars>>
OffNavigation ==
  <<filesVars, applicationsVars, accountVars, termsVars, attributesVars,
    sessionVars, workerVars, noticesVars>>
OffWorker ==
  <<filesVars, applicationsVars, accountVars, termsVars, attributesVars,
    sessionVars, navigationVars, noticesVars>>
OffNotices ==
  <<filesVars, applicationsVars, accountVars, termsVars, attributesVars,
    sessionVars, navigationVars, workerVars>>

\* What is not visited starts in one way.
AsVisited ==
  /\ visited # "terms" => termsStored = {}
  /\ visited # "attributes" => DOMAIN attributes = {}
  /\ visited # "session" => ~keptUser /\ ~idSession
  /\ visited # "navigation" => window.wide
  /\ visited # "worker" => isLocalhost /\ deployed = NoWorker

Init ==
  /\ visited \in Visits
  /\ FilesInit /\ ApplicationsInit /\ AccountInit /\ TermsInit
  /\ AttributesInit /\ SessionInit /\ NavigationInit /\ WorkerInit /\ NoticesInit
  /\ AsVisited

Next ==
  \/ Visit("files", FilesNext, OffFiles)
  \/ Visit("applications", ApplicationsNext, OffApplications)
  \/ Visit("account", AccountNext, OffAccount)
  \/ Visit("terms", TermsNext, OffTerms)
  \/ Visit("attributes", AttributesNext, OffAttributes)
  \/ Visit("session", SessionNext, OffSession)
  \/ Visit("navigation", NavigationNext, OffNavigation)
  \/ Visit("worker", WorkerSteps, OffWorker)
  \/ Visit("notices", NoticesNext, OffNotices)

\* The effects of a commit, and the splash.
Effects ==
  \/ Visit("files", FilesEffects, OffFiles)
  \/ Visit("session", SessionEffects, OffSession)
  \/ Visit("session", SplashEnds, OffSession)

\* The answers pages wait for.
Answers ==
  \/ Visit("files", ListingAnswers, OffFiles)
  \/ Visit("applications", ApplicationsAnswers, OffApplications)
  \/ Visit("account", SectionAnswers, OffAccount)
  \/ Visit("terms", TermsAnswers, OffTerms)

UploadsEnd == Visit("files", UploadAnswers, OffFiles)

\* A redirect that was asked for.
TabLeaves == Visit("session", \E r \in Redirects : LeaveFor(r), OffSession)

\* As in Browsing.  The answers to uploads are other events than those to lists; and
\* the browser leaves for a redirect whatever the page goes on doing.
Fairness ==
  /\ WF_managingVars(Effects)
  /\ WF_managingVars(TabLeaves)
  /\ SF_managingVars(Answers)
  /\ SF_managingVars(UploadsEnd)

Spec == Init /\ [][Next]_managingVars /\ Fairness

\* What a user waits for: a page or a dialog that is loading, a file that has
\* been uploaded and is not listed, terms that are on the server and not shown,
\* the page that was opened.
Awaited ==
  \/ appList # Off /\ appList.loading
  \/ modal # Off /\ modal.loading /\ ~modal.closed
  \/ section # Off /\ section.loading /\ (section.name = "feed" => reading)
  \/ files # Off /\ ~outdated /\ fileFaults = 0 /\ ~(filesStored \subseteq files.fileNames)
  \/ /\ ~overtaken /\ termsFaults = 0
     /\ \E t \in termsStored \ termsResults : termsRoute = [at |-> "detail", id |-> t]
  \/ tab # Off /\ ~ShowsPages /\ ~AtCallback

\* Nobody waits for ever, unless a request failed or was overtaken where the
\* page does not handle that: whenever something is awaited, nothing is later.
NobodyWaitsForEver == []<>~Awaited

\* What the forms send (terms, attributes, an invitation) is what they show.
FormsSendWhatTheyShow == SentTermsAreShown /\ SentAttributesAreShown /\ InvitationIsShown

\* The shell of every page follows the user: the layout is the one of who is
\* signed in, and the tour, the menu, the switch and the silence are as chosen.
ShellFollowsUser ==
  /\ LayoutFitsUser
  /\ TourFollowsAnswer /\ BurgerFitsWindow /\ ToggleShowsSetting /\ QuietUnlessAsked
==============================================================================
