------------------------------- MODULE Session -------------------------------
(***************************************************************************)
(* Signing in and out of the browser client, in one tab.                   *)
(*                                                                         *)
(*   withSplashScreen.tsx   two seconds before anything else               *)
(*   Layout.tsx             the connected layout or the public one         *)
(*   Routes.tsx             the pages, the callback or the challenge       *)
(*   Challenge.tsx          leaves for the identity service                *)
(*   AppNavMenu.tsx         the button that logs out                       *)
(*   PublicNavMenu.tsx      the link "Home" and the button that signs in   *)
(*                                                                         *)
(* The identity service and the library that talks to it are external: a   *)
(* redirect is asked for and the tab leaves later, and of several that are *)
(* asked for any may be the one that happens.                              *)
(***************************************************************************)
EXTENDS Browser

CONSTANT PagePaths     \* the paths of the pages, "/" among them

ASSUME SessionAssumption ==
  "/" \in PagePaths /\ "challenge" \notin PagePaths /\ "callback" \notin PagePaths

VARIABLES
  tab,         \* [at, path], or Off when the tab is not on this site
  user,        \* idState.user: whether there is one
  connected,   \* the state of Layout
  connectDue,  \* whether its effect is due
  challenged,  \* whether the challenge that is mounted has asked for its redirect
  leaving,     \* the redirects asked for
  keptUser,    \* whether the tab's storage has a user
  idSession,   \* whether the identity service has a session
  atIdentity,  \* what the tab is at the identity service for
  wanted       \* the page the user opened

sessionVars == <<tab, user, connected, connectDue, challenged, leaving, keptUser, idSession,
                 atIdentity, wanted>>

Redirects == {"signin", "signout"}

InApp == tab # Off /\ tab.at = "app"

AtCallback == tab # Off /\ tab.path = "callback"

------------------------------------------------------------------------------
(* Loading *)

\* index.tsx: the page starts with the splash, with no user yet.
LoadPage(path) ==
  /\ tab' = [at |-> "splash", path |-> path]
  /\ user' = FALSE
  /\ connected' = FALSE /\ connectDue' = FALSE
  /\ challenged' = FALSE
  /\ leaving' = {}
  /\ atIdentity' = Off

OpenSite(path) ==
  /\ tab = Off
  /\ LoadPage(path)
  /\ wanted' = path
  /\ UNCHANGED <<keptUser, idSession>>

CloseSite ==
  /\ tab' = Off
  /\ user' = FALSE
  /\ connected' = FALSE /\ connectDue' = FALSE
  /\ challenged' = FALSE
  /\ leaving' = {} /\ atIdentity' = Off
  /\ UNCHANGED <<keptUser, idSession, wanted>>

\* (mutant of ConnectDue)
ConnectDueAtSignIn(u) == u /\ u # user
\* The dependency of the effect of Layout.
ConnectDue(u) == u # user

SetUser(u) ==
  /\ user' = u
  /\ connectDue' = (InApp /\ (connectDue \/ ConnectDue(u)))

\* AmphoraProvider takes the user from the storage of the tab.
UserIsLoaded ==
  /\ tab # Off /\ keptUser /\ ~user /\ ~AtCallback
  /\ SetUser(TRUE)
  /\ UNCHANGED <<tab, connected, challenged, leaving, keptUser, idSession, atIdentity, wanted>>

\* The two seconds are over: the layout is mounted, with the state the user has
\* then, and its effect runs once.
SplashEnds ==
  /\ tab # Off /\ tab.at = "splash"
  /\ tab' = [tab EXCEPT !.at = "app"]
  /\ connected' = user
  /\ connectDue' = TRUE
  /\ UNCHANGED <<user, challenged, leaving, keptUser, idSession, atIdentity, wanted>>

------------------------------------------------------------------------------
(* The layout and the routes *)

\* The layouts have nothing in common: what is in one is mounted anew in the other.
ConnectEffect ==
  /\ InApp /\ connectDue
  /\ connectDue' = FALSE
  /\ connected' = user
  /\ challenged' = (challenged /\ connected = user)
  /\ UNCHANGED <<tab, user, leaving, keptUser, idSession, atIdentity, wanted>>

ShowsConnected == InApp /\ connected

ShowsPages == InApp /\ ~AtCallback /\ user

ShowsAnonymous == InApp /\ ~AtCallback /\ ~user

\* (mutant of RedirectToChallenge)
RedirectHomeToChallenge ==
  /\ ShowsAnonymous /\ tab.path = "/"
  /\ tab' = [tab EXCEPT !.path = "challenge"]
  /\ UNCHANGED <<user, connected, connectDue, challenged, leaving, keptUser, idSession,
                 atIdentity, wanted>>
\* AnonymousRoutes: whatever the path is, it becomes the challenge.
RedirectToChallenge ==
  /\ ShowsAnonymous /\ tab.path # "challenge"
  /\ tab' = [tab EXCEPT !.path = "challenge"]
  /\ UNCHANGED <<user, connected, connectDue, challenged, leaving, keptUser, idSession,
                 atIdentity, wanted>>

\* componentDidMount: the path to come back to is "/".
Challenge ==
  /\ ShowsAnonymous /\ tab.path = "challenge" /\ ~challenged
  /\ challenged' = TRUE
  /\ leaving' = leaving \cup {"signin"}
  /\ UNCHANGED <<tab, user, connected, connectDue, keptUser, idSession, atIdentity, wanted>>

ClickPath(path) ==
  /\ ShowsPages /\ ShowsConnected
  /\ tab' = [tab EXCEPT !.path = path]
  /\ wanted' = path
  /\ UNCHANGED <<user, connected, connectDue, challenged, leaving, keptUser, idSession, atIdentity>>

\* logout: neither the redirect nor the removal of the user is waited for.
logout ==
  /\ ShowsConnected
  /\ leaving' = leaving \cup {"signout"}
  /\ keptUser' = FALSE
  /\ UNCHANGED <<tab, user, connected, connectDue, challenged, idSession, atIdentity, wanted>>

\* The link "Home" of the public layout: the challenge, which has asked for its
\* redirect when it was mounted, is unmounted, and will be mounted anew.
ClickHome ==
  /\ ShowsAnonymous /\ ~connected /\ challenged
  /\ tab' = [tab EXCEPT !.path = "/"]
  /\ challenged' = FALSE
  /\ wanted' = "/"
  /\ UNCHANGED <<user, connected, connectDue, leaving, keptUser, idSession, atIdentity>>

\* Its button "Sign In", which asks the library for one more redirect.
SignInButton ==
  /\ InApp /\ ~connected
  /\ leaving' = leaving \cup {"signin"}
  /\ UNCHANGED <<tab, user, connected, connectDue, challenged, keptUser, idSession, atIdentity,
                 wanted>>

\* The library tells that the user was removed.
UserIsRemoved ==
  /\ tab # Off /\ user /\ ~keptUser
  /\ SetUser(FALSE)
  /\ UNCHANGED <<tab, connected, challenged, leaving, keptUser, idSession, atIdentity, wanted>>

------------------------------------------------------------------------------
(* The identity service, which is external *)

LeaveFor(redirect) ==
  /\ redirect \in leaving
  /\ tab' = Off
  /\ user' = FALSE
  /\ connected' = FALSE /\ connectDue' = FALSE
  /\ challenged' = FALSE
  /\ leaving' = {}
  /\ atIdentity' = redirect
  /\ idSession' = (idSession /\ redirect = "signin")
  /\ UNCHANGED <<keptUser, wanted>>

\* The user signs in, unless there is a session already.
SignInAtIdentity ==
  /\ atIdentity = "signin"
  /\ idSession' = TRUE
  /\ LoadPage("callback")
  /\ UNCHANGED <<keptUser, wanted>>

\* onSignIn: whatever page was asked for, the user is taken to "/".
SignedIn ==
  /\ InApp /\ AtCallback
  /\ keptUser' = TRUE
  /\ tab' = [tab EXCEPT !.path = "/"]
  /\ SetUser(TRUE)
  /\ UNCHANGED <<connected, challenged, leaving, idSession, atIdentity, wanted>>

\* onSignInError: a toast; the user may load the page again.
SignInFails ==
  /\ InApp /\ AtCallback
  /\ LoadPage("callback")
  /\ UNCHANGED <<keptUser, idSession, wanted>>

------------------------------------------------------------------------------

SessionUser ==
  \/ \E path \in PagePaths : OpenSite(path) \/ ClickPath(path)
  \/ tab # Off /\ CloseSite
  \/ logout \/ ClickHome \/ SignInButton \/ SignInAtIdentity \/ SignInFails

SessionEffects == ConnectEffect \/ RedirectToChallenge \/ Challenge

SessionLibrary ==
  UserIsLoaded \/ UserIsRemoved \/ SignedIn \/ \E r \in Redirects : LeaveFor(r)

SessionNext == SessionUser \/ SessionEffects \/ SessionLibrary \/ SplashEnds

SessionInit ==
  /\ tab = Off
  /\ user = FALSE /\ connected = FALSE /\ connectDue = FALSE
  /\ challenged = FALSE
  /\ leaving = {} /\ atIdentity = Off
  /\ keptUser \in BOOLEAN /\ idSession \in BOOLEAN
  /\ wanted = "/"

SessionSpec ==
  SessionInit /\ [][SessionNext]_sessionVars /\ WF_sessionVars(SessionEffects \/ SplashEnds)

------------------------------------------------------------------------------
(* What the shell promises *)

\* The layout is the one of the user, also after the user is removed, once the
\* effect has run.
LayoutFitsUser == InApp /\ ~connectDue => connected = user

\* "pass the current path to redirect to the correct page after successfull login":
\* who signs in is taken to the page that was opened.
SignInKeepsPath == [][AtCallback /\ InApp /\ user' /\ ~user => tab'.path = wanted]_sessionVars
==============================================================================
