-------------------------------- MODULE Worker -------------------------------
(***************************************************************************)
(* The service worker of the browser client (registerServiceWorker.ts).    *)
(*                                                                         *)
(* A worker serves the content it was built with.  The browser is          *)
(* external: it fetches a worker when one is registered, installs it if it *)
(* differs, and lets it take over when no page of the site is open.  On    *)
(* localhost the code first looks whether the server has a worker at all.  *)
(***************************************************************************)
EXTENDS Browser

CONSTANT MaxVersion     \* bound on the versions that are deployed

ASSUME WorkerAssumption == MaxVersion \in Nat

VARIABLES
  isLocalhost, \* whether the site is served by this computer
  deployed,    \* the version the server has, NoWorker if it has no worker
  active,      \* the version of the worker that serves the site, or NoWorker
  waiting,     \* the version of the worker that is installed and waits
  visit,       \* the page that is open: its version, and where register() is; or Off
  checked,     \* the version deployed when an earlier visit checked for a worker last
  reloads      \* how often the page was reloaded in a row by the code

workerVars == <<isLocalhost, deployed, active, waiting, visit, checked, reloads>>

NoWorker == 0
Versions == 0 .. MaxVersion

\* A page comes from the worker, if there is one, and from the server if not.
LoadVersion == IF active # NoWorker THEN active ELSE deployed

OpenVisit ==
  /\ visit = Off
  /\ active' = IF waiting # NoWorker THEN waiting ELSE active
  /\ waiting' = NoWorker
  /\ visit' = [version |-> IF active' # NoWorker THEN active' ELSE deployed,
               doing |-> "load"]
  /\ reloads' = 0
  /\ UNCHANGED <<isLocalhost, deployed, checked>>

CloseVisit ==
  /\ visit # Off
  /\ visit' = Off
  /\ reloads' = 0
  /\ UNCHANGED <<isLocalhost, deployed, active, waiting, checked>>

\* A new version is deployed; on localhost another application may follow, which
\* has no worker.
Deploy(v) ==
  /\ IF v = NoWorker THEN isLocalhost /\ deployed # NoWorker ELSE v > deployed /\ v > checked
  /\ deployed' = v
  /\ UNCHANGED <<isLocalhost, active, waiting, visit, checked, reloads>>

Doing(what) == visit # Off /\ visit.doing = what

\* register: when the page has loaded.
Register ==
  /\ Doing("load")
  /\ visit' = [visit EXCEPT !.doing = IF isLocalhost THEN "check" ELSE "register"]
  /\ UNCHANGED <<isLocalhost, deployed, active, waiting, checked, reloads>>

\* checkValidServiceWorker: found, not found or no connection.
CheckValidServiceWorker(connected) ==
  /\ Doing("check")
  /\ visit' = [visit EXCEPT !.doing = IF ~connected THEN "done"
                                      ELSE IF deployed = NoWorker THEN "unregister"
                                      ELSE "register"]
  /\ UNCHANGED <<isLocalhost, deployed, active, waiting, checked, reloads>>

\* (mutant of UnregisterAndReload)
ReloadOnly ==
  /\ Doing("unregister") /\ active # NoWorker
  /\ reloads <= 2
  /\ visit' = [version |-> LoadVersion, doing |-> "load"]
  /\ reloads' = reloads + 1
  /\ UNCHANGED <<isLocalhost, deployed, active, waiting, checked>>
\* ready waits for a worker; with none the page stays as it is.
UnregisterAndReload ==
  /\ Doing("unregister") /\ active # NoWorker
  /\ active' = NoWorker /\ waiting' = NoWorker
  /\ visit' = [version |-> deployed, doing |-> "load"]
  /\ reloads' = reloads + 1
  /\ UNCHANGED <<isLocalhost, deployed, checked>>

\* (mutant of RegisterValidSW)
RegisterOnce(connected) ==
  /\ Doing("register")
  /\ visit' = [visit EXCEPT !.doing = "done"]
  /\ IF connected /\ deployed # NoWorker
     THEN /\ checked' = deployed
          /\ active' = IF active = NoWorker THEN deployed ELSE active
     ELSE UNCHANGED <<checked, active>>
  /\ UNCHANGED <<isLocalhost, deployed, waiting, reloads>>
\* registerValidSW: a worker that differs is installed; the first one serves the
\* next load, another one waits until the page is closed.
RegisterValidSW(connected) ==
  /\ Doing("register")
  /\ visit' = [visit EXCEPT !.doing = "done"]
  /\ IF connected /\ deployed # NoWorker
     THEN /\ checked' = deployed
          /\ IF active = NoWorker
             THEN active' = deployed /\ UNCHANGED waiting
             ELSE /\ waiting' = IF deployed # active THEN deployed ELSE waiting
                  /\ UNCHANGED active
     ELSE UNCHANGED <<checked, active, waiting>>
  /\ UNCHANGED <<isLocalhost, deployed, reloads>>

------------------------------------------------------------------------------

WorkerSteps ==
  \/ OpenVisit \/ CloseVisit \/ Register \/ UnregisterAndReload
  \/ \E v \in Versions : Deploy(v)
  \/ \E c \in BOOLEAN : CheckValidServiceWorker(c) \/ RegisterValidSW(c)

WorkerInit ==
  /\ isLocalhost \in BOOLEAN
  /\ deployed \in {v \in Versions : v <= 1}
  /\ active = NoWorker /\ waiting = NoWorker
  /\ visit = Off
  /\ checked = NoWorker
  /\ reloads = 0

------------------------------------------------------------------------------
(* What the worker promises *)

\* "users will only see deployed updates on the N+1 visit": a visit sees at least
\* what was deployed when an earlier visit last checked.
SeenOnNextVisit == Doing("load") /\ visit.version # NoWorker => visit.version >= checked

\* On localhost the page is reloaded once at most for a worker that is gone.
ReloadsOnce == reloads <= 1

\* The cache neither hides an update for more than a visit nor reloads for ever.
NewestIsSeen == SeenOnNextVisit /\ ReloadsOnce
==============================================================================
