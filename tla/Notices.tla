------------------------------- MODULE Notices -------------------------------
(***************************************************************************)
(* The notices of the browser client and the setting that asks for more.   *)
(*                                                                         *)
(*   utilities/toasts.ts, toasts/*.tsx   what is told, and how             *)
(*   SettingsPage.tsx, Toggle.tsx        the switch                        *)
(*   reducers/settings.ts                the setting, in the store         *)
(*                                                                         *)
(* Every operation of react-amphora tells its beginning and its result.    *)
(* The library react-toastify is external: a notice that no toaster can    *)
(* show waits for one.                                                     *)
(***************************************************************************)
EXTENDS Browser

VARIABLES
  settings,    \* showDebuggingNotifications
  toggle,      \* activeOption of the switch that is mounted, or Off
  toaster,     \* whether a toaster is mounted: in the connected layout
  notices,     \* the notices shown: their kind and what they are of
  queued,      \* the notices that wait for a toaster
  everAsked    \* whether the setting was on since the page was loaded

noticesVars == <<settings, toggle, toaster, notices, queued, everAsked>>

ToggleOptions == {"enable", "disable"}

\* What the four notices have in common.
Toast(kind, of) ==
  /\ notices' = IF toaster THEN notices \cup {<<kind, of>>} ELSE notices
  /\ queued' = IF toaster THEN queued ELSE queued \cup {<<kind, of>>}

info(of) == Toast("info", of)
success(of) == Toast("success", of)
warning(of) == Toast("warning", of)
error(of) == Toast("error", of)

NoToast == UNCHANGED <<notices, queued>>

toastOnAction == IF settings THEN info("action") ELSE NoToast

\* (mutant of toastOnActionResult)
toastOnActionPayload(result) ==
  IF result = "error" THEN error("result")
  ELSE IF result = "payload" THEN success("result")
  ELSE IF ~settings THEN NoToast
  ELSE info("result")
\* An error is told whatever the setting is.
toastOnActionResult(result) ==
  IF result = "error" THEN error("result")
  ELSE IF ~settings THEN NoToast
  ELSE IF result = "payload" THEN success("result")
  ELSE info("result")

BeginOperation ==
  /\ toastOnAction
  /\ UNCHANGED <<settings, toggle, toaster, everAsked>>

EndOperation(result) ==
  /\ toastOnActionResult(result)
  /\ UNCHANGED <<settings, toggle, toaster, everAsked>>

\* toastOnSignIn and toastOnSignInError, in the public layout, which has no toaster.
TellSignIn(ok) ==
  /\ ~toaster
  /\ IF ok THEN success("welcome") ELSE warning("retrying")
  /\ UNCHANGED <<settings, toggle, toaster, everAsked>>

ToasterMounts ==
  /\ ~toaster
  /\ toaster' = TRUE
  /\ notices' = notices \cup queued
  /\ queued' = {}
  /\ UNCHANGED <<settings, toggle, everAsked>>

\* The page is left for the identity service, or loaded again: the store is new.
Reload ==
  /\ settings' = FALSE
  /\ toggle' = Off
  /\ toaster' = FALSE
  /\ notices' = {} /\ queued' = {}
  /\ everAsked' = FALSE

\* autoClose, or a click.
CloseNotice(n) ==
  /\ notices' = notices \ {n}
  /\ UNCHANGED <<settings, toggle, toaster, queued, everAsked>>

\* (mutant of OpenSettings)
OpenSettingsFirst ==
  /\ toggle = Off /\ toaster
  /\ toggle' = "enable"
  /\ UNCHANGED <<settings, toaster, notices, queued, everAsked>>
\* The constructor of the switch takes the setting as it is.
OpenSettings ==
  /\ toggle = Off /\ toaster
  /\ toggle' = IF settings THEN "enable" ELSE "disable"
  /\ UNCHANGED <<settings, toaster, notices, queued, everAsked>>

CloseSettings ==
  /\ toggle # Off
  /\ toggle' = Off
  /\ UNCHANGED <<settings, toaster, notices, queued, everAsked>>

\* handleSelect, debuggingNotificationSelected and the reducer.
SelectOption(o) ==
  /\ toggle # Off
  /\ toggle' = o
  /\ settings' = (o = "enable")
  /\ everAsked' = (everAsked \/ settings')
  /\ UNCHANGED <<toaster, notices, queued>>

NoticesNext ==
  \/ BeginOperation \/ ToasterMounts \/ Reload \/ OpenSettings \/ CloseSettings
  \/ \E result \in {"error", "payload", "none"} : EndOperation(result)
  \/ \E ok \in BOOLEAN : TellSignIn(ok)
  \/ \E n \in notices : CloseNotice(n)
  \/ \E o \in ToggleOptions : SelectOption(o)

NoticesInit ==
  /\ settings = FALSE /\ toggle = Off /\ toaster = FALSE
  /\ notices = {} /\ queued = {}
  /\ everAsked = FALSE

------------------------------------------------------------------------------
(* What is promised *)

\* The switch shows the setting, however often the page is left and opened.
ToggleShowsSetting == toggle # Off => (toggle = "enable" <=> settings)

\* Who has not asked for more is told of errors and of signing in only.
QuietUnlessAsked ==
  ~everAsked => \A n \in notices \cup queued :
    n[1] = "error" \/ n[2] \in {"welcome", "retrying"}
==============================================================================
