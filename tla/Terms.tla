------------------------------- MODULE Terms ---------------------------------
(***************************************************************************)
(* The pages "Terms of Use" of the browser client.                         *)
(*                                                                         *)
(*   TermsOfUsePage.tsx               the list, the form or the detail     *)
(*   TermsOfUseList.tsx               fetches the list when it is mounted  *)
(*   TermsOfUseDetail.tsx             fetches one when it is mounted       *)
(*   CreateTermsOfUseComponent.tsx    creates one                          *)
(*                                                                         *)
(* What is shown is the results of the context TermsOfUse of the library   *)
(* react-amphora, which outlives the pages.  A text is too short, long     *)
(* enough, or empty.                                                       *)
(***************************************************************************)
EXTENDS Browser

CONSTANT AllTerms     \* the terms there may be

VARIABLES
  termsRoute,    \* the page below the header: [at, id], or Off
  termsForm,     \* CreateTermsOfUseComponent: the inputs and the model; or Off
  termsSent,     \* the last terms sent: model and inputs
  termsResults,  \* TermsOfUseContext.results
  termsReqs,     \* its requests under way, oldest first
  termsStored,   \* the terms on the server
  termsFaults,
  overtaken      \* whether the detail was opened before the terms were there, or while a
                 \* list was under way, which may take them away again

termsVars == <<termsRoute, termsForm, termsSent, termsResults, termsReqs, termsStored,
               termsFaults, overtaken>>

TermsFields == {"name", "contents"}
TermsTexts == {"", "short", "enough"}
NoText == [f \in TermsFields |-> ""]
NoTermsSent == [model |-> [f \in TermsFields |-> "enough"],
                typed |-> [f \in TermsFields |-> "enough"]]
NewTermsForm == [typed |-> NoText, focus |-> "none", model |-> NoText]

CanAskTerms == Len(termsReqs) < MaxRequests

TermsAsked(kind, t) == [kind |-> kind, terms |-> t, from |-> termsStored]

------------------------------------------------------------------------------
(* Routes *)

\* The effect of the list: one fetch for every time it is mounted.
ListTerms ==
  /\ CanAskTerms
  /\ termsRoute' = [at |-> "list", id |-> Off]
  /\ termsReqs' = Append(termsReqs, TermsAsked("list", Off))
  /\ termsForm' = Off
  /\ termsSent' = NoTermsSent
  /\ overtaken' = FALSE
  /\ UNCHANGED <<termsResults, termsStored, termsFaults>>

OpenTerms == termsRoute = Off /\ ListTerms

\* The effect of the detail: the terms of its path are fetched once.
FetchesDetail(t) ==
  /\ CanAskTerms
  /\ termsReqs' = Append(termsReqs, TermsAsked("single", t))

\* A path names terms from a row of the list or from outside.
OpenTermsDetail(t) ==
  /\ termsRoute # Off => termsRoute.at = "list" /\ t \in termsResults
  /\ termsRoute' = [at |-> "detail", id |-> t]
  /\ FetchesDetail(t)
  /\ overtaken' = (t \notin termsStored \/ \E i \in DOMAIN termsReqs : termsReqs[i].kind = "list")
  /\ UNCHANGED <<termsForm, termsSent, termsResults, termsStored, termsFaults>>

CloseTermsDetail ==
  /\ termsRoute # Off /\ termsRoute.at = "detail" /\ termsRoute.id \in termsResults
  /\ ListTerms

\* The button of the header.
OpenTermsForm ==
  /\ termsRoute # Off /\ termsRoute.at # "create"
  /\ termsRoute' = [at |-> "create", id |-> Off]
  /\ termsForm' = NewTermsForm
  /\ overtaken' = FALSE
  /\ UNCHANGED <<termsSent, termsResults, termsReqs, termsStored, termsFaults>>

LeaveTerms ==
  /\ termsRoute # Off
  /\ termsRoute' = Off
  /\ termsForm' = Off
  /\ termsSent' = NoTermsSent
  /\ overtaken' = FALSE
  /\ UNCHANGED <<termsResults, termsReqs, termsStored, termsFaults>>

------------------------------------------------------------------------------
(* Creating *)

\* validateName and validateContents.
IsLongEnough(text) == text = "enough"

TypeTerms(f, text) ==
  /\ termsForm # Off /\ termsForm.focus \in {"none", f}
  /\ text # termsForm.typed[f]
  /\ termsForm' = [termsForm EXCEPT !.typed[f] = text, !.focus = f]
  /\ UNCHANGED <<termsRoute, termsSent, termsResults, termsReqs, termsStored, termsFaults,
                 overtaken>>

\* The title has a button that clears it, which completes nothing.
ClearTitle ==
  /\ termsForm # Off /\ termsForm.focus = "none"
  /\ termsForm.typed["name"] # ""
  /\ termsForm' = [termsForm EXCEPT !.typed["name"] = ""]
  /\ UNCHANGED <<termsRoute, termsSent, termsResults, termsReqs, termsStored, termsFaults,
                 overtaken>>

\* setName and setContents replace the model.
SetTermsText(f, text) == [termsForm.model EXCEPT ![f] = text]

\* Leaving an input completes it when it is valid.
BlurTerms ==
  /\ termsForm # Off /\ termsForm.focus # "none"
  /\ LET f == termsForm.focus  text == termsForm.typed[f] IN
     termsForm' = [termsForm EXCEPT
       !.focus = "none",
       !.model = IF IsLongEnough(text) THEN SetTermsText(f, text) ELSE @]
  /\ UNCHANGED <<termsRoute, termsSent, termsResults, termsReqs, termsStored, termsFaults,
                 overtaken>>

\* (mutant of saveDisabled)
saveDisabledAll == ~(\E f \in TermsFields : IsLongEnough(termsForm.model[f]))
saveDisabled == ~(\A f \in TermsFields : IsLongEnough(termsForm.model[f]))

\* complete: the model is sent and the list replaces the form, without waiting.
CompleteTerms(t) ==
  /\ termsForm # Off /\ termsForm.focus = "none"
  /\ ~saveDisabled
  /\ Len(termsReqs) + 1 < MaxRequests
  /\ t \notin termsStored
  /\ \A i \in DOMAIN termsReqs : termsReqs[i].terms # t
  /\ termsSent' = [model |-> termsForm.model, typed |-> termsForm.typed]
  /\ termsForm' = Off
  /\ termsRoute' = [at |-> "list", id |-> Off]
  /\ termsReqs' = termsReqs \o <<TermsAsked("create", t), TermsAsked("list", Off)>>
  /\ UNCHANGED <<termsResults, termsStored, termsFaults, overtaken>>

------------------------------------------------------------------------------
(* The context, which is external *)

\* The server creates the terms; the results may take them or not.
AnswerCreateTerms(i) ==
  /\ termsReqs[i].kind = "create"
  /\ termsStored' = termsStored \cup {termsReqs[i].terms}
  /\ termsResults' \in {termsResults, termsResults \cup {termsReqs[i].terms}}
  /\ termsReqs' = Without(termsReqs, i)
  /\ UNCHANGED <<termsRoute, termsForm, termsSent, termsFaults, overtaken>>

\* A list replaces the results by what the server had some time since it was sent.
AnswerTermsList(i, has) ==
  /\ termsReqs[i].kind = "list"
  /\ termsReqs[i].from \subseteq has /\ has \subseteq termsStored
  /\ termsResults' = has
  /\ termsReqs' = Without(termsReqs, i)
  /\ UNCHANGED <<termsRoute, termsForm, termsSent, termsStored, termsFaults, overtaken>>

AnswerSingleTerms(i) ==
  /\ termsReqs[i].kind = "single"
  /\ termsResults' = termsResults \cup ({termsReqs[i].terms} \cap termsStored)
  /\ termsReqs' = Without(termsReqs, i)
  /\ UNCHANGED <<termsRoute, termsForm, termsSent, termsStored, termsFaults, overtaken>>

LoseTerms(i) ==
  /\ termsFaults < MaxFaults
  /\ termsFaults' = termsFaults + 1
  /\ termsReqs' = Without(termsReqs, i)
  /\ UNCHANGED <<termsRoute, termsForm, termsSent, termsResults, termsStored, overtaken>>

------------------------------------------------------------------------------

TermsUser ==
  \/ OpenTerms \/ OpenTermsForm \/ LeaveTerms \/ CloseTermsDetail \/ ClearTitle \/ BlurTerms
  \/ \E t \in AllTerms : OpenTermsDetail(t) \/ CompleteTerms(t)
  \/ \E f \in TermsFields, text \in TermsTexts : TypeTerms(f, text)

TermsAnswers ==
  \E i \in DOMAIN termsReqs :
    \/ AnswerCreateTerms(i) \/ AnswerSingleTerms(i) \/ LoseTerms(i)
    \/ \E has \in SUBSET termsStored : AnswerTermsList(i, has)

TermsNext == TermsUser \/ TermsAnswers

TermsInit ==
  /\ termsRoute = Off
  /\ termsForm = Off
  /\ termsSent = NoTermsSent
  /\ termsResults = {}
  /\ termsReqs = <<>>
  /\ termsStored \in SUBSET AllTerms
  /\ termsFaults = 0
  /\ overtaken = FALSE

------------------------------------------------------------------------------
(* What the pages promise *)

\* What is created is long enough, whatever the order its inputs were filled in
\* and corrected, and is what the inputs show unless they show a text that is not.
SentTermsAreShown ==
  \A f \in TermsFields :
    /\ IsLongEnough(termsSent.model[f])
    /\ termsSent.model[f] = termsSent.typed[f] \/ ~IsLongEnough(termsSent.typed[f])
==============================================================================
