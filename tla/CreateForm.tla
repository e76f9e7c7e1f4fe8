----------------------------- MODULE CreateForm ------------------------------
(***************************************************************************)
(* The page "Create Amphora" of the browser client, with its inputs.       *)
(*                                                                         *)
(*   CreateAmphora.tsx                 the page                            *)
(*   TextInputBase.tsx, FloatInput.tsx the text and number inputs          *)
(*   MagicModalCurrencyInput.tsx,                                          *)
(*   ModalCurrencyInput.tsx            the price                           *)
(*                                                                         *)
(* The model the inputs write to is one object, changed in place.  A text  *)
(* is empty, within its limit or too long; a coordinate is given or not.   *)
(***************************************************************************)
EXTENDS Browser

CONSTANTS
  TextFields,      \* the text inputs: "name" and "description"
  Amounts,         \* the prices that can be chosen, 0 among them
  TermsOffered,    \* the terms of use the user may choose from
  NoTerms,
  TermsDefault     \* TERMS_DEFAULT

ASSUME CreateFormAssumption ==
  /\ TextFields \subseteq {"name", "description"}
  /\ Amounts \subseteq Nat /\ 0 \in Amounts

VARIABLES
  form,        \* the page's model and its inputs, or Off
  offered,     \* TermsOfUseContext.results
  termsAsked,  \* whether the terms are being fetched
  sent         \* what the form that was closed sent: its texts and its price, and the price shown

formVars == <<form, offered, termsAsked, sent>>

Texts == {"", "fits", "long"}
Coordinates == {"none", "given"}

NewModel == [text |-> [f \in TextFields |-> ""], price |-> 0, terms |-> NoTerms,
             lat |-> "none", lon |-> "none"]
NewPrice == [editing |-> FALSE, open |-> FALSE, manually |-> FALSE, amount |-> 0, value |-> 0]
NewForm == [model |-> NewModel, manual |-> FALSE,
            text |-> [f \in TextFields |-> ""], price |-> NewPrice,
            lat |-> "given", lon |-> "given"]
NothingSent == [text |-> NewModel.text, price |-> 0, shown |-> 0]

Change(f) ==
  /\ form' = f
  /\ UNCHANGED <<offered, termsAsked, sent>>

------------------------------------------------------------------------------
(* The text inputs *)

\* validateName and validateDescription.
IsValid(text) == text # "long"

\* handleChange: the input keeps whatever is typed.
Type(f, text) ==
  /\ form # Off
  /\ text # form.text[f]
  /\ Change([form EXCEPT !.text[f] = text])

\* The button that empties the input, which completes nothing.
ClearText(f) == form # Off /\ form.text[f] # "" /\ Type(f, "")

\* Both pass over an empty text.
setName(text) == IF text = "" THEN form.model ELSE [form.model EXCEPT !.text["name"] = text]
setDescription(text) ==
  IF text = "" THEN form.model ELSE [form.model EXCEPT !.text["description"] = text]

\* onComplete, of either input.
Complete(f, text) == IF f = "name" THEN setName(text) ELSE setDescription(text)

\* (mutant of Blur)
BlurUnchecked(f) ==
  /\ form # Off
  /\ Change([form EXCEPT !.model = Complete(f, form.text[f])])
\* handleBlur: an invalid text is not completed.
Blur(f) ==
  /\ form # Off
  /\ IsValid(form.text[f])
  /\ Change([form EXCEPT !.model = Complete(f, form.text[f])])

------------------------------------------------------------------------------
(* The price *)

\* The price box opens a dialog over the price it shows.
OpenPrice ==
  /\ form # Off /\ ~form.price.editing
  /\ Change([form EXCEPT !.price = [@ EXCEPT !.editing = TRUE, !.open = TRUE,
                                             !.manually = FALSE, !.amount = form.price.value]])

PriceIsOpen == form # Off /\ form.price.editing /\ form.price.open

EnterManually ==
  /\ PriceIsOpen /\ ~form.price.manually
  /\ Change([form EXCEPT !.price.manually = TRUE])

TypeAmount(a) ==
  /\ PriceIsOpen /\ form.price.manually
  /\ a # form.price.amount
  /\ Change([form EXCEPT !.price.amount = a])

\* setPrice passes over a price of 0.
SetPrice(a) == IF a = 0 THEN form.model ELSE [form.model EXCEPT !.price = a]

\* onSave: the box shows the price saved.
SavePrice(a) ==
  Change([form EXCEPT !.model = SetPrice(a), !.price = [NewPrice EXCEPT !.value = a]])

\* A click on one of the amounts saves it; so does Save with the amount typed.
SelectAmount(a) == PriceIsOpen /\ ~form.price.manually /\ SavePrice(a)

SaveManually == PriceIsOpen /\ form.price.manually /\ SavePrice(form.price.amount)

\* (mutant of CancelPrice)
CancelPriceKeepingAmount ==
  /\ PriceIsOpen
  /\ Change([form EXCEPT !.price = [NewPrice EXCEPT !.value = form.price.amount]])
CancelPrice ==
  /\ PriceIsOpen
  /\ Change([form EXCEPT !.price = [NewPrice EXCEPT !.value = form.price.value]])

\* Closed by the Escape key, the dialog is gone but the box still waits for it.
EscapePrice ==
  /\ PriceIsOpen
  /\ Change([form EXCEPT !.price.open = FALSE, !.price.manually = FALSE])

------------------------------------------------------------------------------
(* The position *)

\* setLat and setLon: an empty coordinate takes the other one with it.
SetCoordinates(c, value) ==
  LET other == IF c = "lat" THEN "lon" ELSE "lat"
  IN  IF value = "none"
      THEN [form.model EXCEPT ![c] = "none", ![other] = "none"]
      ELSE [form.model EXCEPT ![c] = value]

ToggleManualPosition ==
  /\ form # Off
  /\ Change([form EXCEPT !.manual = ~@])

TypeCoordinate(c, value) ==
  /\ form # Off /\ form.manual
  /\ value # form[c]
  /\ Change([form EXCEPT ![c] = value])

BlurCoordinate(c) ==
  /\ form # Off /\ form.manual
  /\ Change([form EXCEPT !.model = SetCoordinates(c, form[c])])

\* A place found on the map has both coordinates; a result without a position
\* changes nothing.
setPosition == [form.model EXCEPT !.lat = "given", !.lon = "given"]

FindPlace ==
  /\ form # Off /\ ~form.manual
  /\ Change([form EXCEPT !.model = setPosition])

------------------------------------------------------------------------------
(* The terms of use *)

OpenForm ==
  /\ form = Off
  /\ form' = NewForm
  /\ termsAsked' = TRUE
  /\ sent' = NothingSent
  /\ UNCHANGED offered

AnswerTerms(terms) ==
  /\ termsAsked
  /\ termsAsked' = FALSE
  /\ offered' = terms
  /\ UNCHANGED <<form, sent>>

\* The dropdown has the terms that have been fetched.
OffersTerms(t) == form # Off /\ t \in offered

PickTerms(t) ==
  /\ OffersTerms(t)
  /\ Change([form EXCEPT !.model.terms = IF t = TermsDefault THEN NoTerms ELSE t])

------------------------------------------------------------------------------
(* Sending *)

\* The button sends the model as it is; the page is left for the list.
Submit ==
  /\ form # Off
  /\ sent' = [text |-> form.model.text, price |-> form.model.price,
              shown |-> form.price.value]
  /\ form' = Off
  /\ UNCHANGED <<offered, termsAsked>>

------------------------------------------------------------------------------

FormUser ==
  \/ \E f \in TextFields :
       ClearText(f) \/ Blur(f) \/ \E text \in Texts : Type(f, text)
  \/ OpenPrice \/ EnterManually \/ SaveManually \/ CancelPrice \/ EscapePrice
  \/ \E a \in Amounts : TypeAmount(a) \/ SelectAmount(a)
  \/ ToggleManualPosition \/ FindPlace
  \/ \E c \in {"lat", "lon"} :
       BlurCoordinate(c) \/ \E value \in Coordinates : TypeCoordinate(c, value)
  \/ \E t \in TermsOffered : PickTerms(t)

FormAnswers == \E terms \in {offered, TermsOffered} : AnswerTerms(terms)

FormNext == FormUser \/ FormAnswers \/ OpenForm \/ Submit

FormInit ==
  /\ form = Off
  /\ offered = {}
  /\ termsAsked = FALSE
  /\ sent = NothingSent

FormSpec == FormInit /\ [][FormNext]_formVars

------------------------------------------------------------------------------
(* What the page promises *)

\* What is created has a name and a description within their limits.
SentIsValid == \A f \in TextFields : IsValid(sent.text[f])

\* The price that is sent is the price the box shows; setPrice passes over a
\* price of 0, so a box that shows 0 may be sent with an earlier price.
SentPriceIsShown == sent.price = sent.shown \/ sent.shown = 0

\* "Choose a monthly subscription price. It can be $0.": the price box shows what
\* is sent, 0 too.
FreeIsFree == sent.price = sent.shown

\* What is sent when an Amphora is created is valid and has the price shown.
SentIsShown == SentIsValid /\ SentPriceIsShown
==============================================================================
