------------------------------ MODULE Account --------------------------------
(***************************************************************************)
(* The account pages of the browser client, the feed of its home page and  *)
(* the quality of an Amphora, which are loaded in the same way.            *)
(*                                                                         *)
(*   AccountPage.tsx        the tabs                                       *)
(*   MembersSection.tsx, TransactionSection.tsx, InvoicesSection.tsx,      *)
(*   PlanSection.tsx, FeedComponent.tsx, Quality.tsx                       *)
(*                          load what they show when they are mounted      *)
(*   InvitationModal.tsx    invites a member                               *)
(*   SelectPlanModal.tsx    sets the plan                                  *)
(*                                                                         *)
(* A section asks once, when it is mounted, and hears the answer only      *)
(* while it stays mounted.  What it shows is a set of rows; the plan is    *)
(* one row.                                                                *)
(***************************************************************************)
EXTENDS Browser

CONSTANTS
  Rows,          \* what may be added to a list of the server
  Plans,         \* the plans, one of them the first
  FirstPlan,
  Emails,        \* valid addresses
  BadEmail       \* a text that is none

ASSUME AccountAssumption ==
  /\ FirstPlan \in Plans
  /\ BadEmail \notin Emails /\ "" \notin Emails

VARIABLES
  section,      \* the section that is mounted, with its state; or Off
  reading,      \* whether the answer to its request is awaited
  planModal,    \* SelectPlanModalState, or Off
  planAsked,    \* the plans whose selection is under way: its plan, whether set, whether heard
  inviteModal,  \* InvitationModal: the text typed, the invitation; or Off
  invited,      \* the last invitation sent from the modal: its address, and the text shown
  kept,         \* what the server has in each list
  plan,         \* the plan of the organisation
  since,        \* what was there when the section was mounted
  raced,        \* whether the plan may differ from what the section shows
  accountFaults

accountVars == <<section, reading, planModal, planAsked, inviteModal, invited, kept, plan,
                 since, raced, accountFaults>>

Lists == {"members", "transactions", "invoices", "feed"}
Sections == Lists \cup {"plan", "quality"}

NotInvited == [email |-> "", typed |-> ""]

OutOfAccount == section = Off /\ planModal = Off /\ inviteModal = Off

\* The quality of an Amphora is estimated when it is asked for.
ServerHas(name) ==
  CASE name = "plan"    -> {plan}
    [] name = "quality" -> {"estimate"}
    [] name \in Lists   -> kept[name]

AccountFault == accountFaults < MaxFaults /\ accountFaults' = accountFaults + 1

------------------------------------------------------------------------------
(* What a section becomes with its answer, and what it says *)

SectionLoaded(s, rows) == [s EXCEPT !.loading = FALSE, !.error = FALSE, !.rows = rows]
SectionFailed(s) == [s EXCEPT !.loading = FALSE, !.error = TRUE]

MembersAfter(s, ok, rows) == IF ok THEN SectionLoaded(s, rows) ELSE [SectionFailed(s) EXCEPT !.rows = {}]

\* A failure keeps the transactions of the commit the request was sent in.
TransactionsAfter(s, ok, rows) == IF ok THEN SectionLoaded(s, rows) ELSE SectionFailed(s)

\* (mutant of InvoicesAfter)
InvoicesAfterStart(s, ok, rows) ==
  IF ok THEN [s EXCEPT !.loading = FALSE] ELSE [SectionFailed(s) EXCEPT !.rows = {}]
InvoicesAfter(s, ok, rows) == IF ok THEN SectionLoaded(s, rows) ELSE [SectionFailed(s) EXCEPT !.rows = {}]

PlanAfter(s, ok, rows) == IF ok THEN SectionLoaded(s, rows) ELSE SectionFailed(s)

\* The feed catches no failure.
FeedAfter(s, ok, rows) == IF ok THEN SectionLoaded(s, rows) ELSE s

\* Loaded without a quality is what is left of a failure.
QualityAfter(s, ok, rows) == IF ok THEN SectionLoaded(s, rows) ELSE SectionFailed(s)

SectionAfter(s, ok, rows) ==
  CASE s.name = "members"      -> MembersAfter(s, ok, rows)
    [] s.name = "transactions" -> TransactionsAfter(s, ok, rows)
    [] s.name = "invoices"     -> InvoicesAfter(s, ok, rows)
    [] s.name = "plan"         -> PlanAfter(s, ok, rows)
    [] s.name = "feed"         -> FeedAfter(s, ok, rows)
    [] s.name = "quality"      -> QualityAfter(s, ok, rows)

\* The members are drawn when they are defined, if only with the link to the
\* modal that invites another.
MembersSay(s) == IF s.error THEN "error" ELSE "rows"

TransactionsSay(s) == IF s.rows = {} THEN "nothing" ELSE "rows"

InvoicesSay(s) ==
  IF s.error THEN "error" ELSE IF s.rows = {} THEN "nothing" ELSE "rows"

PlanSays(s) == IF s.rows = {} THEN "error" ELSE "rows"

FeedSays(s) == IF s.rows = {} THEN "nothing" ELSE "rows"

QualitySays(s) == IF s.rows = {} THEN "nothing" ELSE "rows"

SectionSays(s) ==
  IF s.loading THEN "loading"
  ELSE CASE s.name = "members"      -> MembersSay(s)
         [] s.name = "transactions" -> TransactionsSay(s)
         [] s.name = "invoices"     -> InvoicesSay(s)
         [] s.name = "plan"         -> PlanSays(s)
         [] s.name = "feed"         -> FeedSays(s)
         [] s.name = "quality"      -> QualitySays(s)

------------------------------------------------------------------------------
(* Routes *)

\* The effect of a section, when it is mounted.
SectionMounted(name) ==
  /\ section' = [name |-> name, loading |-> TRUE, error |-> FALSE, rows |-> {}]
  /\ reading' = TRUE
  /\ since' = ServerHas(name)
  /\ raced' = (name = "plan" /\ planAsked # {})

\* Of the plans that are being set, nobody hears any more.
PlansUnheard == {[p EXCEPT !.heard = FALSE] : p \in planAsked}

ToSection(name) ==
  /\ SectionMounted(name)
  /\ planModal' = Off /\ planAsked' = PlansUnheard
  /\ inviteModal' = Off /\ invited' = NotInvited
  /\ UNCHANGED <<kept, plan, accountFaults>>

\* The path "account" leads to the members.
OpenAccount == OutOfAccount /\ ToSection("members")

OpenFeed == OutOfAccount /\ ToSection("feed")

\* One of the views of an Amphora's detail.
OpenQuality == OutOfAccount /\ ToSection("quality")

AccountTabs == Sections \ {"feed", "quality"}

\* The tabs are there whatever is mounted below them.
ClickAccountTab(name) ==
  /\ ~OutOfAccount /\ (section # Off => section.name \in AccountTabs)
  /\ name \in AccountTabs
  /\ section # Off => section.name # name
  /\ ToSection(name)

LeaveAccount ==
  /\ ~OutOfAccount
  /\ section' = Off /\ reading' = FALSE
  /\ planModal' = Off /\ planAsked' = PlansUnheard
  /\ inviteModal' = Off /\ invited' = NotInvited
  /\ since' = {}
  /\ raced' = FALSE
  /\ UNCHANGED <<kept, plan, accountFaults>>

SectionUnmounted == section' = Off /\ reading' = FALSE /\ since' = {} /\ raced' = FALSE

\* The link below the members.
OpenInvitation ==
  /\ section # Off /\ section.name = "members" /\ SectionSays(section) = "rows"
  /\ SectionUnmounted
  /\ inviteModal' = [typed |-> "", focused |-> FALSE, email |-> ""]
  /\ UNCHANGED <<planModal, planAsked, invited, kept, plan, accountFaults>>

\* The button on the card of the plan.
OpenSelectPlan ==
  /\ section # Off /\ section.name = "plan" /\ SectionSays(section) = "rows"
  /\ SectionUnmounted
  /\ planModal' = [loading |-> FALSE]
  /\ UNCHANGED <<planAsked, inviteModal, invited, kept, plan, accountFaults>>

CloseInvitation == inviteModal # Off /\ ToSection("members")

CloseSelectPlan == planModal # Off /\ ToSection("plan")

------------------------------------------------------------------------------
(* The answers of the sections *)

AnswerSection(ok) ==
  /\ section # Off /\ reading
  /\ reading' = FALSE
  /\ IF ok THEN UNCHANGED accountFaults ELSE AccountFault
  /\ section' = SectionAfter(section, ok, ServerHas(section.name))
  /\ raced' = (raced \/ (section.name = "plan" /\ \E q \in planAsked : ~q.heard))
  /\ UNCHANGED <<planModal, planAsked, inviteModal, invited, kept, plan, since>>

\* What others do puts rows on the lists of the server.
Grow(name, row) ==
  /\ row \notin kept[name]
  /\ kept' = [kept EXCEPT ![name] = @ \cup {row}]
  /\ UNCHANGED <<section, reading, planModal, planAsked, inviteModal, invited, plan, since,
                 raced, accountFaults>>

------------------------------------------------------------------------------
(* Selecting a plan *)

\* (mutant of SelectPlan)
SelectPlanAndClose(p) ==
  /\ planModal # Off
  /\ planAsked = {}
  /\ SectionMounted("plan")
  /\ planModal' = Off
  /\ planAsked' = {[plan |-> p, set |-> FALSE, heard |-> TRUE]}
  /\ UNCHANGED <<inviteModal, invited, kept, plan, accountFaults>>
\* selectPlan: the buttons stay enabled while a plan is being set.
SelectPlan(p) ==
  /\ planModal # Off
  /\ \A q \in planAsked : q.plan # p
  /\ Cardinality(planAsked) < MaxRequests
  /\ planModal' = [loading |-> TRUE]
  /\ planAsked' = planAsked \cup {[plan |-> p, set |-> FALSE, heard |-> TRUE]}
  /\ UNCHANGED <<section, reading, inviteModal, invited, kept, plan, since, raced,
                 accountFaults>>

SetPlan(q) ==
  /\ q \in planAsked /\ ~q.set
  /\ plan' = q.plan
  /\ planAsked' = (planAsked \ {q}) \cup {[q EXCEPT !.set = TRUE]}
  /\ UNCHANGED <<section, reading, planModal, inviteModal, invited, kept, since, raced,
                 accountFaults>>

\* The plan is set: the modal closes, and the section of the plan is mounted,
\* which may be while another plan is being set.
PlanIsSet(q) ==
  /\ q \in planAsked /\ q.set
  /\ IF q.heard
     THEN /\ section' = [name |-> "plan", loading |-> TRUE, error |-> FALSE, rows |-> {}]
          /\ reading' = TRUE
          /\ since' = {plan}
          /\ raced' = (planAsked # {q})
          /\ planModal' = Off
          /\ planAsked' = {[p EXCEPT !.heard = FALSE] : p \in planAsked \ {q}}
     ELSE /\ planAsked' = planAsked \ {q}
          /\ UNCHANGED <<section, reading, since, raced, planModal>>
  /\ UNCHANGED <<inviteModal, invited, kept, plan, accountFaults>>

\* It is refused, or its answer is lost: the modal stays.
PlanIsNotSet(q) ==
  /\ q \in planAsked
  /\ AccountFault
  /\ planAsked' = planAsked \ {q}
  /\ planModal' = IF q.heard THEN [loading |-> FALSE] ELSE planModal
  /\ UNCHANGED <<section, reading, inviteModal, invited, kept, plan, since, raced>>

------------------------------------------------------------------------------
(* Inviting a member *)

\* (mutant of validateEmail)
validateEmailAny(text) == text # ""
validateEmail(text) == text \in Emails

TypeEmail(text) ==
  /\ inviteModal # Off
  /\ text # inviteModal.typed
  /\ inviteModal' = [inviteModal EXCEPT !.typed = text, !.focused = TRUE]
  /\ UNCHANGED <<section, reading, planModal, planAsked, invited, kept, plan, since, raced,
                 accountFaults>>

\* A click on the button first takes the focus from the input.
BlurEmail ==
  /\ inviteModal # Off /\ inviteModal.focused
  /\ inviteModal' = [inviteModal EXCEPT
       !.focused = FALSE,
       !.email = IF validateEmail(inviteModal.typed) THEN inviteModal.typed ELSE @]
  /\ UNCHANGED <<section, reading, planModal, planAsked, invited, kept, plan, since, raced,
                 accountFaults>>

\* submitInvitation: it sends what was completed last.  The modal closes with
\* the answer (CloseInvitation) or stays with a warning.
SubmitInvitation ==
  /\ inviteModal # Off /\ ~inviteModal.focused
  /\ invited' = [email |-> inviteModal.email, typed |-> inviteModal.typed]
  /\ UNCHANGED <<section, reading, planModal, planAsked, inviteModal, kept, plan, since,
                 raced, accountFaults>>

------------------------------------------------------------------------------

AccountUser ==
  \/ OpenAccount \/ OpenFeed \/ OpenQuality \/ LeaveAccount
  \/ \E name \in Sections : ClickAccountTab(name)
  \/ OpenInvitation \/ CloseInvitation \/ OpenSelectPlan \/ CloseSelectPlan
  \/ \E p \in Plans : SelectPlan(p)
  \/ \E text \in Emails \cup {"", BadEmail} : TypeEmail(text)
  \/ BlurEmail \/ SubmitInvitation

SectionAnswers == \E ok \in BOOLEAN : AnswerSection(ok)

PlanAnswers == \E q \in planAsked : SetPlan(q) \/ PlanIsSet(q) \/ PlanIsNotSet(q)

Others == \E name \in Lists, row \in Rows : Grow(name, row)

AccountNext == AccountUser \/ SectionAnswers \/ PlanAnswers \/ Others

AccountInit ==
  /\ section = Off /\ reading = FALSE
  /\ planModal = Off /\ planAsked = {}
  /\ inviteModal = Off /\ invited = NotInvited
  /\ kept = [name \in Lists |-> {}]
  /\ plan = FirstPlan
  /\ since = {} /\ raced = FALSE
  /\ accountFaults = 0

------------------------------------------------------------------------------
(* What the pages promise *)

\* A section that has loaded shows everything that was there when it was
\* opened, and a list of which it says there is nothing was empty then, unless
\* its own request failed.
SectionIsComplete ==
  section # Off /\ ~section.loading /\ ~section.error /\ section.name # "plan" =>
    since \subseteq section.rows

\* The plan that is shown is the plan of the organisation, unless a selection
\* nobody hears of any more was under way while it was read.
PlanShownIsPlan ==
  section # Off /\ section.name = "plan" /\ SectionSays(section) = "rows" /\ ~raced =>
    section.rows = {plan}

\* An invitation goes to a valid address or to none, and to the one in the
\* input unless that one is not valid.
InvitationIsShown ==
  /\ invited.email \in Emails \cup {""}
  /\ invited.email = invited.typed \/ invited.typed \notin Emails

\* A section of the account shows all the server said, and the plan it has.
AccountIsTrue == SectionIsComplete /\ PlanShownIsPlan
==============================================================================
