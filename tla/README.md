# Amphora Data, in TLA+

Amphora Data is a market place for data: organisations publish *Amphorae*
(named sets of files and signals), other organisations accept their terms of
use, buy them and pay for them every month.  The program is a set of ASP.NET
Core applications with a React client (`src/apps`), and Pulumi programs that
bring them to where they run (`src/infra`, `src/central`, `src/k8s`).  This
directory holds TLA+ specifications of it, the TLC configurations that check
them on small instances, and TLAPS proofs of the properties that matter most.

- [The system](#the-system)
- [What makes it hard](#what-makes-it-hard)
- [Modules](#modules): [services](#services), [client](#client), [delivery](#delivery)
- [Runs](#runs)
- [Bounds, symmetry, fairness, deadlock](#bounds-symmetry-fairness-deadlock)
- [Proofs](#proofs)
- [Disagreements between the code and what it says of itself](#disagreements)
- [Not modelled](#not-modelled)
- [Plan](#plan)

Paths below are relative to `src`, those of the services to `src/apps` and those
of the client to `src/apps/api/ClientApp/src`.

## The system

**Services.**  A request arrives at a controller or page (`api/Controllers`,
`api/Pages`, `api/Areas`), which calls a service (`api/Services`,
`common/Services`), which reads and writes entities through stores
(`common/Stores/EFCore/EFStoreBase.cs`).  The services keep nothing in memory
between requests; **the database is the only state they share**.  Every request
has a `DbContext` of its own, and every `await` of a database call is a place
where other requests run.  Two facts about the stores decide most of what
follows:

- `UpdateAsync` (`EFStoreBase.cs:61-67`) ignores its argument and calls
  `SaveChangesAsync`: *all* changes the context tracks are saved, also those an
  earlier failed step of the same request left behind.
- The provider is chosen at start (`api/StartupModules/StorageModule.cs:72-84`).
  In **Sql** (development; the tests' in-memory provider behaves alike)
  owned entities are rows of their own, a save is one transaction and foreign
  keys hold.  In **Cosmos** (production) owned entities are embedded in their
  owner's document, a save replaces each changed document by the context's copy
  of it, there is no concurrency token and no foreign key.

**Client.**  A page is a React component.  An event (a click, a key, an answer)
changes state, a commit follows, and the effects whose dependencies changed run
on the state of that commit before the next event.  Most of what pages show
comes from the library `react-amphora` (not in the repository), whose contexts
outlive the pages and hold one result each, and from the browser's address,
history and storage: **these are the state pages share**.  Requests are answered
in any order, late, or not at all.  The Razor pages use scripts of their own
(`apps/api/wwwroot/js`) with libraries kept in the repository (`wwwroot/lib`).

**Delivery.**  Pulumi runs a program that declares resources; a resource waits
for what its arguments, its parent and its `dependsOn` name, and all else is
done in any order.  An update may stop anywhere and is run again.

| Component | State it keeps | Operations | Must hold | Module |
|---|---|---|---|---|
| Purchases and monthly charges (`PurchaseService`, `AccountsService`, `CommissionTrackingService`) | purchases with `LastDebitTime`; debits, credits, commissions; `PurchaseCount` | buy; monthly run over all purchases | no sale without a charge; amounts add up; charged once a month; the report is true | `Billing` |
| Invoices (`AccountsService.GenerateInvoiceAsync`) | invoices; the account's transactions | generate, preview, regenerate; an administrator enters a credit | the balance survives; nothing is lost or invoiced twice | `Invoicing` |
| Organisations, members, invitations | memberships and roles; home organisations; invitations | create, delete, invite, accept, reject, promote | a home has its user as a member; who accepted is a member | `Membership` |
| Permissions, access rules, terms of use, Amphorae | rules; terms and acceptances; the terms an Amphora refers to | decide a level; add and delete rules, terms; accept, buy, read | levels are ordered; saved rules stay; terms in use exist; contents are earned | `Access` |
| My Amphora and creation (`MyAmphoraPage`, `CreateAmphora`) | tab, page, scope, results; the form and its inputs; a timer | list, turn pages, create | the list is the one selected and has what was created; what is sent was shown | `Collection`, `Library`, `CreateForm` |
| Search (`SearchSection`) | term and page, in the address and in state; results | search, turn pages | what is found is what was asked for | `Search` |
| One Amphora (`ConnectedAmphoraModal`, its menu and views) | the current Amphora of the context; attempts; menu; map; history | read, edit, buy; draw the map; add a signal | what is shown is current; edits undo no other; inputs open on what is shown; one map; going back leads to the signals | `Detail`, `Editing`, `MapView`, `AddSignal` |
| Files (`Files`) | names listed, uploads and a download under way | list, upload and download in two requests each | what was uploaded is listed | `FilesPage` |
| Applications (`ApplicationsPage` and dialogs) | the list, the dialog, the application it edits | create, edit with locations, delete | one dialog creates one; what is saved is what was typed | `Applications` |
| Account, plan, invitation, feed, quality | the section's rows; dialogs | open a section, choose a plan, invite | a section shows all there was; the plan shown is the plan | `Account` |
| Terms of use (client) | route, form, results of the context | list, open, create | what is sent is what is shown; terms that exist are shown | `Terms` |
| Session (`Routes`, `Layout`, `Challenge`, splash) | the tab's path, the user, the layout, redirects asked for | sign in and out across two sites | the layout fits the user; something always goes on | `Session` |
| Menu and tour | window, menu, prompt, tour, storage | resize, toggle, answer, walk | both follow what the user last said | `Navigation` |
| Service worker | workers active and waiting, the version of the page | register, renew, remove | an update is seen on the next visit; no reload for ever | `Worker` |
| Toasts and settings | settings, toasts shown and queued | tell operations; switch | told is what the settings say | `Notices` |
| Attribute editor (`attributeEditor.js`) | rows by index, inputs, the hidden input | add, change, remove | what is sent is shown; no index is used twice | `Attributes` |
| Chart and its colours (`tsi.js`, `color-scheme.js`) | range and filters, the chart; the object of four colours | brush, filter, draw; settings, `colors()` | drawn is what is selected | `Chart`, `ColorScheme` |
| Auto-completion (`geo.js`, ...) | input, list, fields | type, choose | listed is of the input, a position is one place | `Autocomplete` |
| Word clouds (`wordcloud2.js` and its page) | loops, grid, canvas; form, hash, mask | start, draw word by word, hover; run an example | one cloud is drawn, words do not overlap, the address names it | `WordCloud`, `CloudPage` |
| Infrastructure (`infra`, `central`) | what has been created | update, fail, update again; apps start | no write to the vault is refused; apps come to run | `Deployment` |
| Cluster (`k8s`) | objects, images, pods | update with another image, fail, again; probes | what serves goes on serving; a good image comes to serve | `Cluster` |

Services that no module has (activities, applications on the server, search
index, data requests, caches, identity, e-mail, feeds, migrations, pipelines) are
under [Not modelled](#not-modelled).  `PROJECT.json` lists all components with
their sources and status.

## What makes it hard

- **Check, then act.**  Nearly every rule of the services (one purchase, one
  invoice per month, terms not in use, user limit) is looked up in one database
  call and relied on in a later one, with nothing unique in the database.
- **Several saves per handler, no transaction around them.**  A purchase is
  seven database calls; a monthly run is four per purchase.  Any of them may
  throw, and the process may die between two.
- **Leftovers.**  The run's `catch` block (`AccountsService.cs:71-75`) goes on
  with a context that still tracks the failed purchase's changes.
- **Document replacement.**  In Cosmos two requests that change one
  organisation at the same time drop each other's accounts, memberships and
  acceptances.
- **The calendar.**  Months are compared with and without their year, a
  month's window is exclusive at both ends and ends nine seconds early, and
  `LastDebitTime` is the time of the save, not of the debit.
- **One thing kept in three places.**  What a page shows is in the address, in
  the page's state and in a context, copied by effects that read the state of
  the commit and not the latest.
- **Answers to what is no longer asked.**  Requests overtake each other; their
  page, dialog or map may have gone, or be there anew, when the answer comes.
- **Inputs that keep the last good value.**  An input checks its text when it
  loses the focus; what is sent may be neither valid nor what is shown.
- **Order that only `dependsOn` keeps.**  Right to write to the vault before the
  first secret, right to read it before an app starts, webhook before issuer.

The places where this bites are under `hazards` in `PROJECT.json`, each with the
properties that would catch it, or a note.

## Modules

### Services

| Module | What it is |
|---|---|
| `Billing` | purchases and monthly runs, call by call |
| `Subscription` | abstract specification: a purchase is charged once for every month begun since its first charge, or less often, but for one charge for every failure |
| `BillingProofs`, `SalesProofs` | proofs about `Billing`: types and single charges; the sums, the reports, the months and the refinement of `Subscription` |
| `Invoicing` | invoices of one account |
| `InvoicingProofs` | proofs about `Invoicing`, and the laws of its sums |
| `Membership` | organisations, members, invitations |
| `MembershipProofs` | proofs about `Membership` |
| `Access` | one Amphora: rules, terms of use, purchases, and the permission decision |
| `AccessProofs` | proofs about `Access` |
| `MCBilling`, `MCInvoicing`, `MCMembership`, `MCAccess` | the small instances TLC checks |

Every module models the store once: `Provider = "Sql"` adds and removes rows,
`Provider = "Cosmos"` replaces documents by the copy the context loaded
(`seen`, `copy`, `loaded`).  A save that the database refuses (a row already
there or gone, a broken foreign key) ends the request in an error.  Entities
are named by the request that creates them.

In all modules, definitions marked `(mutant of ...)` stand before the definition
they could be mistaken for; they are plausible slips that the properties have to
notice, and are not part of the behaviour.

#### Billing

Processes are requests (`PurchaseService.PurchaseAmphoraAsync`) and runs
(`AccountsService.PopulateDebitsAndCreditsAsync`).  `pc` is the await a process
stands at.

| State | In the code |
|---|---|
| `purchases`, `order`, `lastDebit` | `PurchaseModel`: existence, buyer and Amphora, `LastDebitTime` as a month |
| `softDeleted`, `purchaseCount` | `AmphoraModel.IsDeleted`, `PurchaseCount` |
| `debits`, `credits`, `commissions` | `Account.Debits`, `Account.Credits`, `CommissionModel`s; a row records the process, purchase, organisation, amount and month |
| `pending`, `seen` | the unit of work: tracked but unsaved changes, the documents as loaded |
| `todo`, `cur`, `report` | the run's loop and its `Report` |

| Action | In the code |
|---|---|
| `CheckCanPurchase`, `QueryExisting`, `CreatePurchase` | `PurchaseService` 82-87 with 54-67, 88-93, 94-98 |
| `DebitBuyer`, `CreditSeller`, `TrackCommission` | 99-114, `CommissionTrackingService` |
| `CountPurchases`, `StampPurchase` | `PurchaseCount` and `LastDebitTime`, 116-123 |
| `StartRun`, `TakePurchase`, `DebitPurchasingOrganisation`, `CreditAmphoraOrganisation`, `DeletePurchase`, `FinishRun` | `AccountsService` 43-108 |
| `ReadFails`, `SaveFails`, `RequestFails`, `KillRun` | an exception at a read or a save, a process that dies |
| `SoftDelete`, `NextMonth` | `AmphoraeService.DeleteAsync` with soft deletion, the clock |

`Spec` interleaves the processes freely; `SerialSpec` lets one run at a time.
The properties that depend on a check-then-act (no double purchase, one charge a
month) are the serial ones; the others hold under every interleaving.
`SellerShare` models `Math.Round` (ties to even) on hundredths.

#### Invoicing

One account.  Generators are calls of `GenerateInvoiceAsync`, writers enter one
transaction each.  The clock has three instants a month: midnight of the first,
the rest, and the last nine seconds, because `StartOfMonth < Timestamp <
EndOfMonth` leaves the first and the last out.  `ReadOrganisation`,
`ReturnExisting`, `StartInvoice`, `SaveInvoice`, `RemoveOld`, `CloseMonth` are
the awaits of `AccountsService.cs:118-217`; `Carry` is the transaction that
carries the invoice's balance over.

#### Membership

`CountWebsites`, `CreateOrganisation`, `SetHome`, `DeleteAgain` are
`OrganisationService.CreateAsync` (46-103), with its compensation;
`ReadToDelete`, `DeleteOrganisation` its `DeleteAsync`.  `CheckInviter`,
`LookUpInvitation`, `CreateInvitation`; `ReadInvitation`, `Join`,
`AnswerInvitation` are the two handlers of `InvitationService`, with
`InvitationWorkflow` as the guard on the answer.  `CheckAdministrator`,
`Appoint` are the `SetRole` page.  `MaxUsers` is the plan's limit, checked when
a user is invited, as in the code.

#### Access

One Amphora.  A request reads and is checked in one action
(`CheckCreateRule`, ...) and saves in the next (`CreateRule`, ...), so that
anything may happen in between; a refused request changes nothing and is no
step.  `IsAuthorized` translates `PermissionService.IsAuthorizedAsync` branch
by branch:

1. the user's home organisation owns the Amphora: up to `CreateEntities`; the creator: up to `Update`;
2. the role in the owning organisation;
3. the access rules, if the level is `Purchase` or `ReadContents` and one is for all, the organisation or the user: the first of the highest priority decides;
4. a denied user gets nothing more (no case is left for this branch: where a rule denies, 3 has decided for the levels 5 can grant);
5. the organisation bought it: up to `ReadContents`; it is public: up to `Purchase`.

Where several rules of equal priority are for one organisation or one user, the
order of the list is the database's, and `IsAllowed` is true if one of them
allows.  `Throws` is the null reference of a user without an organisation once
there are purchases.  Memberships are a constant here (`RoleIn`): `Membership`
has their life.  `purchases` records the terms a purchase was made under, which
the code does not store; it is there to state `ContentsAreEarned`.

### Client

`Browser` holds what all client modules share: `Off` (a component that is not
mounted), the bounds on requests and failures, and what it is that a step is: an
event, after which the effects that are due (`...Due`, `DueFor`, `RunListEffects`
and their like) run before the next event (`Settled`).  What is asked of a
context or of the server is a sequence or set of requests under way; an answer may be
that of any of them, and may fail.  The libraries the repository does not
have (`react-amphora`, `react-router`, the OIDC client, Joyride, toastify, the
browser's service workers, `tsiclient`, `autoComplete`) are what the code in the
repository uses them for, and are marked external in the map.

| Module | State | Actions | Source |
|---|---|---|---|
| `Collection` | `url`, `list`, `mine`, `mineAsked`, `stored` | `RunListEffects` (`UrlEffect`, `FetchEffect`, `ResultsEffect`, `LoadingEffect`), `ClickTab`, `ClickPage`, `ClickRow`, `SelectScope`, `AnswerList`, `FailList` | `components/amphorae/MyAmphoraPage.tsx`, `molecules/tabs`, `molecules/pagination`, `AmphoraTable.tsx` |
| `Library` | and `writing`, `creating`, `timers` | `Collection` with the page that creates, the answer, and the fetch a second later | `CreateAmphora.tsx:110-130` |
| `CreateForm` | `form`, `offered`, `sent` | typing, blurring, choosing terms, the price dialog saved, cancelled, closed by a key; `FormSpec` is the form alone | `CreateAmphora.tsx`, `molecules/inputs` |
| `Search` | `findUrl`, `find`, `found`, `findAsked`, `findLed` | as `Collection`, with the term's box; `FollowLink`: a link or "Back" changes the address under the page | `search/SearchSection.tsx`, `HamburgerMenu.tsx:194-200` |
| `Detail` | `detail`, `ops`, `opsAsked`, `amphora`, `level` | `ReadEffect` (four attempts), `MenuEffect`, the purchase and its second read | `ConnectedAmphoraModal.tsx`, `detail/` |
| `Editing` | and `magic` | `Detail` with the inputs that edit in place: `Mount` with the page, `StartEditing`, `TypeText`, `CompleteEdit`, `CancelEdit` | `molecules/magic-inputs`, `detail/Description.tsx` |
| `MapView` | `map`, `keysAsked`, `drawn` | the effects that ask for the key and draw | `geo/MapComponent.tsx` |
| `AddSignal` | `trail`, `here`, `signal`, `saves` | the history, the form, the answer that goes back | `detail/signals` |
| `FilesPage` | `files`, `otherReads`, `listing`, `cancelled`, `uploads`, `download` | the effect with its cancellation, run again by the flag or by another object for the Amphora (`ReplaceAmphora`); upload and download in two requests | `detail/Files.tsx` |
| `Applications` | `appList`, `modal`, `appReqs` (a bag: Save may be clicked twice), `apps` | list, dialogs, locations | `components/applications` |
| `Account` | `section`, `planModal`, `inviteModal` | sections, plan, invitation; the feed and the quality | `components/account`, `feeds/FeedComponent.tsx`, `detail/Quality.tsx` |
| `Terms` | `termsRoute`, `termsForm`, `termsResults` | list, detail, form | `components/terms` |
| `Session` | `tab`, `user`, `connected`, `leaving`, `keptUser`, `idSession` | splash, layout, challenge, callback, logout; `ClickHome` and `SignInButton` of the public layout; `SessionSpec` is the session alone | `Routes.tsx`, `Layout.tsx`, `components/auth`, `PublicNavMenu.tsx`, `withSplashScreen.tsx` |
| `Navigation` | `shown`, `tour`, `tourStored`, `step`, `window`, `burger` | menu and tour | `HamburgerMenu.tsx`, `tour/` |
| `Worker` | `deployed`, `active`, `waiting`, `visit` | deploy, open, register, check, reload, close | `registerServiceWorker.ts` |
| `Notices` | `settings`, `toggle`, `notices`, `queued` | operations of the library, the switch | `utilities/toasts.ts`, `SettingsPage.tsx` |
| `Attributes` | `attributes`, `drawnRows`, `metadataInput` | add, change, blur, remove; `redrawUI` shows of a text what is before its first double quote | `api/wwwroot/js/attributeEditor.js` |
| `Chart` | `chart`, `graph`, `chartAsked` | brush, filter, draw | `api/wwwroot/js/tsi.js` |
| `ColorScheme` | `scheme`, `colours` | settings and `colors()`; the formulae are operators, exact on whole degrees | `api/wwwroot/lib/color-scheme/color-scheme.js`, `tsi.js` |
| `Autocomplete` | `box`, `boxAsked` | type, pause, list, choose | `api/wwwroot/js/geo.js`, `organisationsAutocomplete.js` |
| `WordCloud` | `loops`, `picture`, `written`, `info`, `clouds` | `start`, a word at each tick, hover | `api/wwwroot/lib/wordcloud/src/wordcloud2.js` |
| `CloudPage` | `hash`, `cloudForm`, `mask`, `images` | the form, the hash and its event, the mask, run | `api/wwwroot/lib/wordcloud/index.js` |

**Composition.**  `Browsing` and `Managing` extend these modules, `BrowsingProofs`
and `ManagingProofs` have the proofs about them.  Two pages
that share state are one module or extend one another (`Library` and
`Collection` share the context and the address; `CloudPage` starts the clouds of
`WordCloud`).  The others share nothing but the server, and each module has its
part of the server; interleaving them would multiply the states and
show nothing.  So a behaviour is one user's visit, of any length, to one of
them: `visited` is chosen at the start, and `Visit(page, steps, others)` says that the steps of that
page are taken and the others stand still.

Facts of the libraries in the repository that the models keep, since a reader may not expect
them: every call of `colors()` turns three of the object's four hues again; a
chart has sixteen colours, and the seventeenth signal gets `#undefined`; a
cloud that is started stops the one before by an event that its loop listens
to; a row of the attribute editor that is drawn again is cut at a double quote and kept
whole; a place chosen while a request is due is followed by the
placeholder `Loading...`, which nothing removes.

### Delivery

| Module | State | Actions | Source |
|---|---|---|---|
| `Deployment` | `asked`, `created`, `update`, `running`, `refused` | `Create` a resource, `Fail`, `Finish`, `Again`; `Start` an app, which reads the vault | `infra/components`, `central` |
| `Cluster` | `objects`, `runs`, `ready`, `hung`, `secret`, `refusals` | `Begin`, `Apply`, `TimeOut`, `Complete`; `ComesUp`, `Hang`, `Restart`, `Issue`; `MakeElsewhere` | `k8s` |
| `Delivery` | both | either one or the other | |
| `DeliveryProofs` | | proofs about both | |

In `Deployment` every declaration is a record of what it makes and what it
needs: outputs among its arguments, its parent, `dependsOn`.  An instance
follows one resource with all that it stands on (`StandsOn`), for the creation
of any other has no part in its fate; every choice of that resource is an
initial state.  In `Cluster` an instance follows one part (`api`, `frontend1`,
`identity1`).  The two programs share one output: `k8s` reads the name of a cluster from
the stack `infra`, where the line that gives it is commented out
(`infra/index.ts:102`): an update may fail at once for want of it.
`dependsOn` on a file of manifests waits only for the objects known when it was
evaluated, so which of them `known` holds is a choice, and the webhook is named
besides.  The namespace and the config maps are made nowhere in the repository;
`MakeElsewhere` makes them, some time.

## Runs

| Run | Instance | States | Shows |
|---|---|---|---|
| `billing_faults` | 1 request, 2 runs, 2 users, Sql, 2 failures or deaths, a month ahead | 97 k | no seller is paid for a sale that was not charged; commission = price - share; the report, the answer and the debit time are true |
| `billing_serial` | 2 requests, 2 runs, 2 Amphorae, Cosmos, one process at a time, 1 failure or death | 325 k | an organisation buys once; the next run charges what a dead request left; the charges implement `Subscription` |
| `billing_overlap` | 1 request, 2 runs, Sql | violation | a purchase and a run charge the same month |
| `invoicing_races` | 2 generators, 2 writers, 1 month, Sql, 1 failure | 748 k | the balance is the sum of what was entered, through every overlap and failure |
| `invoicing_serial` | 3 generators, 1 writer, 2 months, Cosmos, serial, 1 failure | 1.75 M | nothing is forgotten, listed twice, or left over after a regeneration |
| `membership_races` | 4 requests, 2 users, 1 website, Sql, 1 failure | 116 k | `TypeOK`; a home is a membership; an accepted invitation is one too |
| `access_races` | 3 requests, 4 users (administrator, member, buyer, neither), priorities 0 and 1, Sql | 291 k | `TypeOK`; terms in use exist; levels are ordered; rules stay; contents are served to those who earned them |
| `client_browsing` | 10 kinds of visit, 2 requests under way, 1 failure | 509 k | what is shown is what was asked for, on every page with which Amphorae are found, made and looked at; no page loads for ever |
| `client_managing` | 9 kinds of visit, 2 requests under way, 1 failure | 956 k | lists are the server's, forms send what they show, the shell follows the user, an update is seen on the next visit; nobody waits for ever |
| `deployment` | every resource followed, 1 failure; every part, 2 images of which one never answers, 2 updates, 1 hang | 88 k | no write is refused; every update ends; what was asked for comes to run; what serves goes on serving |
| `free_price` | the form of a new Amphora | violation | a price of $0 is not sent |
| `sign_in_path` | one tab | violation | who signs in is not taken to the page opened |

Every property of a passing run has a mutant in `PROJECT.json`: a definition of
the module replaced by the one beside it makes TLC report the property
violated, so that no property holds for the want of a case.  Properties that
are conjunctions (`SelectedIsShown`, `ShellFollowsUser`, ...) have more than one.

Where a property excuses something ("unless a request failed or was overtaken"),
the code does not handle that, and the excuse is as small as the code allows: it
is taken back when the page asks again, except that of a context that has fallen
`behind` (`Detail`), which stays.  Those excuses are themselves what the
models found; they are listed under [Disagreements](#disagreements).

## Bounds, symmetry, fairness, deadlock

**Bounds.**  Services: `MaxMonth`, `MaxFaults`, `MonthsAhead` and the sizes of the sets of
processes.  Two processes are what every race in the code
needs (check-then-act, lost update); two months are needed for a charge to be
due again; three generations for one to clean up after two others; four
requests for create, invite, join and one more.  With
two failures (a dead request *and* a failed read in a run) `RunLeavesNoneUncharged`
does not hold of the code, since the failed read leaves `LastDebitTime` in the
context and the next save writes it; it is checked with one.  Price 124 and rate
90 % make the share round (111.6).

Client: `MaxRequests`, `MaxAsked` and `MaxSearches` bound the requests under way at two, which is what one
overtaking another needs; `MaxFaults` one failure a visit.  `LastPage` is the
page that is not full.  `Fields` are the name and the price: the
description is completed as the name is and sent as the price is.  `MaxTrail` 4 has the history hold the page before the
signals, the signals, the form and one more.  `BoxTexts` has a text below the
threshold of three letters, one at it and one above.  `Hues = {715}` is a hue that wraps
(715 mod 360 = 355, near the end of the wheel, so that the other colours wrap
too); all five schemes are there.  A canvas of 2 by 2 cells with words of size 1 and 2
lets words stand beside each other, be turned, not fit, and shrink.
`LastIndex` 2 lets rows be added after one has been removed.
The text of an attribute is what is before its first double quote (`Heads`) and what is from
it on (`Rests`), each of them empty or not.  The reads of the Amphora besides
the one that shows its files (`otherReads`) are among those `MaxRequests` bounds.  `MaxVersion` 3 is
a version cached, one deployed and the next.

Delivery: one failure anywhere; `MaxUpdates` 2 for an image that never answers to
follow a good one or come before it; `Depth` 9 is the longest chain of resources.

**Symmetry** is used where processes, users and Amphorae are interchangeable:
nothing in the modules or in the properties tells them apart.  Runs with
liveness do without.

**Fairness.**  What is assumed is what the programs' schedulers give, and never
that a user does anything or that a request does not fail.

- Weak fairness of the effects of a commit (`Effects`): React runs them.  The
  same holds of the splash's timer and, for itself, of a redirect that was asked for:
  the browser leaves whatever the page goes on doing.
- Strong fairness of the answers (`Answers`, `UploadsEnd`) and of the timer of a
  cloud (`Ticks`): an answer, also a failure, is an event the browser takes in the end, however busy the
  user is; in the model the user's events disable it again and again, by leaving
  the page, so that weak fairness would not say so.  Which of the answers
  under way is taken is left open, except that the answers to uploads, which
  nobody has to wait for, are fair for themselves.
- Weak fairness of the engine of an update, of the platform that starts apps,
  and of the cluster's pods and certificates (`EngineSteps`, `Starts`, `Engine`, `Kubelet`).
  Nobody need run an update, or run it again: `DeliveryComesToRun` says what
  follows an update that is done.
- None in the services: all that is checked there is safety.  Nothing in these
  handlers waits for another.

`PagesAreShown` and `NobodyWaitsForEver` are stated `[]<>~P`, which says the same as
`P ~> ~P` and is cheaper to check: whenever something is awaited, it comes.

**Deadlock** checking is off: requests, runs and updates are used once, and
when all have ended the system of the model stops, where the program waits for the
next.

## Proofs

TLC checks the instances above; these theorems hold for every value of the
constants that satisfies the assumptions named in the modules, which TLC
evaluates on every run.

| Theorem | States | Under |
|---|---|---|
| `BillingProofs!TypeCorrect` | `Spec => []TypeOK` | any provider |
| `BillingProofs!SaleIsCharged` | `Spec => []NoSaleWithoutCharge` | Sql |
| `SalesProofs!CommissionsAddUp` | `Spec => []SalesAddUp` | Sql |
| `SalesProofs!ReportsAreTrue` | `Spec => []ReportIsTrue` | Sql |
| `SalesProofs!PaidMeansCharged` | `Spec => []PaidIsCharged` | Sql |
| `SalesProofs!PurchasedOnce` | `SerialSpec => []CantPurchaseTwice` | any provider |
| `SalesProofs!ChargedByTheMonth` | `SerialSpec => Sub!Spec`, the refinement of `Subscription` | Sql, no month billed ahead |
| `SalesProofs!RunsChargeAll` | `SerialSpec =>` a run at its end leaves nothing uncharged while no run was harmed | any provider and failures |
| `SalesProofs!NoneLeftUncharged` | `SerialSpec => RunLeavesNoneUncharged` | any provider, one failure |
| `InvoicingProofs!BalanceStays` | `Spec => []BalanceIsKept` | Sql |
| `InvoicingProofs!RegeneratingLeavesOne` | `SerialSpec => RegenerateLeavesOne` | any provider |
| `InvoicingProofs!NothingForgotten` | `SerialSpec => NothingIsForgotten` | any provider |
| `InvoicingProofs!EachListedOnce` | `SerialSpec => []ListedOnce` | any provider, one failure |
| `MembershipProofs!TypeCorrect` | `Spec => []TypeOK` | any provider |
| `MembershipProofs!HomeIsHome` | `Spec => []HomeIsMembership` | Sql |
| `MembershipProofs!AcceptedJoins` | `Spec => []AcceptedIsMember` | Sql |
| `AccessProofs!TypeCorrect` | `Spec => []TypeOK` | any provider |
| `AccessProofs!LevelsOrdered` | `Spec => []LevelsAreOrdered` | any provider |
| `AccessProofs!TermsStay` | `Spec => []TermsAreThere` | Sql |
| `AccessProofs!RulesStay` | `Spec => RuleStays` | Sql |
| `AccessProofs!ContentsEarned` | `Spec => ContentsAreEarned` | Sql |
| `BrowsingProofs!AddressIsShown` | `Spec => []SelectedIsShown` | |
| `BrowsingProofs!CreationsAreListed` | `Spec => []CreatedIsListed` | |
| `BrowsingProofs!FindsAreOfTheQuery` | `Spec => []FoundIsAsked` | |
| `BrowsingProofs!CreationIsValid` | `Spec => []SentIsShown` | |
| `BrowsingProofs!EditsAreKept` | `Spec => []DetailIsCurrent` | |
| `BrowsingProofs!SaverReturns` | `Spec => []SavedReturnsToSignals` | |
| `BrowsingProofs!DrawnAsChosen` | `Spec => []DrawnIsChosen` | |
| `BrowsingProofs!CloudsAreTrue` | `Spec => []CloudPageIsTrue` | |
| `ManagingProofs!UpdatesAreSeen` | `Spec => []NewestIsSeen` | |
| `ManagingProofs!ListIsTheServers` | `Spec => []ListingIsTrue` | |
| `ManagingProofs!RowsAreAddedApart` | `Spec => AddedRowsAreNew` | |
| `ManagingProofs!SentIsWhatIsShown` | `Spec => []FormsSendWhatTheyShow` | |
| `ManagingProofs!AccountShowsTheServers` | `Spec => []AccountIsTrue` | |
| `ManagingProofs!ShellIsTheUsers` | `Spec => []ShellFollowsUser` | |
| `ManagingProofs!ApplicationsAsAsked` | `Spec => []ApplicationsAreAsAsked` | |
| `DeliveryProofs!WritesAreAccepted` | `DeliverySpec => []NothingIsRefused` | |
| `DeliveryProofs!ServingStays` | `DeliverySpec => UpdatesKeepServing` | |

**Billing.**  `NoSaleWithoutCharge` is not inductive: a credit is added by a
process that *stands at* its credit, or carries one in `pending` since an
earlier failure.  `LedgerInv` therefore says also that every credit a unit of
work tracks is covered by a stored debit, and that a process about to credit
has debited, no later than `now`.  `WorkCovered` shows it of a unit of work,
`LedgerSave` and `DebitSaved` of a save, `RequestLedger` and `RunLedger` of the
steps.  `OrdersStand` (a started request keeps its order) strengthens the type
invariant.  Only Sql: in Cosmos a replaced document loses debits.

**Sales.**  `SalesInv` says of the database what `SalesAddUp` and the debit
times promise, and of every process (`ProcessInv`) that what it has tracked and
not saved would keep it so (`TrackedAddUp`, `TrackedEarned`), that what it has
saved stands, and that its report is true of what it has passed.  A step is first shown to go
`Onward` (orders stay, rows are added, a commission leaves with its purchase),
which keeps the invariant of every process that does not move; what is left is
the process that does.  `TurnInv` adds, for one process at a time, that who has
queried and found nothing still would.  `SerialInv` is what the refinement
needs: a purchase has been charged at most as often as months are paid
(`MonthsPaid`, from the first charge to the debit time) and once more while it
is not stamped (`ChargesInv`), and what a run has tracked is `Fair`, dated
anew and charged once for each purchase, so that a save, of whatever is
pending, is one `Charge` of `Subscription`.

`UnchargedInv` serves both providers, for which no fact of one place alone is
enough.  In Cosmos a save replaces the documents it touches by the copy of the
process, so that no debit may be missing from the copy of who is at work
(`FreshCopy`).  While no run is *harmed* (has reported an error or, in Cosmos, was killed, so that it
may have saved a debit time without its debit), a purchase nobody was charged
for was never debited, and a run at work has yet to visit it (`WaitInv`); that needs of a run
that it tracks the debit time of the purchase in hand only, and has charged
none of those it has yet to visit (`RunClean`), and of a request that what it leaves uncharged
was left by its death (`RequestTidy`).  This gives `RunsChargeAll` with any number of
failures.  `FaultsInv` counts them, a death and a harmed run are two, and gives
`RunLeavesNoneUncharged` with one.

Stating the refinement in general changed the abstract specification.
`LastDebitTime` is assigned before the debit is sent, and the debit is dated when
it is made; rows of a save that failed are saved, and charged, in a later
month.  So two charges may fall in one calendar month, the later standing for
the month before, and "at most once in each month" is more than the code gives:
`Subscription` promises as many charges as months have begun since the first,
or fewer, and one more for each failure.  With a month billed ahead
(`MonthsAhead > 0`) not even this holds.

**Invoicing.**  `BalanceIsKept` compares sums over sets.  `Balance` is the
fold of the community modules, a recursive function below; its laws
(`BalanceType`, `BalanceWith`, `BalanceSplit`: an integer, one transaction more, a set and
the rest) are proved for every finite set from the existence of the function on
smaller sets, by a smallest set without (see below).  `MoneyInv` adds that transactions of
the account are by processes that are through, so that the next is new.
`TurnInv` says of one process at a time that its copies are fresh, that an
invoice's lines lie in its month, and that previews list what is still in the
account; `ListedInv` that two final invoices share a transaction only after a failure and
while a generator is about to remove one.  This last is false with
two failures, and so is `ListedOnce`: a generation cut short before it closes the month
leaves an invoice behind, the next one lists the same lines, and a failure of
its clean-up leaves both.

**Membership.**  `IInv` adds to `TypeOK` what a request remembers: every
request that is at work has a user (`Named`); an organisation that exists was
created by its request, which has passed that point (`Born`); between
`CreateOrganisation` and `SetHome` the creator is a member (`AdoptInv`); who is
about to join as a member already loaded still is one (`JoinInv`); what a
request holds of its invitation still fits the stored one (`InHand`); who is
about to answer "accepted" has joined (`AnswerInv`); invitations are for
organisations that exist and have been created (`ForOrganisation`, `Created`).
Instead of treating each of the fifteen actions in every conjunct, `StepShape`
shows once what a step can do to the data of a request (`Moves`), to those of
others (`Elsewhere`) and to the database (`Writes`); one lemma per conjunct
then uses these three.

**Access.**  `TypeInv` adds that a request with something to save has a user,
an organisation, an Amphora and terms where the save needs them.  `Ordered` is a
case analysis of the decision: the rules apply to two neighbouring levels and
what purchases and publicity grant lies below the rules' upper bound.
`ContentsEarned` needs `AgreedInv`: purchases, made or about to be made, are of
terms accepted, which stay accepted in Sql.  `Saves` lists the steps that change
the database, so that each proof looks at those only.

**Client: Browsing.**  A visit moves one page (`PageSteps`), so each invariant is that of one
module.  The pattern is the same for all lists: *what is selected is what was
asked for last, or what the context has, or is about to be asked*, for any
number of requests under way (`SearchInv`, `ListInv`, `BoxInv`; the last of a
sequence is `Latest`, and an answer takes out any element, `WithoutOne`).
`UrlInv` explains the effects of `MyAmphoraPage` that write the state of a
commit over each other: the one that could undo the other runs beside it only when there is
nothing to undo.  `CreatedInv` says that what should be listed was stored
before the list was asked for last.  `FormInv` relates what the form holds to what
its boxes show, `TrailInv` and `SignalInv` the history to the form's view and to
the one save awaited.  `EditingInv` is the largest: `ContextInv` (a context that
is not behind has one request at most, built on the Amphora as it is but for
its own field) and `MagicInv` (the inputs that are open hold what is shown).
`MapInv` says that a map's key is awaited once and before there is a map,
`ChartInv` that what is selected was asked for last or is drawn.

*Colours.*  The generator is an object that every call turns: three of its four
hues are set anew from the first (`UsedAreTurned`).  `ColoursInv` says that the
object is in one of `SchemeStates` and that its colours are those of its
settings, so that asking twice gives the same (`SameColours`).  That each is a
colour is a chain of bounds: of a hue between two entries of the wheel
(`HueBetween`), of a base colour (`BaseType`), of a part as two hexadecimal digits
(`HexType`).  That the sixteen of a chart differ (`SeriesApart`) is not a search
over a table: `SeriesBase` finds the four base colours between known
colours of the wheel, `PastelShades` the shades of each, and a warm and a light
part tell two colours of different bases, or two shades of one, apart.

*Clouds.*  `CloudInv` says of every word in the picture that its cells are free
for no loop (`Kept`).  A word is put where all its cells are free, at whatever
size `putWord` has come down to (`PutWhereItFits`), so that it covers none.  `CloudPageInv` adds that the hash
names the example the form was filled with, or is about to be read
(`HashNamesTheCloud`).

**Client: Managing.**  `FilesInv` says where every stored file is on its way to
the list: listed, in the answer awaited, or of an upload that will have the list
loaded again (`Has`); a page that is loading, and a flag that is set, wait for a request or
for the catch of a cancelled one.  `SearchInv` and `FilesInv` excuse only what the code leaves open, an
address led away and a cancelled load that nothing follows.  `AttributesInv`, `TermsInv` and `InvitationInv` relate what would be
sent to the inputs, except the one with the focus, and of an attribute that has been drawn again the whole
to what a redraw shows; `AccountInv` what a section
will be answered to what the server had when it was opened; `SessionInv`,
`NavigationInv` and `NoticesInv` the shell to storage and user; `WorkerInv`
bounds what is deployed by what was checked: the worker that waits is the newest
checked, and waits behind an older one.  For `Applications` the requests
under way are a bag, since Save may be clicked twice with one text: `CreatesInv`
says that while a form is not excused one creation is awaited at most, once, and
only after which nothing has been made; `StoredInv` that under a list nothing
changes that was not under way before.

**Delivery.**  That a write needs its policies is a property of the whole
program of declarations: `WritesWait` shows, one component after
another, that every declaration whose output is a secret, key or certificate
has all of `AccessPolicies` among its `needs`, for any number of plans.  The rest is
short: what is created has had its needs created, by any earlier update.
In the cluster the order of the manifests does the same for the issuer, and a part that is
served has a ready pod of an older image until a newer one answers.

**Assumptions.**  Those of the services are on the sizes of bounds and on values that are
not values of a type (`None`, `NoTerms`).  Those of the client say that `Off`, the state of what is not
mounted, is none of the states of what is mounted (`FilesAssumption`,
`ApplicationsAssumption`, `AttributesAssumption`, ...), and of the texts of a box
that the empty one is not long (`AutocompleteAssumption`).  `NoName` is the name
of no example, and examples are records of a list of words and of options
(`CloudPageAssumption`).

**Induction.**  The library's induction theorems take an operator as a
parameter, which the provers cannot instantiate.  Where a proof needs
one (the sums of `Invoicing`, the sizes of `putWord`) it takes a smallest
counterexample: the finite sets without the fact, ordered by inclusion, or the
numbers, have a minimal one (`WFMin` of the library), and one element less
gives the contradiction.  For `putWord`, a recursive function of the size of a word, there are
two: the smallest size up to which no such function exists (`PutExists`), and
the smallest at which it gives a place that is taken.

**Only model-checked.**

- Liveness, which rests on fairness and `ENABLED`: `PagesAreShown`,
  `NobodyWaitsForEver`, `DeliveryComesToRun`.
- `RunLeavesNoneUncharged` with more than one failure: with two it is false, see
  [Bounds](#bounds-symmetry-fairness-deadlock), and `RunsChargeAll` says what is left
  of it then.
- The promises of Billing, Invoicing, Membership and Access in Cosmos that are stated for Sql
  above: there they are false.

## Disagreements

Three runs end in a violation, each of a promise a test, page or
comment makes; the lines are quoted under `findings`:

1. `billing_overlap`: "per month" is charged twice when a run overlaps a
   purchase or another run.
2. `free_price`: "It can be $0", but a price of 0 is passed over, and an earlier price stays.
3. `sign_in_path`: who opens a page and signs in is taken to `/`.  The comment that
   promises more stands in a `login()` whose button is not shown; the challenge asks for `/`.

Others were met while modelling and have no run.

*Services.*  Two overlapping requests of one organisation both buy, where the
test `MultipleUsersInSameOrg_CantPurchaseTwice` (`PurchaseTests.cs:113`) has
them one after the other.  "The provided month" of an invoice is compared
without its year (`AccountsService.cs:131`), so that the invoice of last year
is returned.  A rejected invitation that is accepted joins: the workflow refuses
after the membership was saved (`InvitationService.cs:179, 187`).  A crash
between the debit and `LastDebitTime` charges the month again; a month that
begins between the two goes uncharged; a run for a month ahead charges at once.
Overlapping generations leave two invoices; a preview is returned when a final
invoice is asked for; regenerating a final invoice leaves only the carried
balance.  `PurchaseCount` is overwritten by an overlapping purchase.  In Cosmos
overlapping requests drop each other's rows (`PaidIsCharged`, `BalanceIsKept`,
`HomeIsMembership`, `TermsAreThere` and `RuleStays` all fail).  The plan page
says one user for Free and 25 for Team where `PlanLimitService` has 2 and 10;
deleting a rule for all also removes a newer one; an administrator who accepts
an invitation to the own organisation becomes a plain user.
`StoreDecorator.CountAsync` (line 22) drops the predicate, so that
`ApplicationService.CreateAsync` refuses any second application.  When the
creation of the search index gives up, `isCreating` stays true and every later
initialisation waits (`UnifiedSearchInitialiser.cs:42-46`).

*Client.*  A list, chart, feed or detail whose request fails or is overtaken
shows what came last, and the feed and the chart load for ever; a map whose key
is awaited while the page is drawn again is drawn twice, and a key that cannot be had is asked for again at
once.  The tabs push their default while they are drawn, so that "Back" returns to an entry
that pushes again.  Closing the price dialog by a key leaves the box stuck; the
first choice of terms is shown and not sent; half a position can be sent.
The price can be edited without permission, and so can the description, whose pencil is hidden while a click on the text still opens it.
The inputs of the detail open on the value they were mounted with: when two
requests overlap and the second answer finds the page shown, completing one
unchanged sends the older value (`InputsHoldTheShown` excuses a context that
has fallen behind).  The "Search" link of the menu, or "Back", changes `?term=` under the search page, whose box and
rows stay with the term before.  The list of files stays empty when a second
read of the Amphora is answered during the load that follows an answer: the load is
cancelled, none is sent while it is loading, and the flag is not set already.  An upload
that ends after the page was opened again is not listed, and a download that
ends late writes back the names of its commit.  Save clicked while an
application is loading creates another one; so does a save after a failed one.
Two plans can be chosen at once, and the last to arrive stays.  "Send
Invitation" sends the last valid address while the input shows one that is
not.  A late list of terms hides the terms that are open.  An answer to a new
signal goes one page back, wherever the user is.  Logging out asks for a
redirect and removes the user without waiting, and the challenge may be what
leaves (`AppNavMenu.tsx:16-20`).  All settings are lost when the page is loaded.

*Scripts.*  A key or value with a double quote is sent whole, and shown only up to it once
the rows are drawn again (`attributeEditor.js:25, 28`); the same holds of a
character reference, which is shown as its character.  "Values greater than 359 and less than 0 wrap back"
(`color-scheme.js:196-197`) does not hold below 0, where the wheel has no entry.
"Set lat and lon" (`geo.js:83-86`) sets the attribute `value`, which a field that was
typed in ignores.  Two promises of `wordcloud2.js` fail in a case no page here
meets: "cause the previous loop to stop" (1032) when a listener of
`wordclouddrawn` starts a cloud, for the timer is set again after the listener; and `shrinkToFit`, which
does not shrink a word larger than the canvas when `drawOutOfBound` is false
(931-937).  A mask that is cleared while its file is read comes back.

*Delivery.*  `k8s` needs an output of `infra` that is commented out.  The
certificate issuer may be sent before its definition is known: the update fails,
and another one passes.  App names are made of prefixes of three letters and may
meet (`appSvc.ts:173`).

## Not modelled

**Of the modelled parts.**  Services: deletion of a whole organisation while it
is billed; edits of prices, rates, names and wordings; e-mail, except as a call
that may throw; hard deletion of Amphorae (development only: production
soft-deletes); access controls of Amphorae older than the feature; the opening
balance and the CSV of an invoice; `PublishInvoice` (nobody calls it).  Doubles
are taken as exact hundredths.

Client: layout and wording; `Integrate.tsx` (code samples), `ProfilePage.tsx`,
`RequestAmphora` (a placeholder), the download of an invoice and the rows of the
lists, splash particles, analytics (`App.tsx`, whose listener is never removed),
static pages: none has a state of its own that another part reads.  Nobody uses
`tsiClient.ts`, `amphoraApiClient.ts`, `Counter`, the action maps of `ui` and
`fail`, `AmphoraListItem`, `MainPage`, `login` and `logout` of `PublicNavMenu`.  The link
"Home" while the callback of a sign-in is being processed is left out, and so is an attribute whose rest,
after its double quote, is itself read as markup.

Libraries kept in the repository: of color-scheme, `from_hex`, `colorset` and what only they
need (nobody calls them); of wordcloud2, colours, fonts, shapes, clicks on words and
the polyfill of `setImmediate`, which is the browser's; azure-maps, jquery, bootstrap, jquery-validation
and the JavaScript of font-awesome, of which the pages load the style
sheet only.  The last alone is 10,000 lines that never run here.

Delivery: settings, limits and labels of resources; changes of resources that
are there; the replacement of an ingress, whose name never changes; what is
declared in functions nobody calls (`dns.ts`, `front-door`, SendGrid and
Squarespace in `central`); pipelines, which are lists of commands run one after
the other.

**Not modelled at all, and why.**

| Component | Why |
|---|---|
| Activities and their runs; data requests and votes | each call checks and writes one entity; what could go wrong (two of one name, two votes, a run finished twice) does go wrong and the code promises nothing else |
| Applications on the server | the client's side is `Applications`; the server refuses every second one, see above |
| Search index | the work is Azure Search's; of the code's own state, the flag `isCreating`, the sentence above says all |
| Signals, events, e-mail, feeds, statistics, quality, invoice files | stateless calls to other services, or reads |
| Caches | copies that are shown, expire and are never written back |
| Identity | ASP.NET Identity and IdentityServer do the work |
| Migrations | loops over another service's items, run by hand |
| Pages and controllers | they check a request and call a service; those that change state themselves are actions of the service's module |

## Plan

Done: `Billing`, `Invoicing`, `Membership` and `Access`, the client, the page
scripts and delivery, with proofs of all that is checked except what
[Proofs](#proofs) lists as only model-checked.  Left, in the order of what it
adds:

1. What Cosmos leaves of the promises of the services: which of them hold when
   no two requests of one organisation overlap.
2. Activities, data requests and applications on the server, if the code comes
   to promise what a model could check.
