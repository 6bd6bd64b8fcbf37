# Verification of the BabyNounu backend

TLA+ specifications, TLC model checking and TLAPS proofs for the BabyNounu
backend: a NestJS application (`src/src`) over Prisma and MySQL
(`src/prisma/schema.prisma`) that brings parents and nannies ("nounus")
together, sells subscriptions through the GeniusPay provider, and offers chat,
job postings, contracts, reviews and an administration.

Two facts about the code shape everything below.

* **There is no transaction anywhere.** Every awaited Prisma call is one atomic
  SQL statement, and between two awaited calls of one request any other request
  may run. What a use case read before an `await` is a snapshot after it.
* **Nothing is queued or retried by the server.** A request that throws, or a
  process that stops, leaves what its earlier statements wrote. Recovery exists
  only where a later request repairs what it finds.

So the same questions come back in every component: who may come between two
statements of a request, what is left when it stops there, and who repairs it.
Paths below are relative to the repository: the application is in `src/src`,
the schema and the seed scripts in `src/prisma`.

## 1. Inventory

| Component | State | Operations | Hard behaviour | What makes it correct |
|---|---|---|---|---|
| Payments (`application/payment`, `geniuspay.service.ts`) | `payments` rows | initiate, verify / confirm / public status, webhook | the provider and the table move independently; polls, webhook and admin write from snapshots | no status is invented; a confirmation is not lost by accident; a completed payment ends up confirmed |
| Subscriptions (same file, `SubscriptionGuard`, two gateways) | `subscriptions` rows | `ensureSubscription` (twice in the code), subscribe, admin create / update / delete, three "is subscribed" queries | check-then-create in concurrent requests; expiry; repair after a failure | paid for by its owner; a second grant only by a race; nobody who paid is left without |
| Packs (`admin.usecases.ts`) | `packs` rows | create, update, soft delete | changed or deleted between purchase and grant | a grant survives it |
| Payment socket (`payment.gateway.ts`) | the last event of a payment's room | `checkPaymentStatus`, `notifyPaymentStatus` | events of older requests overtake newer ones | the waiting client learns of a confirmation |
| Admin payment operations (`admin.usecases.ts:509-582`) | the same rows | verify, fail | the guard is evaluated on a snapshot | a confirmation is overwritten only by a decision taken before it |
| Nounu payouts (`admin.usecases.ts:736-1029`) | payout rows in `payments`, payouts at the provider | summary, pay, verify; four more routes reach the same rows | the payout is sent before its row exists; five routes check one row | what is sent, stored and told agrees; the summary ends up with what was executed |
| Chat (`application/chat`, `chat.gateway.ts`) | rooms, messages, propositions, unread counters, sockets | find or create a room, send by HTTP, socket and administrator, read, answer, delete | check-then-create; the counter is incremented after the message is visible, detached from the request | one room per pair and one open proposition but for races; no message counted twice; badges settle |
| Notifications and push (`notification.usecases.ts`, `push-notification.service.ts`) | notifications, bell counts, device tokens | create, read, delete, register, unregister, send, prune | counts emitted late; tokens pruned on an old answer | a push goes to the device's holder; a reachable device stays reachable; the bell settles |
| Authentication (`application/auth`) | users, the refresh token, reset codes | sign up, sign in, refresh, logout, forgot / reset password | refresh against logout; a code used twice or expiring | the last writer is in; a refresh replaces what it presented; a code works once; the account is recovered |
| Profiles and media (`application/profile`, `application/media`) | profiles, preferences, medias | create and update by three routes, delete, upload | check-then-create; delete-then-recreate; hand-over of the current photo | doubles only by races, or by a route that stores a photo beside the current one; preferences of the last form; the photo is kept |
| Jobs and applications (`application/job`) | jobs, preferences, applications | publish, edit, delete, suspend, prioritise, list, apply | preferences torn by a failure; notification after the row | a job is whole; pages partition the list; the owner hears |
| Contracts, reviews and likes (three controllers) | contracts, reviews, the stored average, likes | create, update, toggle | the average is written from a stale set; toggles race on a unique key and may fail after their write | the average is that of the reviews; a like follows the toggles that changed it |
| Administration (`admin.usecases.ts`) | settings, parameters, roles, permissions, sub-administrators, decisions about a nounu | maintenance, grants, certification, restriction | find-then-create; bulk grants after the account; two decisions crossing | a sub-administrator is authorised; the nounu knows the decision |
| Seed scripts (`prisma/seed*.ts`) | all reference and demonstration rows | six scripts, run once or again | stopped half way, repeated, run side by side | repeating the configuration adds nothing; the administrator is let in |
| Guards, interceptors, DTOs | none | accept or refuse a request | none of their own | guards are modelled where they decide |
| CinetPay, configuration, bootstrap, utilities | none | wiring, pure functions | pagination at its limits | pages |

Controllers call use cases; use cases call repositories (one statement each) and
the provider over HTTP; payment use cases call the payment gateway and create
notification rows; the chat controllers call the chat gateway without awaiting
it; guards read subscriptions, roles and permissions before any handler runs.
The components share the database and nothing else, apart from the gateways'
tables of connected sockets. `PROJECT.json` lists the hazards line by line with
the properties that cover them.

## 2. Modules

```
component                     proofs (TLAPS)          instance (TLC)      runs
Payments                      PaymentsProofs          MCPayments          requests, packs, admin,
  implements SubscriptionLedger                                           liveness, renewal_skipped
Payouts                       PayoutsProofs           MCPayouts           payouts
  implements PayoutBook
Chat                          ChatProofs              MCChat              chat
Notifications                 NotificationsProofs     MCNotifications     notifications
Accounts                      AccountsProofs          MCAccounts          accounts
  implements AccountRegister
Profiles                      ProfilesProofs          MCProfiles          profiles
Marketplace                   MarketplaceProofs       MCMarketplace       marketplace
Administration extends Seeds  AdministrationProofs    MCAdministration    administration
```

In every module a request is the local state of a handler, `job[h]` (of a client
in `Accounts`): `at` names the awaited statement it will execute next, the other
fields are the local variables that outlive an `await`. A use case is a chain of
actions, one per statement, each with the code's branch up to the next one.
A first read is part of the action that starts the request, because nothing has
been written before it. Only consecutive reads whose results cannot change what
is decided are merged. `Fail` (`Abort` in `Payments`, `Stop` in `Seeds`) ends a
request between any two of its statements: a rejected call, an exception, or
the process stopping. Variables called ghosts record history for a property
(which request had looked when, which rows two requests wrote at once) and never
guard an action. Operators named `Bug...` are faulty versions of the definition
below them that no action uses; they show that the properties can fail.

### Payments and SubscriptionLedger

Payments, subscriptions, packs, the payment socket and the administrators'
operations on them are one module, because they read and write the same rows
from the same requests.

| Variable | In the code |
|---|---|
| `row[p]` | `payments.status` of transaction `p`; `"none"` before `paymentRepo.create` |
| `subs` | the `subscriptions` table in creation order; removed rows stay as `"deleted"` so that positions keep their meaning |
| `packs` | the `packs` table: soft delete, `isActive`, `duration` |
| `notices`, `told[p]` | PAIEMENT and ABONNEMENT notifications; the last `paymentStatus` event in the payment's room |
| `job[h]` | the request: `snap` the status read, `st` the mapped answer of the provider, `pack`, `exp`, `life` of the new subscription |
| `gw[p]`, `seen[p]` | external: the provider's status of `p` and all it has had |
| `now`, `faults` | the day; a count of failures, only to bound them |

| Use case | Actions |
|---|---|
| `InitiatePaymentUseCase` | `InitiateStart`, `InitiateGateway`, `InitiateCreate`, `InitiateAnswerLost` |
| `VerifyPaymentUseCase` (also confirm, public status) | `VerifyStart`, `VerifySub` or `VerifyAsk` (`VerifyAskFails`), `VerifyUpdate`, then `ReadSub`, `Push` |
| `ensureSubscription` | `EnsureFind`, `EnsurePack`, `CreateSubscription`, `Announce` |
| `HandleNotifyUseCase` | `NotifyStart`, `NotifyAsk`, `NotifyUpdate`, `NotifyPaid`, then as above |
| `SubscribeUseCase`, `checkPaymentStatus` | `SubscribeStart`, `SubscribePack`, ...; `CheckStart`, ... |
| administrators | `VerifyAdmin...`, `FailAdmin...`, `GrantStart`, `AdminSubStart`, `AmendWrite`, `RemoveWrite`, `CreatePack`, `UpdatePack`, `DeletePack` |
| environment | `GatewayMove`, `Tick`, `Abort` |

`SubscriptionLedger` is the promise without the mechanism: payments settle, and
a ledger of subscriptions grows by entries which either rest on a settled
payment and then belong to its payer, or are given by an administrator. Entries
are never rewritten. `Payments` implements it with `settled` mapped to the
payments the provider has completed at some time, and `ledger` to the owner and
payment of every row ever created.

### The other abstract specifications

* `PayoutBook` is the promise about the money sent to a nounu, without requests,
  routes and failures. A payout is entered in the book once at most and under its
  own reference; a line shows only a status that the provider may have given this
  payout, or that an administrator gave it up; the nounu is told, or given a
  subscription, for executed payouts only. `Payouts` implements it with `book`
  mapped to `rows` and `gifts` to the rows that gave a subscription.
* `AccountRegister` is the promise about passwords, without sessions, clocks,
  statements and failures. An address is registered once, and then its password
  changes only by a code that was made for this address and not used when it was
  entered, whoever enters it; a used code stays used. `Accounts` implements it with
  `entered` mapped to what the requests that have passed the code's check carry
  until their password is stored. That two requests may enter one code before
  either marks it used is allowed there, and limited by `CodeWorksOnce`.

### The other components

| Module | State | Actions and the code |
|---|---|---|
| `Payouts` | `sent` (payouts at the provider), `rows` (their `payments` rows), `subs` of the nounu | `PayNounu` (the provider first, then the row; any amount), `AnswerLost`; `totalPaid` is the summary, which nothing else reads; `VerifyNounuPayment`, `VerifyAdminPayment`, `VerifyPayment`, `HandleNotify`, `FailAdminPayment` on the same rows, each a read, a call, a write and what follows; `Settle` is the provider |
| `Chat` | `rooms`, `msgs`, `unread` (`RoomUnreadCount`), `online`, `shown` (last `unreadCounts` event), `alerted` | `OpenRoomStart`/`CreateRoom` (find or create); `SendMessage` (HTTP), `SendMessageAsNounu`, `handleSendMessage` (socket) into `InsertMessage`, `IncrementUnread`, `Announce`, `Push`; `MarkAsRead`, `ReadStart`, `MarkRoomAsRead`; `Answer`, `Expire`, `DeleteRoom` |
| `Notifications` | `notices`, `bell`, `token` (`device_tokens`), `holder`, `valid`, `pushed` | the creation paths (`CreateAndRing`, `CreateAndPush`, `CreateSilently`), reading on every path, `Ask`, `Count`/`Ring`, `ReadTokens`/`SendPush`/`Prune`, `Register`, `Unregister`, `Uninstall` |
| `Accounts` | `password`, `session` (the one refresh token of the row), `code`, `mailbox`, `held` (what each app holds) | `SignUpStart`/`CreateUser`, `SignInStart`, `RefreshStart`, `StoreTokens`, `GetProfile`, `Logout`, `ForgotStart`/`SendMail`, `ResetStart`/`SetPassword`/`MarkUsed` |
| `Profiles` | `profiles`, `prefs`, `medias`, `known` (live parameters) | creation and update of both kinds of profile, by the owner's routes and by id; preferences cleared and rewritten one statement at a time; `RetirePhotos`/`StorePhoto`, `UploadMedia`, `DeleteMedia`, `DeleteParent`, `DeleteNounu`; `Beside` names the routes that store a photo without retiring the current one |
| `Marketplace` | `jobs`, `apps`, `told`, `word`, `reviews` (who wrote it, of which contract), `points`, `like`, `vips` | `CreateJob`, `UpdateJob`, `DeleteJob`, `Suspend`/`TellSuspension`, `Prioritize`, `Apply`..`TellOwner`, `CreateReview`..`UpdatePoints`, `Toggle`, `Like`/`Unlike`, `CountLikes`; the listing's order and `Page` as operators |
| `Seeds` | `table` (rows per slug, address or phone), `grants`, `roleOf`, `prefs`, `script` | each script as a plan, a sequence of statements of a few forms (`Look`, `Create`, `Insert`, `Clear`, `Add`, `LookGrant`, `CreateGrant`, ...), with one action per form |
| `Administration` | extends `Seeds`; `decided`, `word` | `UpdateSettings`/`CreateSettings`, parameters, grants, `CreateSubAdmin`/`assignPermissionsBulk`, `Decide`/`TellDecision`, `DecideSilently`, let in by `canActivate` of the guards |

Abstractions worth knowing:

* amounts, prices, wording, return URLs, attachments and names are left out; a
  refresh token is the second it was signed in, because the code signs a
  function of the account and that second; an average is the number of reviews
  it was computed from;
* a payment is found by its transaction id only, not by the provider's
  reference; `metadata` is only its `packId`;
* a payout is one unit, whatever its amount: the code compares no amount with
  what is owed;
* the parameter `photo_profil` is there when a profile's files are stored;
* in `Marketplace` job medias, restriction guards and the administrators' own
  creation and edit of a job (single statements like `Prioritize`) are left out;
* in `Seeds`, "write" stands for the permissions that `seed.ts` and
  `seed-config.ts` both know and "packs" for those only `seed-config.ts` knows;
  `fixOldContracts`, which rewrites amounts and dates, is left out; the database
  is empty at first or one that `seed.ts` was run on by itself;
* notification rows of the chat, and their counts, are in `Notifications`.

## 3. What the runs show

Deadlock is not checked: no request of this code ever waits for another, and a
run stops where its bounds are reached. Bounds on requests are named `MaxMoves`
(`MaxRegs` in `Notifications`, `Ops` and `MaxSubs` in `Payments`), bounds on
failures `MaxFaults`; requests that fairness asks for are not bounded.

| Run | Question | Answer |
|---|---|---|
| `requests` | Two concurrent requests of every client and admin payment kind, a provider that completes, fails and refunds, one failure. | No status, event or notification without the provider's word (`StatusesAreGenuine`); a second active row only by a race (`GrantsOnlyIfMissing`); `ConfirmationIsKept`: only a refund, an older decision of an administrator, or an older answer of a webhook or of a retry overwrites a confirmation |
| `packs` | Packs created, changed, deleted while payments for them are granted and redeemed, a second user redeeming. | `SubscriptionsArePaidFor` |
| `admin` | Administrators granting, amending and removing beside polls, one failure. | `RefinesLedger`: the ledger of who owns what for which payment is never rewritten, and nothing is granted on a payment the provider never completed |
| `liveness` | A polling client; a pack that may change or vanish; stale webhooks; an admin's failure; a failed request. | `CompletedIsConfirmed`, `ClientLearns` |
| `renewal_skipped` | "Auto-create subscription if missing" (`payment.usecases.ts:177`). | **Violated**: `findUserSubscription` ignores expiry and nothing expires a row, so a user whose subscription has expired and who pays a second time, in a payment not redeemed before, gets nothing, and the event says `hasActiveSubscription: true`. A payment that has already given its subscription is not claimed to give another |
| `payouts` | Two payouts, answers lost, payouts taken back, five routes checking at once. | `RefinesBook`: one line per payout, no status without the provider or an administrator, congratulated for executed payouts only; one row per payout or a recorded loss (`PayoutsAreRecorded`), doubles only by races; `SummarySettles`: whatever older answers are written over it, the summary ends up counting every recorded payout that was executed and not marked failed; `NounuIsTold` |
| `chat` | Messages by three paths, from members of the room and others, in rooms with another user or with oneself, read while they are counted; sockets coming and going. | Rooms and propositions doubled only by races, `CountedAtMostOnce`, `BadgeClears`, `Alerted` |
| `notifications` | Two accounts sharing a device, an app removed, Firebase answering late. | `PushStaysWithHolder`, `ReachableStays`, `BellSettles` |
| `accounts` | Two apps of one account, two passwords, tokens that are replaced, codes that expire, codes drawn twice, asked for and entered by anyone, one failure. | `AuthorIsIn`, `RefreshReplacesItsToken`, `CodeWorksOnce`; `RefinesRegister`: no password without a code made for its address and unused when entered; `AccountRecovered`, `SignedInAgain` |
| `profiles` | Profiles and photos written by two requests at once, parameters deleted and restored, one failure. | `PreferencesAreTheLastForm`, `DoublesOnlyByRace`, `PhotoKept`, `PreferencesRepaired` |
| `marketplace` | Jobs published, listed, suspended and applied for, reviews by several users of one contract or none, likes, one failure. | `JobsAreWhole`, `PagesAreAPartition` for every page size from below 0 (0 means 10, a negative one means 1) to beyond the list, `OwnerKnowsTheDecision`, `PointsAverageTheReviews`, `TogglesAreCounted`, `OwnerHears` |
| `administration` | Two scripts of any plan stopped, repeated and crossing beside two administrators, on an empty database or one with an administrator since `seed.ts`. | `PrefsAreWhole`, `SubAdminIsAuthorised`, `NounuKnowsTheDecision`; `SeedOpensTheDoor`, also for a run that completes a stopped one; `RepeatAddsNothing`: after one complete run of `seed-config.ts` no later one adds a row |

Many properties have the form "unless two requests crossed, or one failed half
way". The exception is what the code really does; the property says that
nothing else can cause it: one request at a time, for however long a history,
never leads there, and the ghost names the race or failure when it happened.
The second current photo is different, because three routes store one without
any race: the property names those routes and leaves only races to the others.

**Bounds.** Two requests in flight are enough for the races of this code, which
are all between one request that writes later and one writer in between; the
theorems of section 5 remove this and every other bound for the properties they
cover. One failure reaches every "stopped half way" state once, and what follows
is a repair under liveness. One payment with one user is the worst case for
status races, since requests about different payments share only the user's
subscriptions; `renewal_skipped` has two payments, `packs` two users. Two rows
of anything that should be one make a duplicate visible; two reviews let
an average of two be overwritten by an average of one; two users for one device
and two apps for one account are the smallest that can disturb each other. The
clocks reach the expiry of a subscription and of a code, and two seconds in
which a refresh signs a new token; that an old token also expires is in the
model and in its theorems, and beyond this run's clock, where a refresh is
refused because another app has written the session. Four reset codes
are one more than the account can lose to the expiry, the failed mail and the
requests of others that the run allows, so that asking again is always possible
and `AccountRecovered` needs no exception for codes that ran out; with two
passwords a change is visible. The run has one address; that a code changes no
other account is proved for any number of addresses (`RegisterKept`). Handlers are
interchangeable, so the runs without liveness use their symmetry; the others use
none.

## 4. Fairness

`FairSpec` of every module with liveness assumes two things.

* `WF(Advance(h))`: an accepted request gets to its next statement. Node's event
  loop runs every continuation, and a call that never answers is a failure,
  which ends the request. Failures are finitely many, as `MaxFaults` bounds them.
* The user or app that wants something repeats its request. This is outside the
  repository and an assumption about it, stated per run:

| Module | Assumed to be repeated | Form |
|---|---|---|
| `Payments` | a waiting client polls `payments/status` | SF: it competes with others for handlers |
| `Payouts` | an administrator verifies a payout that is not settled | WF |
| `Chat` | a reader opens the conversations of which it is a member | SF |
| `Notifications` | an app on line asks for its counts | SF |
| `Accounts` | a signed-out app signs in; a user with no password changed yet asks, in one of the account's apps, for a code when none can be used, and enters one received with another password | SF: it may be busy in between; some draw is not a code drawn before |
| `Profiles` | a user who finds the preferences wrong saves the form of that kind, through `PUT profile/*`, which reaches the profile `findFirst` returns | WF |
| `Marketplace` | a nounu whose application may not have been announced applies again | WF |

No fairness is assumed of webhooks, administrators' decisions, the provider, the
clock, or sockets. The faulty versions show which lines progress depends on: for
example asking the provider again after a failure, repairing a missing
subscription and announcing an earlier confirmation in `VerifyPaymentUseCase`,
or notifying the owner although the application already existed in
`ApplyToJobUseCase`. `SeedOpensTheDoor` is an action property and needs no
fairness; `Administration` and `Seeds` assume none.

## 5. What is proved

Each `...Proofs` module proves its theorems for every number of users, handlers,
rows, failures and moves, from the named assumptions on the constants only
(`ConstantsAssumption`, `NullAssumption`, `PayoutsAssumption`, ...): which
constants are sets of one another, that bounds are natural numbers, that "no
user" is no user. TLC evaluates them in every run.

| Module | Theorem | States |
|---|---|---|
| `PaymentsProofs` | `Invariant`, `TypeCorrect` | `[]IInv`, `[]TypeOK` |
| | `AlwaysPaidFor` | `[]SubscriptionsArePaidFor` |
| | `AlwaysGenuine` | `[]StatusesAreGenuine` |
| | `OnlyIfMissing` | `[]GrantsOnlyIfMissing` |
| | `ConfirmationsStay` | `ConfirmationIsKept` |
| | `ConfirmationsSettle` | `ConfirmationSettles`, the safety half of `CompletedIsConfirmed` |
| | `Refinement` | `RefinesLedger` |
| `PayoutsProofs` | `TypeCorrect`, `PaidAreGenuine`, `DoublesAreRaces` | `[]TypeOK`, `[]PaidIsGenuine`, `[]DoublesOnlyByRace` |
| | `PayoutsHaveRows`, `SummaryCountsPayouts` | `[]PayoutsAreRecorded`, `[]SummaryIsGenuine` |
| | `BookKept` | `RefinesBook` |
| | `SuccessesAreTold` | `[]SuccessIsTold`, the safety half of `NounuIsTold` |
| `ChatProofs` | `TypeCorrect`, `DoublesAreRaces`, `NothingCountedTwice` | `[]TypeOK`, `[]DoublesOnlyByRace`, `[]CountedAtMostOnce` |
| | `NobodyIsForgotten` | `[]ForgottenByFailure`, the safety half of `Alerted` |
| `NotificationsProofs` | `TypeCorrect`, `PushesStay`, `ReachableDevicesStay` | `[]TypeOK`, `[]PushStaysWithHolder`, `ReachableStays` |
| `AccountsProofs` | `TypeCorrect`, `AuthorStaysIn`, `RefreshesReplace`, `CodesWorkOnce` | `[]TypeOK`, `[]AuthorIsIn`, `[]RefreshReplacesItsToken`, `[]CodeWorksOnce` |
| | `RegisterKept` | `RefinesRegister` |
| `ProfilesProofs` | `TypeCorrect`, `PreferencesFollowForms`, `DoublesAreRaces`, `PhotosAreKept` | `[]TypeOK`, `[]PreferencesAreTheLastForm`, `[]DoublesOnlyByRace`, `[]PhotoKept` |
| `MarketplaceProofs` | `Invariant`, `TypeCorrect`, `JobsStayWhole`, `OwnersAreTold`, `PointsAverage`, `TogglesCount` | `[]IInv`, `[]TypeOK`, `[]JobsAreWhole`, `[]OwnerKnowsTheDecision`, `[]PointsAverageTheReviews`, `[]TogglesAreCounted` |
| | `PagesPartitionJobs` | `[]PagesAreAPartition` |
| | `ApplicationsAreHeard` | `[]UnheardByFailure`, the safety half of `OwnerHears` |
| `AdministrationProofs` | `TypeCorrect`, `SubAdminsAreAuthorised`, `NounuKnows` | `[]TypeOK`, `[]SubAdminIsAuthorised`, `[]NounuKnowsTheDecision` |
| | `SeedsOpenTheDoor`, `RepeatsAddNothing`, `PreferencesAreWhole` | `SeedOpensTheDoor`, `RepeatAddsNothing`, `[]PrefsAreWhole` |

**The argument** is the same everywhere. Statements about the tables are not
inductive, because a request writes now what it read some statements ago. So
`IInv` says, for every request in flight, what it may *hold*, in a form that the
steps of others cannot destroy.

* *Evidence that only grows* (`Payments`, `Payouts`). A request carrying Success
  knows a payment that the provider has completed at some time; `seen` never
  shrinks and a payout's status never goes back. So a race can grant twice or
  write an old answer, but never grant or confirm what was not paid. `OnlyIfMissing`
  keeps, for each request that has searched, how many rows there were then:
  active rows it did not see are younger.
* *Backing* (`Payments`). The provider's outcomes are final but for the refund, so
  every stored outcome, and every answer about to be written, is backed by the
  provider's present status (`KInv`). An answer that is still open may be stale,
  but only webhooks, and requests that had read a failure, carry one to a write.
* *Positions* (`Chat`, `Profiles`). Rows are appended, so what a
  request did not find, if it is there now, has a greater index than the length
  it saw. Two of a thing therefore mean two overlapping requests.
* *One writer* (`Profiles`, `Marketplace`, `Accounts`, `Payouts`). A row that no two requests
  wrote at once has one writer at most, and what is stored and what the writer
  still carries add up to what was asked for (`Underway`, `Whole`, `Once`, `Single`).
* *A debt* (`Marketplace`, `Administration`). The last notification or the stored
  average is right, or a request in flight is about to make it so (`Told`,
  `PointsDue`, `Authorised`).
* *Counting* (`Chat`, `Payouts`). Increments under way are a finite set of
  handlers whose cardinality, with the counter, stays within that of the
  messages whose receiver the user is (`Bounded`): a message
  brings the increment it is owed when it is stored. The rows a summary counts inject
  into the executed payouts, because a payout has one row (`AllRecorded`).
* *What a branch carries* (`Notifications`). The tokens to be sent to are held by
  the user, the tokens to be pruned are those of removed apps, but for devices
  registered since.

Three more arguments rest on these invariants.

* *Refinement.* Each step of a detailed module is shown to be a step of its
  abstract specification or a stutter; what makes it one is what the invariant
  knows of the request that takes it. In `Payments` a request that grants knows
  a completed payment. In `Payouts` the answer a request is about to write is one
  the provider has given, a request past a success works on the row of an
  executed payout (`Due`), and a payout about to be recorded has no row yet
  (`AllRecorded`). In `Accounts` a code that a request mails, enters or marks was
  made for some registered address (`Carries`, `Made`), whichever app carries it,
  and codes not made yet are unused (`Unspent`).
* *Numbering a list* (`Marketplace`). `Rank` counts the jobs before one, in the
  order findMany skips and takes by, and `Place` counts those of the page before
  one, in the order it is sorted by. For a strict total order of a finite set
  this numbering is a bijection onto `1 .. n`: it is injective because the
  order is, and nothing is skipped because the set has `n` elements. So the
  intervals of ranks that `getSkip` and `PageLimit` cut cover the list once, and
  each page is a sequence without gaps or repetitions.
* *The safety half of liveness* (`Payments`, `Payouts`, `Chat`, `Marketplace`). Liveness itself
  cannot be proved here, but what it needs at every moment can: whoever is to
  be told was told, or a request in flight carries the word and is not yet past
  the statement that tells, or a failure dropped it, one each at most. With
  fairness of that request the word arrives; with no failure nobody is forgotten.
  For payouts the exceptions are the ones in the code (`quiet`): the client's route,
  which tells nobody, a request that died after its update, and a row that an
  administrator gave up before. For payments it is a decreasing set: the requests
  in flight that could still undo a confirmation (`Undoing`) are only those whose
  answer, or whose look at a pending row, is older than it; while the provider
  keeps the money no step adds one, and each write over the confirmation uses
  one up.

Each proof has a lemma per action, on top of lemmas saying which steps leave a
part of the invariant alone. `ChatProofs` also shows that the recursively
defined sum of a user's counters is a number: the induction is written out with
minimal counterexamples (`WFMin`), because the library's induction theorem takes
an operator, which the provers cannot instantiate. `AdministrationProofs` shows
that the plans of the scripts are sequences of statements of the modelled forms,
whatever the sets of permissions are. For `SeedsOpenTheDoor` it computes where each
item of seed-config's plan stands, and shows that an unfinished run has found
every row it looked for and granted every permission before its place
(`Progress`). For `RepeatsAddNothing` it goes one round further: nothing removes a
row, not even an administrator, who only sets `deletedAt`, so after a complete run
every row that seed-config looks for is there (`AllThere`), and no later run ever
has something to make (`Repeats`). For `PreferencesAreWhole`, that only one script is between the
deletion and the last insertion, and has inserted those before its place.

**Only model-checked:** the liveness properties (`CompletedIsConfirmed`,
`ClientLearns`, `SummarySettles`, `NounuIsTold`, `BadgeClears`, `Alerted`, `BellSettles`,
`AccountRecovered`, `SignedInAgain`, `PreferencesRepaired`, `OwnerHears`),
because reasoning with ENABLED is out of the prover's reach. Every invariant,
action property and refinement that a passing run checks is proved. Some
theorems are about invariants that no run lists: `PaidIsGenuine`, which
`RefinesBook` implies, `SummaryIsGenuine`, and the safety halves above, which are facts behind
liveness properties that runs check.

## 6. What the code does that a reader may not expect

Met while modelling; the models contain all of it.

* `ensureSubscription` skips its work for a user whose only subscription has
  expired (`renewal_skipped`).
* A webhook that asked the provider before completion may write Pending over a
  confirmation made by a poll, and a late administrator's failure may do so too;
  the next poll repairs both (`ConfirmationIsKept`, `CompletedIsConfirmed`).
* A poll and the webhook can both find no subscription and create two
  (`GrantsOnlyIfMissing`).
* When the pack was deleted after the purchase, the subscription is inserted
  with a null expiry, which elsewhere means for life, and the request then
  throws before it notifies (`payment.usecases.ts:294`). The chat's isAbonnement
  events compare a null expiry as 1970 and report no subscription.
* One confirmed payment can be redeemed several times by `SubscribeUseCase`, and
  its `metadata` is rewritten from a snapshot.
* A payout that the provider accepted and whose row could not be stored is
  known to nobody here, and the summary counts no pending payout, so both are
  offered for payment again. Nothing refuses: `PayNounuUseCase` pays any positive
  amount without reading what is owed (`admin.usecases.ts:912`), so being paid
  more than was generated needs no race. A payout verified by the
  client's route is treated as a purchase and gives the nounu a subscription.
* A room read between a message and its increment shows a badge with nothing to
  read behind, until it is opened again. A room may be one with oneself, and a
  message may name a sender who is no member (`chat.gateway.ts:96`); its receiver
  is then the room's own sender, whose counter is incremented.
* A reset code is accepted from whoever enters it, and changes the password of
  the account it was made for. Resetting a password leaves sessions as they are;
  a refresh that has read the row undoes a logout.
* Updating a nounu's profile sets its certification back to Pending; a parent's
  update, and the creation of either profile, store a new photo without retiring
  the old one, so a user gets two current photos with one request at a time
  (`TwoPhotosOnlyByRace` names these routes). Of two profiles of a user, `PUT
  profile/*` reaches the one that `findFirst` returns, so the preferences of the
  other may stay torn; a deleted profile is still found by its user; the guards
  ignore `deletedAt`.
* Job applications are found-or-created without a unique key.
* Anybody may review a nounu, naming any contract: it is one review per reviewer
  and contract, and any number without a contract. A toggle that fails at the
  count after its write answers an error and has changed the like.
* `seed.ts` grants fewer permissions than `seed-config.ts`, writes payments with
  a lower-case status, and inserts its demonstration rows and settings each time
  it runs; of the two only `seed-config.ts` may be repeated (`RepeatAddsNothing`).
  `seed-messages-contracts-notifs.ts` looks for one random notification and
  stores another.

## 7. Not modelled

* Contracts: creating and updating one are single writes of the status in the
  body, one notification follows, and no modelled decision reads them.
* Renaming a parameter or a permission, and the deletion of users, type
  parameters and permissions: single statements of an administrator. Every
  component takes the accounts it refers to as given.
* Searches, listings other than the jobs', statistics, mappings for the front
  end: they write nothing.
* CinetPay (no use case calls it), configuration and bootstrap (executed once
  before the first request), slugs, image processing, logging, mail templates,
  validation of DTOs, the response envelope, the verification of JWTs.
* The contents of the seeds' rows and `fixOldContracts`.
