# Verification of the numerology report service

TLA+ models, TLC runs and TLAPS proofs for the service in `src/`: a web shop that takes a
person's details, sells one personal numerology report for ₹499 through Razorpay, and gives the
buyer access to it. The modules are written from the source; this file says what each one models,
what its checks show, and what is left.

## 1. Inventory

| Part | Source | State | Operations | Interacts with | What is hard |
|---|---|---|---|---|---|
| Payment repository | `packages/database/src/payment-repository.ts` | orders, payments, payment_events, reports, entitlements, outbox_events, refund_requests (and report_intents.status) | prepareCheckout, adoptProviderOrder, markOrderAmbiguous, confirmUnattemptedOrder, confirmFailedOrder, recordProviderEvent, requestRefund, approveRefund, recordRefundResult | one transaction per call, order row locked | concurrent callers; duplicated, reordered and late events; several rows that must change together |
| Payment module | `packages/application/src/payment.ts` | none (rows and provider) | createCheckout, reconcile, proveCheckout, processWebhook | repository, gateway | provider calls between transactions: lost responses, timeouts, crashes, stale answers |
| Refund execution | `payment.ts`, `apps/web/src/server/razorpay-payment-gateway.ts` | refund_requests | request, approve, execute | repository, gateway | retried and concurrent executions, asynchronous completion |
| Payment HTTP | `packages/application/src/payment-http.ts` | none | checkout, status, proof, webhook, reconcile, refund, administerRefund | sessions, rate limiter, payment module | two trust boundaries (customer, operator) |
| Report intents | `report-intent-repository.ts`, `report-intent-commands.ts`, `report-intent-http.ts` | report_intents, subjects, name_uses, consent_events | create, patch, complete, expire | idempotency, field protection, checkout | optimistic versions, expiry racing completion and checkout |
| Idempotent creation | `create-idempotency.ts` | report_intent_create_requests | execute | advisory locks | retry in progress, replay, expiry, crash before commit |
| Sign-in and sessions | `magic-link*.ts`, `session-*.ts`, `maintenance.ts` | access_challenges, principals, sessions | issue, consume, revoke, purge | mail, private access | single use, budgets, purge and revocation races |
| Private access | `private-access*.ts` | private_access_requests, audit_events | list, read, life-cycle request, revoke all sessions | entitlements, sessions | check-then-use, replay after revocation |
| Rate limiters | `packages/database/src/rate-limiter.ts`, `packages/application/src/rate-limiter.ts` | shared_rate_limits; a map | consume, purge | every handler | window reset, cap, a clock sampled before the wait for the row, purge of a live bucket |
| Maintenance | `maintenance.ts`, `expire-report-intents.ts` | none | run | all of the above | bounded SKIP LOCKED batches |
| Browser checkout | `apps/web/src/checkout` | the panel's order, buttons and proof; requests in flight | begin, acceptProof, refresh | checkout, proof and status routes | answers lost and out of order |
| Browser intake | `apps/web/src/intake` | the answers, the step, the known intent, a request in flight | edit, classify Ys, continue, back, start over, reload | create, patch, complete and preview routes | lost answers, reloads, answers edited after they were sent |
| Numerology engine | `packages/numerology` | none | reductions, the profiles' numbers, names, bundle, validation | report intents, report | digit arithmetic, master numbers, boundary dates, unusual names |
| Doctrine | `packages/doctrine` | release files | validate, compile, index, resolve | report | suppressions that suppress each other; nothing the compiler accepts may be lost later |
| Report planner, writer, verifier | `packages/report` | none | rank, balance, select, plan, write, verify | numerology, doctrine | shares and budgets that undo each other; rules stated twice, in the writer and in the verifier; a schema whose limits nothing upstream keeps |
| Report command line | `packages/report/src/cli.ts` | two files and their backups | stage, install the pair, roll back | file system | an error or a kill between two renames |
| Field protection, schema verification, analytics, runtimes | `local-envelope-field-protector.ts`, `kms-field-protector.ts`, `schema-verification.ts`, … | none | encrypt, verify, count, compose | everything | cryptography, I/O, configuration |

What makes the payment part correct: every capture delivers exactly one report, entitlement and
outbox row; nothing is delivered or revoked without the provider's money moving; a purchase never
gets a second remote order or refund; a payable order never hides a payment under way; no captured
payment is forgotten.
What makes the others correct: a sign-in link opens one session, in the browser that asked, and only
the newest one does; mail stays within its budget; a private report is served only to its owner while
session and entitlement stand, and never without an audit row; signing out everywhere closes every
session there was; a retried request has one effect and one answer; a draft saved in one tab is never
overwritten unseen by another, is completed once, and once erased stays erased; no page asks a second time for
money that was reported as paid; what a customer reviewed is what is calculated, and what is calculated replays
from its own traces; who is evidence does not depend on the order of a release, and each stage of a report
accepts what the one before it makes.

`PROJECT.json` lists the hazards of the code at their lines, each with the properties that cover
it or the reason why none does.

## 2. Modules

    PaymentDomain ── PaymentStore ──┬── CheckoutService ── CheckoutHistory
                       │  │         │        │
              Purchase ┘  │         │   PaymentProvider (external)
                          │         └── RefundService
       PaymentStoreProofs ┘─────────┬── CheckoutProofs (of CheckoutService)
                                    └── RefundProofs (of RefundService)

    Sessions ──┬── SignIn ── SignInProofs
               └── PrivateAccess ── PrivateAccessProofs

    Intake ── Drafts ── DraftsProofs

    CheckoutPanel, RateLimiter ── MCWeb (run)
    IntakeForm ─────────────────────────────────────────────┐
    Numbers ── CalculationBundle ── Calculation ────────────┼── MCReports (run)
    Doctrine ── ReportPlan ── ReportWriter ── ReportPipeline ┤
    PairWrite ──────────────────────────────────────────────┘
    CheckoutPanel, RateLimiter, IntakeForm ── WebProofs
    Calculation, ReportPipeline, PairWrite ── ReportsProofs

The first three groups meet in a few rows only: an entitlement is granted and withdrawn by `PaymentStore` and read by
`PrivateAccess` (`Grant`, `Withdraw`), a session is opened by `SignIn` and used by `PrivateAccess` (`SignedIn`), an
intent is completed by `Drafts` and sold by `PaymentStore` (`Checkout`, and `CompleteIntent` and `ExpireIntent`
there). Each side models the other one's transition with its guard.

### PaymentDomain
The identifiers (constants), the status enums of `schema.ts`, and the rank of payment statuses
(`recordProviderEvent`). Amount, currency and receipt are one bit of an event, `exact`: the code
compares them with constants and never computes with them.

### PaymentStore
The rows and one action per transaction of `payment-repository.ts`, with every guard of its SQL.
Every transaction locks the order row it changes (`SELECT … FOR UPDATE`), a failed one rolls back,
so a transaction is one step. The rows of an order are indexed by its intent: `orders_report_intent_unique`
allows one order per intent, and there is one refund request per order. `UNIQUE` constraints are guards
(`AdoptProviderOrder`, `RefundResultApplies`). `CompleteIntent` and `ExpireIntent` are the transitions of
`report-intent-repository.ts` that race with checkout.

The callers are unconstrained: any transaction may run at any time with any input the validators
accept. What is shown of `PaymentStore` holds whatever the layers above do.

| Action | Code |
|---|---|
| `PrepareCheckout` = `CreateOrder`, `ExpireOrder`, `KeepOrder` | `prepareCheckout`, new, expired and existing order |
| `AdoptProviderOrder`, `MarkOrderAmbiguous` | the methods of that name |
| `ConfirmUnattemptedOrder`, `ConfirmFailedOrder` | the methods of that name; an UPDATE whose WHERE fails leaves the row |
| `RecordProviderEvent` = `EventAccepted`, `RecordPayment`, `Fulfil` or `Unsettle` | `recordProviderEvent` |
| `RequestRefund`, `ApproveRefund`, `RecordRefundResult` | the methods of that name |

### Purchase
What the repository promises, in four variables per intent: the payments charged, the access, whether
the report was requested, the payment returned; two actions, `Charge` and `Refund`. `PaymentStore!Abstract`
instantiates it with a refinement mapping and `ImplementsPurchase` says that every transaction is one such
step or none.

### PaymentProvider (external)
Razorpay as the gateway uses it: orders found by receipt and not deduplicated, payments that move on
their own, every status announced by a webhook that may be delivered late, again and out of order.

### CheckoutService
`createCheckout`, `reconcile`, `proveCheckout` and `processWebhook` over both: one action per `await`, and
between two of them anything may happen. `call[c]` holds the local variables of a request in flight; `step`
is the await it stands at. A request that fails passes the `catch` blocks it is in: `marks` counts the
`markOrderAmbiguous` UPDATEs still due (`Fail`, `Mark`), and `createCheckout`'s own catch then answers from a
second SELECT (`Reread`). `live` is `now < expires_at` with the `now` of the arrival, so it can be stale.

`reconcile` reads the remote order and then its payments; the order is `created` exactly while it has no
payments, so the second answer decides and the two awaits are one step (`FetchOrder`). Event ids are digests
of payment and status; the prefix that keeps webhook, proof and reconciliation apart is dropped, because the
repository handles a redelivered row like a fresh one.

### CheckoutHistory
`CheckoutService` with a history variable: the payments some request has seen under way at the provider.

### RefundService
`executeApprovedRefund` against the provider's refunds, three awaits per execution, with the idempotency
header of the gateway (`PostRefund`), lost responses and concurrent executions. The orders live on
meanwhile (`OrderStep`).

### Sessions
The `sessions` rows and the clock. A handler samples `now` before its first statement, and a statement may run later:
`MaxDelay` bounds how much later (the ten-second statement timeout and the request's life bound it in the code).
`Active` is the WHERE clause that verification, logout and sign-out everywhere share. A revoked and a deleted row are
one state, `closed`: nothing tells them apart.

### SignIn
`requestLink` and `consumeLink` over `magic-link-repository.ts`. `request[r]` is a request in flight.

| Action | Code |
|---|---|
| `AskForLink`; `IssueRefused`, `IssueLink` | `requestLink` until `issue`; the transaction under the email's advisory lock |
| `SendLink`, `SendFails`, `RevokeLink` | the mail, its failure (it may have gone out), `revokeChallenge` |
| `PresentLink`; `Consume`, `ConsumeRefused` | `consumeLink` until `consume`; the transaction |
| `RedactLinks`, `RemoveLinks` | the two statements of `purgeExpired` |
| `Abort` | an error, or the process dies |

`opened` is a history variable: which link opened which session, where. `KeepFor >= BudgetWindow + MaxDelay` is an
assumption the code satisfies by far (24 hours, one hour, seconds); the budget counts rows that maintenance deletes,
and would leak without it.

### PrivateAccess
The five private routes, one action per await: `Authenticate` (findActive, the first await of every handler), then
`FindReports` and `AuditRead`, `WriteRequest`, or `RevokeAll`, or `Deny`; `Unavailable` where an await fails. A request is served
once and remembers, as history, the sessions there were (`known`) and the reports already withdrawn (`withdrawn`) when
its session was verified: what the properties may demand of it.

### Drafts
The intake of one account with the client of each open tab. `intents[k]` is a `report_intents` row with the subject and
the consent events written with it, `creations[k]` the stored response of an idempotency key; both are indexed by
the key because the intent's id is a digest of owner and key. `tab[t]` is the client's create key and its `current` draft.
`call[c]` is a request on the server; it goes on when its tab loses the answer (`Lost`) or is opened anew (`Reload`).
`cookie` is the `report_draft` cookie the tabs share: it names the intent of the last answer, and requests for another
intent are refused (`Named`).

| Action | Code |
|---|---|
| `SendCreate`, `SendLoad`, `SendChange` | `save`, `load`, `complete` of `intake-client.ts`, one request at a time (`saving`) |
| `CreateRefused`, `CreateReplayed`, `CreateBegins`, `CreateCommits` | `execute` of `create-idempotency.ts`: conflict, expired or in progress; replay; lock and lookup; insert and commit |
| `ReadRefused`, `Load`, `ReadForChange` | `read()` and the guards behind it in `get`, `patch`, `complete` |
| `SaveDraft`, `CompleteIntent`, `SaveRefused` | `saveDraft`, `complete` of the repository |
| `ExpireDueDrafts` | `expireDueDrafts` |
| `Checkout`, `Pay` | what `PaymentStore` does to the intent's row |

A draft is what each section of the form was answered with; normalisation and encryption are left out. `patch` merges
into the draft it read and compares no version; the UPDATE compares the version the client sent. That is
safe because a client only sends versions it was answered with, which is why the clients are part of the model.

`Intake` is what that is meant to amount to: pages that are opened, changed, completed, bought and erased in one step each, without
versions, clocks, awaits or retries. A change is asked for (`Ask`) with the answers the page would have then; it is made as asked
(`Make`) or dropped, and whatever happens to the page first voids it. `Drafts` implements it (`ImplementsIntake`): `Page(k)` is the
row of a key, `Change(c)` a request under way as long as the row is the draft in the version it expects, with its answers over what
its tab showed (`Wanted`). Reading, refusing, losing answers and retrying are stutters or drops.

### RateLimiter
The shared fixed window of one key. `consume` is one upsert, but its clock sample and the write of the row are two
steps (`Sample`, `Consume`): it may wait up to `MaxDelay` for the row in between. `bucket` is the row. `granted` is a history:
each request allowed, with the age of its sample and of the window it was counted in, and its count there; a request
leaves the history when its sample is older than `Remembered`, so that spans up to that length are looked at. Times are
ages, so that the clock needs no bound: `LimiterTick` makes everything one tick older, and an age that nothing compares any
more stops growing. `MaxAge >= Window + 2 * MaxDelay` is an assumption the code satisfies by far (a day, a minute, seconds);
without it a purged bucket would give a budget back. The in-process limiter of `packages/application` is the same window
with one statement at a time and no purge.

`WindowBudget` bounds what all processes together allow within any span of time: one budget for each window that the span
and the wait before it can touch (`Windows`). Two budgets per window, as one would say of a fixed window, is too few when
statements wait: those that sampled late in a window and waited are counted in the one before, with the fresh ones of the window
and of its successor. With a window of two ticks and waits of two, the run does reach a third budget.

### CheckoutPanel
The panel of one intent. `order`, `busy`, `canResume`, `success`, `proof`, `resumed` are the component's state, `hosted` counts
Razorpay's open windows, `remote` is the order on the server: its moves are those `PaymentStore` allows a status
(`RemoteMoves`). A request is answered with what the server sees when it serves it, and the answer arrives whenever it
likes, or never.

| Action | Code |
|---|---|
| `ClickPay`, `AnswerCreate`, `OpenHosted`, `FailCreate` | `begin`: until the request; its answer; the script and the window; `catch` |
| `AttemptSucceeds`, `AttemptFails`, `Dismiss` | the handlers of the hosted checkout; the first one is `acceptProof` until its request |
| `ResumeOnMount`, `ClickCheck`, `AnswerStatus`, `FailStatus`, `FailProof` | `useEffect`, `refresh` and `acceptProof` |
| `ServeRequest`, `RemoteMoves` | the server |

### IntakeForm
The form, what Continue sends and the intent on the server. `values` is what the form holds, `current` the intent the
client knows, `addressed` whether the page's address names it, `sent` the request the form waits for, `orphan` a request
of a page that was left. `Step` is derived from `requested` as the code derives it. Names are values with the places of
their Ys, so that a class set for one place can meet another name. `chosen` is a history: the classes the customer chose.

### Numbers, CalculationBundle, Calculation
`Numbers` is the arithmetic: reductions with their steps, dates, alphabets and the number each tradition makes of them.
`CalculationBundle` is `calculateBundle`: each profile as the sequence of facts, traces and warnings it adds, or `Failure` where
the code throws; the validation of bundles; and how an intake becomes a request (`normalizeReportIntentInput`,
`calculationRequest`, `preview`). `Calculation` is the life of one calculation, from the request or the completed intake to
previews read on later days. A letter is a number, a text a sequence of them.

### Doctrine, ReportPlan, ReportWriter, ReportPipeline
`Doctrine`: conditions, the semantic diagnostics of a release, its normal form and index, the check of a compiled
release, and `resolve`. `ReportPlan`: `planReport` with every step of the selection, and the plan's validation. `ReportWriter`: the
deterministic writer with the schema its report is parsed with (`createStructuredReport`), and the verifier's gates that compare a
report with plan, facts and evidence. `ReportPipeline` runs a release through all of them, one stage per action, each refusing what
its check refuses. Prose is a record: how many sentences it has and whether words follow the last, its length and how many numbers
it shows; identifiers are numbers, which have the order `compareText` gives them. Which claim the writer takes for the first of a
section is any one of them: the order of the claims is that of their identifiers, which are hashes.

### PairWrite
`atomicWritePair` of the report's command line: each system call is a step that may fail, and the process may be killed
between any two. `file` and `backups` are what is on disk, `before` what was; `swallowed` remembers that the roll-back failed.

`MCWeb` and `MCReports` put modules that share no variable into one run: `part` says which one a behaviour is about.

## 3. Runs

| Run | Instance | Shows |
|---|---|---|
| `payment_store` | 2 intents, 2 remote orders, 2 payments, 2 refunds, 3 event ids, symmetric; 2,287 states, depth 16 | the rows' invariants and action properties, and that they implement `Purchase` |
| `checkout_service` | 1 intent, 2 concurrent requests, 2 remote orders, 1 payment; ~107,000 states, depth 42 | one remote order; rows follow the provider; only adopted orders are offered |
| `checkout_live` | the same with 1 request, fairness, no symmetry; ~6,300 states | captures settle, lost remote orders are recovered |
| `refund_service` | 1 intent, 2 executions, 2 payments, 2 refunds, 2 event ids, fairness, no symmetry; 6,567 states | one remote refund, only after approval; late answers undo nothing; processed refunds are recorded in the end |
| `sign_in` | 1 email, 2 browsers, 3 links, 2 sessions, 2 requests, 4 ticks; ~458,000 states | a link opens one session, and only the newest one does; the mail budget holds; live links are kept |
| `private_access` | 2 accounts, 1 report, 2 sessions, 2 requests, 2 ticks; ~613,000 states | everything answered is audited; what was withdrawn is not served; a key means one request; sign-out everywhere is complete |
| `drafts` | 2 tabs, 2 requests, 1 key, 2 locales, 2 sections, saves to version 2, 2 ticks; ~356,000 states, depth 26 | the rows implement `Intake`, so no answer is overwritten unseen; completed once; erased for good; stored answers are live |
| `web` | panel: 2 requests; limiter: limit 3, window 2, waits up to 2 ticks, rows kept 6, 3 statements, a history of 3 ticks; fairness; ~246,000 states, depth 33 | a reported payment is not asked for again and is shown in the end; there is always a next step; one budget per window a span and the wait can touch |
| `reports` | form: 2 names, 8 edits, 2 lost answers or reloads; 198 intakes and 144 engine requests on 2 days; 2,304 releases for 11 facts; two files with every failure and kill; ~173,000 states, depth 35 | reviewed and answered is what is calculated; bundles replay; the preview is stable; doctrine is settled; the stages agree; a pair of files is replaced whole |
| `drafts_retention` | 1 tab, 1 request, fairness of maintenance; ~2,000 states | **violated**: an unpaid draft is kept once its checkout was opened (§6) |
| `checkout_expired` | 1 intent, 1 request, 1 payment | **violated**: an expired intent's checkout can be reopened (§6) |
| `checkout_history` | 1 intent, 2 requests, 1 payment | **violated**: a stale reconciliation clears recorded uncertainty (§6) |

Why the bounds are enough. Rows of different orders meet only through the unique remote order, payment
and refund ids and the event ids: two intents and two of each show every collision. Within an order, a payment
is compared with one other payment (another one authorized, captured or refunded): two. Three event ids leave
room for a redelivery beside two fresh events. A request is disturbed by one other request at a time between
two of its steps, and the disturbances of further ones are those of the webhooks, which are unbounded; a second
remote order is what a wrong retry would create. The repository proofs (§5) do not depend on these bounds.

A sign-in needs three links to see a budget of two filled and a third one refused or a new window begun, two browsers for a
stolen link, two requests for every overlap of an issue with an issue, a redemption or a failed mail. The life of a link (2), the
throttle (1) and the window (3) are ordered as in the code, and four ticks let a row outlive each of them. A private request is
disturbed by one other (a second writer of its key, a sign-out everywhere), by logout and by the payment side, which are
unbounded. In `drafts` one key is enough because keys meet only in the cookie, which only refuses; two tabs are the two writers, a second
request in flight may be the orphan of the first, a save or a completion may meet a draft that was saved over, completed, sold or
erased since it was read, and two ticks outlive first the key and then the draft. The second
change of a draft is its completion; that a second save is merged into saved answers the same way is proved (§5), for any
number of versions.

In `web` two requests of the panel are a create or a proof and the check that overtakes it; a third would only repeat
one of them. The limiter's three statements are two that sampled early and one that resets the window under them; a
wait as long as the window lets them be counted in a window that was over when it ended, rows are kept exactly as long
as the assumption asks, and the history is longer than a window. In `reports` two names are what tells a class given to one from a class kept by the
other, and eight edits fill the form and change one answer after each step; the two failures are a lost answer and the
reload after it. The calculations cover a leap day, masters and debts as birthdays, eighteenth birthdays around the
day of calculation, and names with and without vowels, with two Ys, a word of marks, another script, a letter that
upper case doubles, and spaces to remove. The releases vary how many texts the first rules have, tensions, timing
texts, breadth and one further change each (a draft, an expired or a blocked rule, chains and cycles of suppression,
disagreeing schools, long and double sentences, a crowded section, another locale, texts and numbers over the schema's limits,
instructions joined to 400 and 401 characters, a shared action, many sources), which lets every removal of the planner happen
and every limit of a report be passed, most of them alone: sources, rules of a disagreement and of an action, length, numbers
and instructions. Nine facts of one disagreement are not reached, as the two schools have seven.

An expired intent without an order has nothing left to do: `CHECK_DEADLOCK FALSE` in the store and refund runs. In
`sign_in`, `private_access` and `drafts` the clock and the ids run out, in `web` a refunded order has no request left to
send, and in `reports` a report is done or refused, with the same effect.

Every property has a mutant in `PROJECT.json`: a change of one definition that a plausible bug would make
and that TLC then finds (a dropped guard of an UPDATE, the last event winning, a retry that creates, a refund
without its idempotency key, …). The mutated forms stand beside the definitions they change.

## 4. Fairness

`CaptureSettles` and `LostOrderRecovered` assume

* the provider redelivers a capture's webhook until it is answered with success (`WebhookFairness`);
  `docs/payments.md` relies on it, the handler refuses an event whose order is not adopted yet;
* a request in flight goes on or dies (`WF` of `Serve`);
* an operator reconciles again and again, and the awaits `Find`, `Lookup`, `Recover` succeed now and then
  (`SF`): the service has no background loop, `docs/payments.md` asks operations to schedule the command.

Nothing is assumed of the customer: no checkout, proof or retry ever has to happen. `ProcessedIsRecorded`
assumes that the operator keeps executing an approved refund and that each of its awaits succeeds now and
then. No fairness is assumed of the provider's payments and refunds themselves.

`PaidIsShown` assumes (`PanelFairness`) that a customer whose payment was reported goes on clicking the check button
while it is there, and that requests are served and answered now and then (`SF`); answers may be lost and overtaken as
often as they like, and nothing else the customer does is assumed. The button is the panel's only way on: the code
polls nothing by itself.

`UnpaidIsErased` assumes that maintenance runs again and again with the current time (`MaintainedSpec`), as
`docs/authentication.md` asks operations to schedule it.

## 5. Proofs

`PaymentStoreProofs` proves, for any sets of intents, remote orders, payments, refunds and events, that
`StoreInv` is an invariant of `StoreSpec`. `StoreInv` is the conjunction of the run's invariants with two more:
`RefundNamesCapture` (a refund request names a captured payment of its own order, needed to know what `Revoke`
changes) and `RemoteOrdersDisjoint` (one remote order per order, a payment only on an order whose remote order is
known, needed to know that an event changes one order's payments only). None of the parts is inductive alone:
that a capture is fulfilled needs that payable orders have no evidence, that access follows refunds needs that
refunds name captures. There is one lemma per transaction, with one step per conjunct it can disturb; the only
assumption is that `None` is no identifier. From it follow, as theorems, each safety property of the run, the action
properties (`FinalityIsMonotonic`, `EvidenceIsMonotonic`), and that the repository implements `Purchase`
(`StoreImplementsPurchase`): a first capture is `Charge`, a completed refund is `Refund`, and every other transaction
changes nothing the mapping sees (`Invisible`).

`WebProofs` proves that `PanelInv` is an invariant of `PanelSpec`, for any number of requests, and from it
`PanelHasNextStep` and `PanelChargesOnce`. `NoDeadEnd` is not inductive: that a panel without a button waits for
something needs that a busy panel has a request in flight (`BusyWaits`), and that a resumed intent shows its order or an
error (`ResumeAnswered`). `SuccessIsNotRepaid` needs that a request for a checkout is alone and that none is under way
once a payment was reported (`OneCreate`), and that a failed order is not shown then unless its proof is still to be
answered (`ProofUnderWay`). Both are about behaviours in which no two
requests for a checkout were in flight at once (`~overlapped`; §6 names how that comes about).

For the limiter, with any budget, window, wait and number of statements, it proves that `LimiterInv` is an invariant of
`LimiterSpec`, and `WindowBudget` from it. The budget is an argument about all windows there were, and the row holds the
last one only. `WindowsApart` says that two windows begin at least `Window` apart and that no count of a window was given out
twice, `CountedOK` that a request allowed is one of those the row counts or belongs to a window that was over when the row's
began, `WaitsOK` that a sample is at most `MaxDelay` older and less than `Window` younger than the window it is counted in.
The requests of a span thus map one to one into the pairs of a window it can touch and a count up to the limit, and those are `Windows(ticks) * Limit`. The purge is the delicate
step: a window may be forgotten while a statement still waits, and the next window must not begin too early.
`LimiterBounds` is what rules that out.

For the intake form it proves that `FormInv` is an invariant of `FormSpec`, for any names, spellings and places of Ys and
without a bound of the edits and failures. `ReviewedIsCalculated` is not inductive: that the preview is the one of what the page shows needs that a page
whose intake is completed shows the names and the date the server keeps (`CompletedOK`), hence that what a request in flight
completes is still what the form shows (`SentOK`: nothing can be edited while a request is awaited) and that a request of a page
that was left is refused once the server has accepted one of the page that followed (its version is stale).
`CompletedWasAnswered` needs that a request to complete carries every answer (`RequestsOK`) and that classes are only ever
chosen or kept (`ChosenOK`).

`CheckoutProofs` proves that every step of `CheckoutService` is a step of `PaymentStore` (`CheckoutUsesTheStore`), so the
theorems above and the refinement of `Purchase` hold of it (`CheckoutImplementsPurchase`), and that `CheckoutInv` is an
invariant, for any number of intents, requests, remote orders and payments. `OneRemoteOrder` is not inductive: that
nobody creates a second remote order needs that a request about to create one is the only such request of its order and
that there is no remote order yet (`CreatorsOK`), which rests on the row `prepareCheckout` inserts before
(`ReceiptsAreOrders`). `RowsFollowProvider` needs what a request carries from one await to the next (`CallOK`: the
order in hand has the receipt of its intent, from its adoption on it is the adopted one, and the payments still to settle
belong to it with a status that was announced), that announcements and payments' orders are never taken back
(`ProviderOK`, `Onward`), and `StoreInv`. Assumed: `None` is no intent, order, payment or refund, and each payment and
status has an event id (`EventIdsNamed`).

`RefundProofs` proves that every step of `RefundService` is a step of `PaymentStore` (`RefundsUseTheStore`), so the
theorems above hold of it, and that `RefundInv` is an invariant: `StoreInv`, the two properties of the run, and
`ExecOK`, what an execution may rely on after each await (its request is approved, the refund it holds carries the
request's key, a final status it was told is still the provider's). Without `ExecOK` a late result could belong to
another request. From it follow `OneRefundPerRequest`, `RefundRowsFollowProvider` and `ResultsNotUndone`. Assumed:
`None` is no intent, payment or refund.

`DraftsProofs` proves that `DraftsInv` is an invariant of `DraftsSpec`, for any tabs, requests, keys, sections and
values and without a bound of the versions. Its core is that no step lowers a row's version and that a version stands for one
content of its row (`RowsAdvance`), so that `Shown` (who holds this version was shown this draft) survives every step
of another actor. With it, `NoUnseenOverwrite` and `CompletionStands` follow per action; `AnsweredDraftsAreLive`
needs that a stored answer expires no later than its draft (`CreationOK`), which is where
`KeyWindow <= DraftLife` is used; `ErasedStaysErased` needs that a row is erased only when it is due (`RowOK`).
Assumed: `None` is no key, tab, language, answer, row, completed draft or change.

`DraftsImplementIntake` is the refinement. That a save or a completion is what `Intake` lets be made needs one more part of the
invariant, `SaveOK`: a patch merges into whatever draft it reads, but if its version is still the row's, that draft is the one its tab
showed, and what it will write is what was asked for (`ReadKeepsChange`). That a write voids every other change of its row, and no
change of another one, is `RowsAdvance` again (`PendingKept`, `RowsWritten`).

`SignInProofs` proves that `SignInInv` is an invariant of `SignInSpec`, for any emails, browsers, links and requests, and
from it `LinkOpensOnce` and `LinkBudget`, and `LiveLinkKept` per action. The budget is not inductive: its statement
counts the rows that are left, with the clock its request read. That this is what was sent needs that a request is
never older than `MaxDelay` (`RequestOK`) and that a deleted row had left the hour of every such request
(`RowsOK`), which is where `KeepFor >= BudgetWindow + MaxDelay` and `Throttle <= BudgetWindow` are used (the code:
a day, an hour and a minute). `LinkOpensOnce` needs that a link that opened a session is spent, and stays so
(`OpenedAreSpent`, `LinksKept`). Assumed: `None` is no row of a link or a session.

`PrivateAccessProofs` proves that `AccessInv` is an invariant of `AccessSpec`, for any accounts, sessions, reports, keys and
requests, and from it the four properties of the run. All but `EverythingIsAudited` are about the step that answers:
`ServedBy` says which steps can, and `CallOK` what the request brings to it from its first await (its session existed, the
reports it found are its owner's and were not withdrawn before, the sessions it noted are no younger than itself). That
it can rely on this in between is `Onward`: sessions stay closed and entitlements withdrawn. `ReceiptsAgree` needs that
a key has one row per account and report (`RowsOK`). Assumed: `None` is no row of a session.

`ReportsProofs` is about what a report is made from and how it is written.

* *The calculation.* `PreviewIsStable`: the preview is a function of the snapshot that was kept, with its `asOfDate`, and `complete` keeps
  one only when the calculation did not fail, for any intakes and days.
* *The reductions.* `ReductionsReplay` is the first half of `BundleIsReplayable`, for every number of up to four digits (what
  `DigitSum`, the sum by place value, is about): a trace made by `reduceTrace` satisfies `Reduces`. The digit sums and the
  reductions are recursive functions, chosen by TLA+ among those that satisfy their equation. So it is shown first that there is
  one (`RecursionIsDefined`, for any function whose value is made from the value at a smaller number), by the least number at
  which two partial solutions differ or none is found; then that a digit sum is smaller and of the same class modulo nine
  (`DigitSumIsSmaller`), hence that a reduction is defined at every number and what it passes through (`ReduceDescends`).
  `RootsAreClasses` follows for every number.
* *The registry.* `ResolutionIsSettled`, for any releases that compile and any facts: what is assumed of them is what their parsers
  check (numbers that tell facts apart, every field of a rule, a section of a report for each of its bindings;
  `FactsAreABundle`, `ReleasesAreParsed`). `PipelineInv` ties what was
  resolved to the release it came from; the rest is about `resolve`. A finite set that is strictly and totally ordered is listed in
  its order, each element once (`OrderLists`), so sorting loses no candidate, and the selections of a list keep what they select
  (`AtPlacesIs`). A rule that a fact fires is filed where the registry looks for the fact (`AppliesIsIndexed`). The delicate step is
  the comment of `registry.ts:424`, that the recursion over the suppressions ends because the compiler rejects cycles: without one,
  any set of rules has a member that none of them suppresses, for a walk backwards that never ends would meet a rule twice
  (`NoCycleNoDescent`); then there is a set of rules that are suppressed by none of the set, and every other one is (`SettledSet`),
  hence a function that satisfies the recursion (`SuppressorIsFree`), and evidence is that set (`SettledIs`).
* *The registry and the planner.* `PlannerTakesEvidence`: `assertResolvedEvidenceBoundary` never refuses what `resolve` made, for any releases
  that compile and any facts. What a settlement is made of is laid out once (`SettlementParts`): the evidence is picked from the
  candidates without repetition, every candidate has one trace, every suppression is of a candidate that is not evidence by one that
  is. That the evidence is reviewed, sourced and bound to a section with its actions is what the compiler checked
  (`EvidenceIsComplete`); that facts and rules can be told apart by their names makes the identifiers as many as the pieces
  (`ResolutionIsTaken`).
* *The writer and the verifier.* `VerifierAgrees`: of the eighteen codes the modelled gates can give, fourteen are impossible for a report the writer made of an
  accepted plan, for any releases and any facts. A claim rests on evidence that passed the boundary (`SupportFounds`), an accepted plan
  has no two claims of one identifier, so that the verifier finds the claim the writer had (`ClaimsDiffer`); `WriterTells` says what
  is written, block by block (`SpecialFits`, and `ComparisonFits` for the two facts of different profiles), and `GatesAgree` goes
  through the gates. The theorem has a hypothesis, `PlanIsSelected`: that the selection adds nothing to the candidates is not proved.
  `WrittenIsReadable` needs none: a plan the writer wrote has twelve to eighty claims and fits the schema. The method notes cite all
  sources of the plan, every claim what it rests on, and every instruction the rules of its action, so the bounds on the sentences
  are bounds on the plan (`WrittenFits`); that an action has an instruction is what the plan's validation checks.
* *The pair of files.* `PairInv` says what each loop of `atomicWritePair` has made of the entries it has passed: `Untouched`, `SetAside` or
  `Replaced` on the way forward; `Recoverable` before and `Found` after the roll-back of an entry, and put back where no
  system call of the roll-back failed. `PairIsWhole` follows.

Out of the provers' reach and only model-checked:

* the liveness properties (`CaptureSettles`, `LostOrderRecovered`, `ProcessedIsRecorded`, `PaidIsShown`, `UnpaidIsErased`): they
  need fairness and ENABLED;
* what is left of `BundleIsReplayable` beside the reductions (the sums between them, and how the traces and the facts of a
  bundle are put together), and `AcceptedIsCalculated` (no step of the calculation fails): they
  say what a fold or a concatenation computes, which needs induction over the data;
* three of the six conjuncts of `StagesAgree`: `PlanIsSelected` (the selection is sorts, filters and folds over the candidates) and
  `PlanIsBalanced` (it keeps to the caps, the budgets and the shares) for the same reason; `ReleaseIsTaken` (a compiled release
  is parsed again and accepted) is left to the run. Of `PlanIsWritten` one direction is proved (`WrittenIsReadable`); the other, that every plan that
  fits is written, rests on the cardinalities of what is selected and on the sums of its sentences. `EvidenceIsTaken` is proved, and
  `VerdictIsExpected` from `PlanIsSelected`.

The type invariants of `PaymentStore`, `RefundService`, `CheckoutPanel`, `Drafts`, `SignIn`, `PrivateAccess`, `RateLimiter`,
`IntakeForm` (`FormTypeOK`) and `PairWrite` are proved, as
parts of the inductive invariants, and no longer run. The other modules state theirs (`ServiceTypeOK`, ...) for the
reader and for the proofs of §8; a run would add nothing to the properties, which cannot be evaluated on a state of
another shape.

## 6. Where code and documents differ

* **An expired intent's checkout can be reopened** (`checkout_expired`). `docs/payments.md:31`: "Expired unpaid
  intents cannot reopen checkout". `prepareCheckout` expires a pending or failed order only. An ambiguous order of
  an expired intent goes on to `reconcile`; when all its payments failed, `confirmFailedOrder` makes it `failed`
  without looking at `expires_at` (its sibling `confirmUnattemptedOrder` does), and `createCheckout` returns the
  checkout.
* **Recorded uncertainty can be cleared by an older answer** (`checkout_history`). `docs/payments.md:29`: attempted
  payments "remain ambiguous". A reconciliation that fetched before the attempt confirms its answer under the row
  lock, but nothing ties the answer to the row it was computed for: an `ambiguous` another request wrote in between,
  because it saw the payment under way, becomes `pending` again and the checkout is handed out a second time.

* **An unpaid draft may be kept for ever** (`drafts_retention`). `apps/web/src/intake/privacy-notice.ts:49`: "An unpaid
  draft and its names, date, and language are retained for up to 7 days for resume and preview, then erased or
  redacted." `expireDueDrafts` selects unordered intents only: once a checkout was opened, the intent is
  `checkout_created`, and it stays so, with its data, when the order expires or fails or is never paid.

The first two lose no money: the checkout is the same remote order, and every capture on it is still fulfilled
(`CaptureIsFulfilled`, `OneRemoteOrder`).

Smaller things the models had to follow the code in, and a reader should know:

* **Intakes that cannot be completed.** `complete` calculates every profile. Johari's projected year throws for a birthday on
  29 February outside leap years (`johari.ts:132`), so such a customer cannot complete the intake in those years although the
  contract accepts the date; a name with a word of marks only (`Anna - Maria`) throws too. `AcceptedIsCalculated`
  names these two exceptions and shows that there is no other on the instances.
* **A link that survives its failed mail.** When the mail fails the link is withdrawn in a second statement (`magic-link.ts:171`), as
  `docs/authentication.md:45` says; when that statement fails too, the link works until it expires. A mail that timed out after
  it was sent holds such a link. It opens one session at most, as any other (`LinkOpensOnce`).
* **Stale classes of a Y.** `intake-form.tsx:614` keeps the classes by index when a name or its spelling is edited, although
  `intake-validation.ts:60` says that a Y "must be confirmed by the customer". `CompletedWasAnswered` is as weak as the code: the
  class was once chosen for that place of that field, for this name or an earlier one.
* **The panel.** A slow status answer sets `busy` back while a create is in flight, and a second create can be sent; its checkout
  opens even after a reported payment. `overlapped` excepts this from the properties. A late answer to a create or a
  failed proof can replace a shown `paid`; checking again repairs it (`PaidIsShown`).
* **Lost intake answers.** After a lost answer of `patch` or `complete` every further save is refused until the page is loaded
  again; a reload before the first save was answered starts a new intake and leaves the first to expire.
* **A changed privacy notice** shows the delivery step of a completed intake again; what is chosen there is reviewed and never saved.
* **Planner.** `balanceClaimValence` (`ranking.ts:164`) runs before the budgets and shares, which may remove what stands between
  three tensions; `planReport` then throws `PLAN_NEGATIVE_BALANCE`. `PlanIsBalanced` allows exactly that. Evidence of fewer than
  three independent families is refused by the policy.
* **Planner and writer.** The planner accepts plans the writer throws for: of fewer than twelve or more than eighty claims
  (`deterministic-writer.ts:81`), and those the schema of a report has no room for. A sentence cites at most eight facts,
  rules and sources (`structured-report.ts:64-67`), but a disagreement of two schools rests on all the evidence of both
  (`contradictions.ts:33-41`), an action on the rules of all its claims, and the method notes cite every source of the plan; a text of
  more than 600 characters or eight numbers (`:92`, `:86`) and instructions joined to more than 400 (`:75`) are refused too.
  A release of the instance with both schools in force reaches nine and ten rules in one disagreement. `PlanIsWritten` names these
  cases and shows that the writer refuses no others and writes none of them.
* **Compiler and registry.** A release compiles in any locale; the registry refuses it when the report's locale is not one of its own
  (`ReleaseIsTaken`).
* **Writer and verifier.** A plan may have fewer than five actions or lack a kind of block, which the verifier refuses; two
  instructions of one claim are joined to two sentences, which its provenance gate refuses; claims of more than one
  sentence lower a share that must stay at 85 %. These are the four verdicts `VerdictIsExpected` allows.
* **Command line.** `stage` leaves its temporary file behind when writing or syncing fails; a call that throws because a backup
  could not be deleted has replaced both files; a kill between two renames leaves an old file under its backup name only.
  `PairIsWhole` says what remains true: the old pair can be put together again, or the new one is complete.

## 7. Not modelled

One clock serves all processes and the database: skew between them is not told apart from a stale sample. `Grant` gives an
entitlement no start date (`granted_at` is never in the future of the clock that wrote it). Of a private report only whether it is
served is modelled. Ownership in `Drafts` is by session alone, as in the authenticated runtime; the draft
cookie's signature and its clearing at sign-out are left out.

Signature checks, body and response validation, amounts and formatting (an event or response that fails them is an
error like any other); audit rows (append-only, nothing reads them); session authentication of the
payment routes and the request budgets of all routes; the `deleted` report status and the `preview_ready` and `abandoned` intent statuses, which no code
writes; the creation order of payments (`RequestRefund` picks any captured one). The parts of the system without a
module are listed in `PROJECT.json` with the reason.

Of the intake form, e-mail, billing, analytics and marketing choices; of the browser's storage, the resume marker (it holds a
step and a language only). Of the engine, display tokens, explanatory policies and the validation of the manifest, whose
content is a constant of the build. Of doctrine, the parsing of authoring files, hashes and fixtures. Of the verifier, the gates
about numbers, length, language, safety, repetition, similarity and personal data, and the quality rubric of `quality.ts`: they
judge wording, which is left out. Of the schema of a report, the lengths of headings, titles, labels, identifiers, theme
names, the display name and the metadata of a report. The paragraphs the writer adds to fill a section are counted as one of the 128
a section may have; the releases of the instance stay far from that limit. `packages/numerology/src/fixtures.expected.ts` is test data.

## 8. Plan

Models left: the verifier's gates about wording, if wording ever becomes data of the model. Abstract
specifications worth stating: `PrivateAccess` against "a served report was owned and its session open at some moment of
the request".

Proofs left: the refinement of that abstract specification. Beyond the reductions, the modules of the
engine and of the report are folds over data, which stay with TLC.
