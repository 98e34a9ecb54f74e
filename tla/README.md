# Bingwa-AI: a TLA+ verification of the backend and the POS queue

The program keeps the books of small businesses. Owners type sales, purchases and
questions into WhatsApp or a web app; an Express server records them in Postgres
(one schema, row level security by tenant); cron jobs bill the subscriptions,
broadcast messages and check themselves. This directory holds TLA+ models of the
parts where order, concurrency, failure or a restart decide whether the books are
right, the TLC configurations that check them, and TLAPS proofs.

## 1. Inventory

Paths are relative to `src/backend/src` (B) or `src/web/src` (W).

| Component | State it keeps | Operations | Talks to |
|---|---|---|---|
| payments (B `payments/`) | `payment_transactions` rows, `subscriptions` | initiate, webhook (IPN), timeout sweep, status query | provider over HTTP, billing |
| reconciliation (B `scheduler/reconciliation.ts`) | parks payment rows | daily run | provider, payments |
| subscription life cycle (B `reports/reportService.ts`, `scheduler/scheduler.ts`, `middleware/grace.ts`) | `subscriptions.status`, `expiresAt` | lapse job, renewal job, grace check | payments, every write route |
| provider client (B `payments/xenteProvider.ts`) | token cache (a module variable) | login, collect, re-query | provider |
| POS offline queue (W `features/pos/`) | IndexedDB `queued` records per device | charge, drain, retry, edit, discard | `POST /v1/sales` with an idempotency key |
| sales (B `services/salesService.ts`) | `sales`, lines, `idempotency_keys` | record, replay, cancel | stock, customers |
| stock (B `services/inventoryService.ts`, `repositories/itemRepository.ts`) | `items.qty_in_stock` | decrement, increment, adjust | sales, purchases, orders |
| orders (B `services/ordersService.ts`) | `public.orders`, `platform_suppliers.reliability_score` | place, accept, decline | two tenants' purchases, sales and stock |
| drafts (B `services/draftsService.ts`) | `draft_transactions`: a state machine with the record it made | create, amend, confirm, answer, cancel, undo | sales, purchases, expenses |
| WhatsApp (B `channels/whatsapp/`) | none of its own | one task per message | drafts, tenant resolution, sales |
| tenant resolution (B `services/tenantResolutionService.ts`) | `user_contexts.activeTenantId`, memberships | resolve, SWITCH | every message |
| broadcasts (B `services/marketingService.ts`) | `broadcasts`, opt-outs, pause flag | send, STOP, START, quality monitor | WhatsApp |
| document cache (B `services/documentCache.ts`) | 50 entries, 5 minutes | put, get, evict | RETRY message |
| auth (B `services/authService.ts`) | users, refresh hash, TOTP step | signup, login, refresh, 2FA | every API call |
| NLP (B `nlp/`) | aliases, price history | parse, score, route | WhatsApp |
| customers, suppliers, expenses (B `services/`) | one row each, visits, platform suppliers | find or create, edit, remove, link to a sale | sales, purchases |
| reports (B `reports/`) | none | aggregate and send | WhatsApp |
| operations scripts (`src/backend/scripts`) | backups in a store, heartbeat, `applied_migrations` | back up, check, apply | database, store |
| corpus scripts (`src/backend/scripts`) | four JSON files | intake of a workbook | people who fill it |

What is hard in this code:

* **Check, then write by id.** Almost every job reads rows, awaits a provider or a
  loop, and then updates by primary key without reading again (payments, lapse
  job, orders). Postgres runs at READ COMMITTED: a transaction does not protect a
  read that preceded it, nor a check inside it.
* **At most once, at least once.** IPNs are acknowledged before they are processed;
  the POS retries after an ambiguous answer; WhatsApp redelivers.
* **Two transactions for one thing.** Orders book the buyer and the supplier
  separately; WhatsApp sales create their undo record afterwards.
* **Jobs that overlap** with themselves and with requests, and restarts in the middle.
* **Other people's clocks.** 10 minutes, 24 hours, 48 hours and 30 days decide what
  a row means.

The properties that make each component correct, in words, with their state:

| Component | Must hold | Status |
|---|---|---|
| payments | an activation is backed by the exact amount at the provider; a tenant has only the plan it paid for; an unverifiable row is never settled; processed rows are left alone; nothing stays pending; what the provider contradicts is reviewed | checked, safety proved |
| subscription | grace mode ends by money only; a lapse is noticed | checked, safety proved |
| sales | one key is one sale; an answer of success names a recorded sale | checked and proved |
| stock | stock equals what came in minus what live sales took; only simultaneous requests oversell | checked and proved |
| POS queue | what is recorded is what was charged, once; a record leaves the device only when recorded; a charge settles | checked, safety proved |
| orders | an order is answered and booked once, books before news, a fair score | checked and proved |
| drafts, WhatsApp tasks | a draft becomes one record; an undo undoes exactly its sale; final drafts stay; a question is settled | checked, safety proved |
| tenant resolution, exchange log | a text after a SWITCH is recorded for that business; exchanges that do not overlap are remembered | checked and proved |
| NLP | a sale of several lines is recorded without a question only if each line is backed; what a business taught comes before what others did, where the layers decide | checked and proved |
| broadcasts | a STOP holds for every later broadcast; the daily cap is exceeded only by a race | checked and proved |
| sessions | a rotated refresh token is never accepted again; a page that waits for its answers stays signed in; a used code stays used; a signup leaves a whole account or none | checked and proved |
| provider's token | a refused call was refused with a token newer than its first | checked and proved |
| customers, suppliers, items, expenses | every linked sale is counted; duplicates come only from races, edits and items | checked and proved |
| operations | a good heartbeat means this week's backup; migrations run once and in order; a backup that succeeded is whole | checked and proved; the last is violated (section 6) |
| corpus intake | rows arrive once, whatever was stopped | checked and proved |

## 2. Modules

    Entitlement  <--implements-- Payments <--extends-- Billing
    Ledger       <--implements-- Sales    <--extends-- PosQueue
    Trade        <--implements-- Orders
    Confirmation <--implements-- Drafts
                                 Intents  <--extends-- Chats
    Sessions   Broadcasts   Tokens   Directory   Aliases   Backups   Migrations   Corpus

| Module | Models | Correspondence |
|---|---|---|
| `Payments` | rows of `payment_transactions`, subscriptions, `initiateProviderPayment`, `handleProviderWebhook`, the timeout sweep, `runReconciliation`, with the provider as an external actor | A running handler is a member of `Initiators`, `Ipns`, `Sweeps` or `Recons` with a `pc`; a step is one read, one call to the provider or one transaction, so what a handler read may be stale when it writes. `age` is `created_at` against the two cutoffs (10 minutes, 48 hours); `txnKnown` is `provider_txn_id IS NOT NULL` |
| `Entitlement` | the promise: order, collect, entitle | abstract; `Payments` implements it with `collected` mapped to "collected in full at the provider" |
| `Ledger` | the promise of the books: sell, cancel, stock, forget a key, and only true answers | abstract; `Sales` implements it with the same rows, and with `told` mapped to the answers of success that its requests carry; no request, check or roll-back is left |
| `Trade` | the promise of an order between two businesses: answered once, then the buyer's book, the supplier's, the count and the message | abstract; `Orders` implements it with the requests hidden |
| `Confirmation` | the promise of a draft: opened, settled once with its record, undone with its sale | abstract; `Drafts` implements it with messages, tasks and the time to undo hidden, and the three open states seen as one (`Outcome`) |
| `Billing` | the lapse job with its list read before the loop (`lapsed`), the renewal job (`renewing`), terms that run out, together with every payment handler | extends `Payments`; `TermPasses` moves `expiresAt` against now |
| `Sales` | `POST /v1/sales` with and without an idempotency key, cancel, purchase, adjustment, the key purge, restarts | `handler` is a request between its statements (`lookup`, `check`, `insert`, `reread`, ...); a commit is one step with all it writes; READ COMMITTED lets the checks of a line go stale before the commit |
| `PosQueue` | the tabs of one device over one IndexedDB store: charge, enqueue, drain, retry, drop, going on- and offline, a tab that closes | extends `Sales`: what a drain sends is a request of `Sales`, its answer or the loss of its answer drives the tab |
| `Orders` | place, accept, decline, both sides' books, the reliability score, the message | `answer` is a request between the four transactions of `acceptOrderById`; any of them may fail after those before it |
| `Drafts` | message tasks (`no`, `text`, `parse`, `track`), the draft rows, the records they make, and the routes of the web app on the same rows | a step is one `withTenant` transaction, which holds the row's `FOR UPDATE` lock; a payload is the number of values it lacks |
| `Sessions` | `authService`, the auth controller, the refresh of `lib/api.ts` and the pages that hold a session | `call` is a request between its reads and writes, `cookie` what the browser holds, `hash` the one refresh hash of the account; tokens are numbers in the order they were made |
| `Intents` | `intentParser` with its rules and the model's answer, `computeStructuralConfidence`, `applyResolutionPolicy`, `coerceSubscriptionIntent` | one action per message; confidences in thousandths; the two parsers may read a message in any way their types allow |
| `Chats` | `resolveTenant`, `handleSwitchCommand`, platform user ids and their links, the context row and its log of exchanges | extends `Intents`: a message resolves, asks for context, is dispatched on an intent and saves its exchange, each in a transaction of its own; `active` is `is_active_context` |
| `Broadcasts` | `marketingService`, STOP and START, the quality monitor and its pause flag, edits of a customer's opt-in | a broadcast is a task: pause read, phones read, cap counted, row created, one send per phone; `registry` is the platform-wide opt-out |
| `Tokens` | the token cache of `xenteProvider` and the retry after a 401 | `request` is a call between its awaits; tokens are numbered by the provider, which may revoke them |
| `Directory` | find-or-create of customers, suppliers and expenses, creation of items, visits, platform suppliers | an operation is its lookup, its insert and what is linked afterwards, at READ COMMITTED |
| `Aliases` | `matchItemSync`, `matchItemFull`, `enrichMatchedItems`, `recordAliasMatch`, `promoteAliasIfThreshold`, the seeding script | items are pairs of a business and a name; layers are sets of items in the order of the code; a line carries the page of the inventory it was read with until it is matched against the tables as they are then |
| `Backups` | `backup.ts`, `backup-heartbeat.ts` with their crons | a week is seven days of hours; a run is its dump, pipe status, upload and check |
| `Migrations` | `apply-migrations.ts`, several runs at once | each file is a transaction that is begun, executed and committed; a runner may be killed between any two |
| `Corpus` | `intake-to-corpus.ts`: one run writes four files, with edits of the workbook and stops in between | a row of a sheet is a record of the cells that decide where it goes; a word is a normalized text |
| `PaymentsProofs`, `SalesProofs`, `PosQueueProofs`, `OrdersProofs`, `DraftsProofs`, `SessionsProofs`, `MessagingProofs`, `OperationsProofs` | theorems about every module above: `PaymentsProofs` covers `Payments`, `Billing` and the refinement of `Entitlement`; `MessagingProofs` `Broadcasts`, `Intents` and `Chats`; `OperationsProofs` `Backups`, `Directory`, `Aliases`, `Corpus`, `Tokens` and `Migrations` | section 5 |
| `MC*` | names, symmetry and small carts for TLC; `MCServices` puts the parts that share nothing side by side, the first state picks which one moves | |

In every module the identity of rows, requests and senders is a model value, money is
"the right amount or not", and wording, formatting and audit rows are left out.
What a mapped definition stands for is in `PROJECT.json`, line by line.
The definitions with a comment "Mutant" are faulty variants of the definition that
follows them; no specification uses them. Each property fails when its variant takes
the place of the original.

Modelling decisions that matter:

* **Transactions.** A `withTenant` transaction whose statements lock what they read is
  one action. Where a transaction only reads before it writes (the stock check of
  `resolveSaleLines`, the read of `declineOrderById`) the read is an action of its own.
* **Provider.** It may refuse, answer or lose a collection, decide it later in either
  way and for a wrong amount, and a re-query may fail at any time.
* **Restarts.** A restart drops every running task and keeps every row. The number of
  restarts is bounded by `MaxCrashes`, except where the tasks restart from rest anyway
  (`Sales`, `Drafts`).
* **POS.** The list of failed sales is read from the store directly (the page polls it
  every two seconds), all that the store offers is drained in any order (its ids are
  random UUIDs), `NetError` says how a browser reports a lost connection, and requests
  that cancel or adjust are left to the runs of `Sales`.
* **Orders.** The buyer of an order always exists, so the branch that skips an unknown
  buyer is not taken.
* **Aliases.** An item keeps its name and the aliases it was entered with: `updateItem`
  is left to `Directory`.
* **Corpus.** A person edits the workbook and the files between runs, never while one
  reads them, and a file is written whole or not at all.
* **Drafts.** The language model's reading of a message is a choice: it may need a question,
  be recorded, be recorded with ten minutes to undo it, or be asked about by its handler. A
  restart may come at any step.

## 3. Runs

| Run | Instance | Shows |
|---|---|---|
| `Payments_races` | one tenant, one row, two notifications, a sweep, a reconciliation, an initiation, one restart | what is written late was backed when it was decided; a row that no task holds is left alone; a pending row resolves; a settled row that the provider contradicts is reviewed |
| `Payments_tenants` | two tenants, two plans, two rows, two initiations at a time | two requests of one tenant may both pass the check of pending payments; nobody gets a plan by somebody else's payment; the handlers implement `Entitlement` |
| `Billing_grace` | one tenant, two payments, both jobs, one restart | only money ends grace; a lapse is noticed |
| `Sales_books` | two items, three sales, one key, two requests at a time | the stock adds up, one key is one sale, overselling is bounded; the requests implement `Ledger` |
| `PosQueue_device` | two tabs, one charge, two server requests, a purge, an outage, a closed tab | recorded as charged, deleted only if recorded |
| `PosQueue_live` | one tab, two charges, an outage | every charge settles |
| `Drafts_books` | two senders, two concurrent messages, two drafts of their own and the corrections, one direct sale | one record per committed draft, exact undo, questions settled; the two channels implement `Confirmation` |
| `Sessions_cookies` | one account, one browser with two requests at a time, three tokens, two codes of a list | rotated tokens stay rejected, sessions are kept, codes are used once, accounts are whole |
| `Services` | ten parts, each alone: two orders and three answers; three messages of a phone with two businesses; three broadcasts; two weeks of backups; three runners of two files; three calls and four tokens; three directory operations; two businesses, up to three items of three names, a word that is also one of them and one line at a time, read with a page of two items; two edits and two runs of the intake; every sale of up to two lines from five quantities and four prices | the properties of `Orders`, which implements `Trade`, and of `Intents`, `Chats`, `Broadcasts`, `Backups`, `Migrations`, `Tokens`, `Directory`, `Aliases` and `Corpus` |
| `PosQueue_stuck`, `Orders_booked`, `Backups_partial` | the smallest instance | **violated**: section 6 |

Why the bounds are enough to be of interest: two tasks per kind are what a check-then-write
race needs, a third (answers to orders, messages, runners, calls of the provider) shows what
a late one finds; one restart can hit every step, and a second finds the rows in states that
the first can leave as well; two payments, items, orders or senders are what a mix-up needs.
The proofs of section 5 lift these bounds for what they cover. `Drafts_books` runs with
sales alone, which keeps two senders within reach; the proofs cover purchases and expenses.
With one value missing at most (`MaxGaps = 1`) every question can be answered by one
message, which is the precondition of `QuestionIsSettled` (section 6, drafts). Two weeks of
backups hold a Sunday, the heartbeat after it and the backup before it; two migrations have
an order; `MaxLog = 2` and three messages let an earlier exchange stand beside a later one
and the third push the first out; a cap of one is the default of `BROADCAST_DAILY_CAP`; a
threshold of two businesses is the smallest that needs another business. The parts of
`Services` are checked alone because none reads what another writes, except `Intents`, which
`Chats` extends.

`CHECK_DEADLOCK FALSE` is set throughout: rows, keys, drafts and orders are finite sets
that get used up, and an instance that has used them up stops. The programs themselves
wait for the next request. Symmetry is used only in runs without liveness properties.

## 4. Fairness

| Module | Assumed | Because |
|---|---|---|
| `Payments` | the sweep and the reconciliation are started again and again, their tasks go on, time passes the ten minutes, and for each row a re-query and a write do not fail for ever | `startScheduler` runs them by cron (`scheduler.ts:319-343`); no notification and no decision of the provider is assumed |
| `Billing` | the lapse job is started again and again, its transaction for a tenant does not fail every day | `scheduler.ts:294-304` |
| `PosQueue` | tabs and requests go on, a lost connection comes back, the page is opened again, trouble ends at some time | the `online` event and the mount effect of the page start a drain |
| `Orders` | a request that runs goes on | used for `Orders_booked` only: even so the purchase is never booked |
| `Drafts` | tasks go on, a sender keeps writing, an answer that fits does not fail for ever | a question is answered by its sender alone; no timer closes it |

The other modules state safety only: nothing in their code retries or is scheduled until
it succeeds, apart from the backups, where `Backups` counts the hours instead.

## 5. Proofs

TLAPS proves every safety property and every action property that a run checks, except
the three that the code violates (section 6), for every number of tenants, rows,
requests, items, tabs, orders, senders, businesses, messages, tokens, files and restarts,
under the named assumptions of the modules: a dummy value is not a real one; bounds are
natural numbers; quantities and prices are integers; and, for sums over sales and requests
only, the sets of items, carts, sales and requests are finite and not empty
(`FiniteAssumption`). The invariants were checked by TLC on the instances of section 3
before they were proved; each is stated at the end of its module or at the head of its
proofs, and its type invariant is proved with it, so no run repeats that.

* **`PaymentsProofs`**: `IInv` is inductive. `SettledIsBacked` alone is not: a handler
  decides in one step and writes in a later one, so the invariant must speak of verdicts
  still to be written (`VerdictBacked`: what a task is about to write is backed now,
  and stays backed, because the provider never takes a collection back). `RowsExist`,
  `IdsAreReal` and `InitiatorsOwn` say which rows tasks may hold. From it follow
  `TypeOK`, `SettledIsBacked`, `PlanIsPaidFor`, `UnverifiableNeverSettles`, the action
  property `QuietRowsStayQuiet`, and the refinement of `Entitlement`: initial states map
  to initial states, every step to a step or a stutter.
  `BillIInv` is `IInv` with the two lists of the jobs. The jobs move status and term and
  never a plan, so `IInv` survives them (`SubMoves`) and `Entitlement` does not see them
  (`TermsAreUnseen`, `BillingImplements`); a handler changes a subscription only by
  writing a backed "successful" (`HandlersSettle`), whence `GraceEndsByPayment`.
* **`SalesProofs`**: `SalesIInv`. The unique index on the key makes the stored response
  and the sale inseparable (`StoredIsSale`, `RowIsKept`); a key without a row has no
  sale unless it was purged. From it `OneSalePerKey` and `SuccessIsRecorded`.
  With it the refinement of `Ledger` (`BooksAreAtomic`): however requests interleave and
  roll back, the sale, its goods and the memory of its key change in one step, and
  `SuccessIsRecorded` is what makes every answer on its way true.
  `StockIInv` adds what a request has checked and not yet taken (`Claims`). A commit
  turns a claim into stock taken and a check makes a new claim only within what is there,
  so stock less claims never falls below the bound (`ClaimsAreBounded`), although stock
  alone may fall at any commit. A cancellation gives back exactly what its sale took,
  since a recorded sale never changes its lines (`CancelsWhatWasSold`). From it
  `StockLedger` and `OversellIsBounded`.
* **`PosQueueProofs`**: `PosIInv` adds to `SalesIInv` that every record, drain, request
  and sale of a key carries what was charged under it (`OnDevice`, `DrainsCharged`,
  `RequestsCharged`, `SalesCharged`), and that a waiting tab reads the answer of its own
  key (`Attended`). Without the last an answer could settle another tab's record. From it
  `RecordedAsCharged` and the action property `DeletedOnlyIfRecorded`; and every step of
  the queue is a step of `Sales` or leaves its books alone (`QueueIsAClient`), so what is
  proved of the books holds when tabs fill them and retry (`RetriesKeepTheBooks`), the
  promise of `Ledger` included (`QueueSeesTheLedger`).
* **`OrdersProofs`**: `OrdersIInv`. The conditional update admits one request to an order
  (`OneWorks`), and `Progress` says how far that request has brought the books. From it
  `BookedOnce`, `BooksBeforeNews`, `ScoreIsFair` (the rounding included) and
  `AnswerIsFinal`. The refinement of `Trade` (`OrdersKeepThePromise`) takes more of
  `Progress`: the request that books the sale has seen the price, and the one that tells
  the buyer has been counted. `AnswerIsFinal` alone does not say in which order a
  business sees its books.
* **`DraftsProofs`**: `DraftIInv`. A record is named by the draft it was made for, by the
  one draft that a task still has to insert (`TasksOwn`), or by none; an open draft names
  nothing (`OpenNameNothing`). From it `CommittedOnce`, `OneDraftPerRecord`,
  `UndoIsExact` and the action property `FinalDrafts`. The refinement of `Confirmation`
  (`DraftsKeepThePromise`) shows in addition that both channels only ever take the steps
  of one protocol: that of `Track` needs `TasksOwn`, that of `Undo` `OpenNameNothing`.
* **`SessionsProofs`**: `SessionsIInv`, of three parts. Tokens: the one stored is the
  youngest, and what an undisturbed browser holds or is about to be told is the one that
  is stored (`TokensAreFresh`, `OneAtATime`, `AnswersAreStored`), whence
  `RotatedIsRejected` and `SessionKept`. Codes: a code that was used is in no list, stored
  or about to be written, and a closed step is over, recorded, or earlier than the one
  about to be recorded (`CodesAreKnown`, `StepsAreOver`), whence `UsedCodeStaysUsed`.
  Accounts: the subscription is made for an owner that was made before, whence
  `AccountIsWhole`.
* **`MessagingProofs`**: `BroadcastsIInv`. When a broadcast filters its phones, what it must
  avoid is in the registry (`PromisesAreListed`), so no list it has still to send to names
  one (`ListsAvoid`): `StopIsKept`. A broadcast that was counted is under the cap unless
  another of its business came between (`CountedIsUnderCap`): `CapNeedsRace`.
  `IntentsIInv` says that the stored resolution is the one the policy gives; the proof of
  `OnlyBackedIsCommitted` takes the policy through any number of lines, in both directions.
  `ChatsIInv`: what a handler has found out belongs to its phone (`JobIsWhole`,
  `ShownIsActive`), whence `FollowsSwitch`; and the copy of the log in a handler is as good
  as the log while no other exchange of its sender is under way (`ReadIsWhole`), whence
  `RecentKept` for a log of any length.
* **`OperationsProofs`**: `BackupsIInv`, where the schedule makes objects on Sundays
  (`ScheduleIsSunday`), so the eight days of a Monday's check reach one of the schedule,
  or one made by hand: `BeatMeansBackup`. `DirectoryIInv`: a sale is linked once, by a
  request that is over (`LinkedOnce`), and who found no row where there is one now was
  raced by who made it (`MissesAreRaces`): `DirectoryAddsUp`. `AliasesIInv`: an
  item that was taught when a line's inventory was read is in that inventory and in the
  business's row for good (`ReadStands`), because a row never changes its item:
  `LearntComesFirst`. `CorpusIInv`: what a run has
  written so far holds the rows of the workbook as the run read it (`WrittenSoFar`):
  `IngestedOnce`. `TokensIInv`: the answer of a login is known to one call alone until it is
  cached (`OnlyMine`), and a second try holds a token newer than the first refusal
  (`RetryIsNewer`): `RefusedIsNotReused`. `MigrationsIInv`: what a runner read stays true
  (`ReadIsTrue`), what it has passed is applied (`BehindIsApplied`), and the row of a file
  about to be committed is held by one runner (`HoldsAlone`): `RunsOnceInOrder`.

Sums, positions in a log, the places of new rows and the pairs gathered from a sheet need
an induction. The library's induction theorems take an operator as a parameter, which the
provers cannot instantiate; the lemmas take the least number or the smallest finite set
for which they fail instead (`WFMin` with `NatLessThanWellFounded`).

`SuccessIsRecorded`, `AnswerIsFinal` and `FinalDrafts` are theorems that no run repeats:
the runs check the refinements, which say more.

Only model-checked: the liveness properties `PendingResolves`, `DisagreementIsReviewed`,
`LapseIsNoticed`, `ChargeSettles` and `QuestionIsSettled`, which need fairness and ENABLED
and are outside the prover; and the three violated properties of section 6.

## 6. Where the repository says one thing and the code does another

Three disagreements are runs of their own, with the sentence they contradict quoted in
`PROJECT.json`: a record that was being sent when its tab closed is never sent again
(`PosQueue_stuck`); an accepted order may never be booked (`Orders_booked`); a backup that
succeeded may hold a part of the data (`Backups_partial`).

The others met while modelling are not runs; the models contain the behaviour, and no
property claims that it is excluded.

Payments and billing:

* A collected payment whose initiation reply was lost is failed by the sweep
  (`paymentService.ts:558`) and its notification is ignored afterwards (390). The one
  `catch` of `runReconciliation` (`reconciliation.ts:145`) counts `MissingProviderTxnIdError`
  as an error and leaves the row, although `PaymentProvider.ts:60` says that the flows
  "catch this SPECIFIC error and park the row".
* A tenant who pays between the lapse job's list and its write is put in grace mode
  (`reportService.ts:161-178`), although `grace.ts:13` says that writes are restored.
* A row parked in `needs_review` can be set to `successful` by a handler that read it
  before (`paymentRepository.ts:31` says "never auto-activated"; `paymentService.ts:245`).
* Two concurrent initiations pass the pending check (`paymentRepository.ts:165`,
  `paymentService.ts:520`; `Payments_tenants` contains it); two concurrent notifications
  both activate (`paymentService.ts:374`, `390`). Both are backed by money.
* Only the call that met a 401 has its token renewed: when the renewed token is refused
  as well, it stays in the cache for the next call (`xenteProvider.ts:206`).

Sales, POS and stock:

* Concurrent sales take stock below zero (`docs/prompts/codex-gpt55.md:74`,
  `salesService.ts:150`): `OversellIsBounded` says how far. The loser of two requests with
  one key and no stock left for both gets 422, not the replay (`salesService.ts:236-240`).
* A POS record can be shown as failed although the sale was recorded
  (`docs/updated-rules/web-design.md:94`, `useOfflineQueue.ts:143-156`), and a key purged
  after 24 hours is recorded again (`scheduler.ts:257`): `OneSalePerKey` excepts purged keys.
* Sales in grace mode are refused by the API only, not by WhatsApp or by
  `/v1/drafts` (`reportService.ts:193`, `routes/index.ts:49`, `echoBot.ts:227`).
* An order decrements no stock of the supplier, but cancelling the sale it booked adds
  some; an unpriced order tells the buyer that stock was updated (`ordersService.ts:214`).
* No unique index backs find-or-create of customers, suppliers and items, so
  simultaneous requests make duplicates; a visit is lost when its row is removed meanwhile.

Drafts and WhatsApp:

* A draft that offers an undo is `confirmed` with its record made: confirming it over the
  web (`draftsService.ts:528`) makes the record again. `CommittedOnce` counts the records
  that a draft makes by its commit.
* NO to a purchase or an expense is answered "has been undone. Stock restored"
  (`draftsService.ts:650`) and reverses nothing, because only a sale's id is kept
  (`echoBot.ts:141`). `UndoIsExact` speaks of sales.
* A question about a payload that lacks two values is never settled by answers: each
  answer fills one, the commit throws, the transaction takes the answer back, and every
  further message of that phone is taken as an answer (`draftsService.ts:544-557`).
* A restart between a record and its undo draft (`echoBot.ts:167`) leaves a record that
  NO does not find; a redelivered message is recorded again, no message id is kept. When
  the undo draft fails, the sender reads "Something went wrong. Your data is safe. Please
  try again." (`echoBot.ts:181-184`) although the record stands.
* A message that read "no active business" may set one after a SWITCH committed. The log
  of exchanges is saved after the reply was sent, so even a sender who waits for each
  reply can lose one.
* STOP is written for the business that the phone resolves to, and nowhere for a phone of
  no business, although `messageProcessor.ts:398` says "opts out across all" and 421
  answers "You have been unsubscribed". An error of the quality endpoint counts as HIGH
  and clears a pause; two broadcasts at a time can exceed the daily cap.
* The draft that offers an undo is made after a purchase or an expense that was only asked
  about as well (`echoBot.ts:167`, 285-288): NO is then answered "has been undone" although
  nothing was recorded. After a sale that was only asked about its insertion fails on the
  empty id, and the question is replaced by the error.
* A pause that cannot be read counts as none, and a broadcast begins
  (`marketingService.ts:48-51`, whose comment calls that safe).

Aliases:

* The header of the matcher asks the seeds before the table of the tenant
  (`itemMatcher.ts:4-6`), line 18 and the comment of `matchItemFull` (288-293) say that
  learnt aliases come first. `matchItemFull` does the latter. But a line that is nothing
  but the word is matched by `matchItemSync` when the rules parse it
  (`intentParser.ts:162`, 198), that is, when the model gave no answer: the seed then wins
  over what the business taught, and `enrichMatchedItems` keeps it (446).
  `LearntComesFirst` speaks of lines that the parser left.
* An id that the language model names for a line is not looked up by the parser, and the
  layers are skipped for it (`intentParser.ts:96`, `itemMatcher.ts:446`). The lines of a
  sale and the first line of a purchase are looked up among the items of the business when
  they are booked (`draftsService.ts:240`, 257); the other lines of a purchase and those of
  an expense are learnt as they are (312-318), so a business may learn another one's item.
* A message is read with the first hundred items (`echoBot.ts:75`): an item that was taught
  and is beyond them is passed over for a seed. `LearntComesFirst` speaks of items read.
* The promotion of an alias to every business counts businesses per item
  (`itemMatcher.ts:406-412`), and an item belongs to one business: lines that the program
  matches by itself never reach a threshold above one, only ids named by the language
  model do. `tests/unit/nlp/aliasPromotion.test.ts` runs on the real database and inserts
  the item of one business for all of them directly (68-77), so it does not see this.

Accounts:

* A signup that fails after the business was made answers "Failed to create user. Please
  retry." (`authService.ts:207`), but the soft-deleted business keeps its phone unique
  (`migrations/20260405092934_global_schema_init/migration.sql:69`), and the retry is
  answered 409 "already registered" (187).
* A refresh that is late overwrites the cleared hash of a logout; two refreshes of one
  browser whose answers arrive in the other order sign it out. `SessionKept` speaks of
  a page that waits for its answers.
* Two logins at a time may both pass with one code, and the later write of the code list
  brings a used code back; disabling the second factor while it is being enabled leaves
  it on without a secret.

Operations and corpus:

* The header of the intake says "re-running on an unchanged workbook emits ZERO new
  records" (`intake-to-corpus.ts:14-15`). A slang row is looked up under an empty
  category (673) and stored with its own (560, 678): each run appends it again.
  `IngestedOnce` speaks of the other rows.
* RETRY looks the document up by the phone with its plus sign, while keys are without, and
  no code stores a document: the answer is always that there is none.

## 7. Not modelled, and what comes next

Not modelled:

* `documentCache`: nothing puts a document in, so it has no reachable state but the
  empty one.
* Reports, exports, receipts: reads of committed rows without a write, their content is
  sums and wording.
* The HTTP application, validation, the WhatsApp client, signatures, rendering and the
  pages of the web app except the POS queue and the session: pure input and output.
* The wording that regular expressions and the language model recognise: `Intents` lets
  them read a message in any way that their types allow.
* Row level security, which is the database's: every step is a transaction of one tenant.

Next, in this order:

1. `Chats` composed with `Drafts`, whose phone then is a phone in a business; `Sessions`
   with two browsers as a run (the proofs cover any number).
2. The books that `Drafts` and `Orders` write to as clients of `Sales`, like the POS
   queue, so that their promises compose with that of `Ledger`.
3. Windows of the scheduled reports against sales recorded at midnight.
