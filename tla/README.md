# Verification of CanCoder (riding-and-address)

TLA+ models of the CanCoder Cloudflare Worker (`src/src`), its portal
(`src/portal`) and its data scripts (`src/scripts`), with TLC configurations that
check them on small instances and TLAPS proofs of what matters most for every
instance. Paths are relative to the repository; a bare file name such as
`queue-policy.ts` is `src/src/queue-policy.ts`.

CanCoder answers "which riding is this address in" over HTTP. It runs as a
Worker: many short-lived isolates, each single-threaded, that share state only
through Durable Objects (one single-threaded instance per id, with its own
storage), KV namespaces (eventually consistent, last write wins, failed calls
unnoticed), R2 and D1 (no transaction over several statements in this code). A
handler is therefore atomic from one `await` to the next, and everything
interesting happens at the awaits: other handlers of the same isolate or object
run there, calls to other objects fail or lose their answer there, and isolates are
evicted there. That is the grain of every module: an action is what a handler
does from one await to the next.

Contents: 1 inventory, 2 how the project is laid out, 3 the runs, 4 the modules
one by one, 5 what is proved and how, 6 what was seen while modelling, 7 what is
left out and what is planned.

## 1. Inventory

| Part | Code | State | Modules |
|---|---|---|---|
| Batch job queue | `queue-policy.ts`, `queue-manager.ts`, queue routes of `batch.ts` | jobs and batches maps, retry / priority / dead-letter queues, one stored snapshot | `JobPool`, `JobQueue` |
| x402 payments | `offers.ts`, `x402*.ts`, `/spend` of `api-key-usage-do.ts` | signed offers and cursors (stateless), receipts in KV, a spend counter per payer and day | `PaidRequest`, `X402Accept`, `Quotes` |
| Upload jobs | `upload-jobs.ts`, `upload-sheet.ts`, `app.upload.tsx`, Stripe webhook | in the customer's usage object: jobs, credits, one alarm | `UploadJobs` |
| Circuit breaker | `circuit-breaker.ts`, `circuit-breaker-do.ts` | state and counters per key, in an isolate and in one object | `CircuitBreaker` |
| Riding lookup, caches, spatial database | `riding-lookup.ts`, `lookup-expansion.ts`, `cache.ts`, `dataset-*.ts`, `spatial.ts`, `cache-warming.ts` | cache of answers in KV, files in an isolate, two D1 tables | `RidingLookup` |
| Batch lookups | `batch.ts`, batch geocoding | one batch | `BatchLookup` |
| Geocoding | `geocoding.ts`, `geocoder-providers.ts`, `retry.ts` | geocode cache, circuits | `Geocode` |
| Address import | `scripts/import-nar.ts`, `scripts/import-oda.ts`, `nar-import.ts`, `oda-import.ts`, `scripts/build-oda-suggest.ts` | D1 address tables and their ledger | `CityRefresh`, `NarImport`, `OdaImport` |
| Partition changes | `nar-stage.ts`, `nar-delta.ts`, `nar-rehearsal.ts` | plan, checkpoint file, journal, lock | `NarDelta` |
| Area query, suggestions, local address database | `area-query.ts`, `oda-suggest.ts`, `oda-geocoding.ts`, `address-store.ts`, `oda-source.ts` | none but cursors and short caches; they read the address tables | `AddressPaging`, `AddressSuggest`, `AddressMatch` |
| API keys and access tokens | `api-keys.ts`, `oauth-token.ts`, `kv-cache.ts`, portal mutations | KV entries, caches of every isolate, session rows | `Credentials` |
| Signup and invitations | portal `signup.tsx`, `invite.server.ts`, `customer.server.ts`, `auth-d1` | D1 rows of members, invitations, billing | `Membership` |
| Customers, usage, limits | `customer.ts`, portal `billing-mutations.server.ts`, `rate-limit.ts`, `daily-quota.ts`, `usage-ledger.ts`, `billing.ts`, `api-key-usage-do.ts` | D1 row, KV projection, caches; windows, quotas and the ledger in objects | `Projection`, `Metering` |
| HTTP surface | `routes.ts`, `mcp*.ts` | route table; windows in objects | `Gateway` |
| Webhooks | `webhooks.ts`, cron of `worker.ts` | events and an index in KV | `Webhooks` |
| Address box | `embed.ts` | a text field, its list, timers, requests in flight | `Widget` |
| Text and geometry | `oda-normalize.ts`, `oda-address-format.ts`, `spatial` arithmetic, `docs.ts` and rendering | none | not modelled |

What is hard, and what correct means there:

* **Queue.** Several `/queue/process` calls overlap, each holding ids it took out of
  the queues; operators retry meanwhile; the object may be evicted at any await and a
  save may fail silently. No job in two places, counters and verdicts true of the
  jobs, stored completions never undone, everything settles.
* **Payments.** A settlement is irreversible and happens at a third party; reservation,
  receipt and delivery are separate writes. Never beyond a payer's daily cap, never
  delivered without payment, receipts true, what is quoted is what is paid and delivered.
* **Uploads.** Stripe reports a payment late, twice, never, or while the alarm asks
  about it. Nothing processed unpaid, nothing paid released, credits and free rows add up.
* **Circuit breaker.** Calls report to a state that has moved on since they were
  admitted, and a state may be reloaded over a newer one whose save failed. It follows the
  service down and up, and no report, in whatever order, closes it before it has earned it.
* **Lookups and geocoding.** Files are replaced, tables emptied and refilled, operations
  outlive their deadlines, and answers are cached for others. Every answer is true of
  the point it goes with, passes its gate, and every request ends.
* **Address data.** Imports die half-way and are repeated, resumed or mixed, while
  readers page through the tables. No row twice, done means whole, derived tables agree.
* **Customers, keys, limits.** What each isolate knows is stale. Access that was taken
  away ends in bounded time, records converge, limits hold, the ledger is exact.
* **Address box.** Searches, lookups and timers finish in any order. The list is one
  answer, the form agrees with what was chosen.

`PROJECT.json` lists every component with its status, and the hazards line by line
with the property that covers each.

## 2. Layout

A module per component, in one file of its name. Where a component has a contract
worth stating apart, the contract is a module (`JobPool`, `PaidRequest`,
`CityRefresh`) and the detailed module refines it (`Pool`, `Promise`, `Refresh` are the
instances). `Totals` has sums over sets, written as the cardinality of a set of units:
the provers cannot instantiate an operator given as an argument, which a fold needs.
`MC*` modules give the constants their values for TLC.

*Scenes.* Several components share no state and are small. An MC module may host them
side by side: a variable `scene` (or `mode`) chosen initially says which is played, the
others stand still at one of their initial states. The state space is the sum of the
scenes, and each property is an invariant of its own scene. `MCX402Accept` hosts the rail,
the quotes and the gateway; `MCEnds` uploads and webhooks; `MCCredentials` credentials and
memberships; `MCLookups` lookups, warming and batches; `MCAddressTable` the import, its
readers (these share the tables) and the partition changes.

Theorems are in modules of their own: `DataFacts` (sequences, sums), and per area
`JobQueueProofs`, `PaymentProofs`, `CustomerProofs`, `AccessProofs`, `LookupProofs`,
`AddressProofs` (the import and its readers) and `RemoteProofs` (those who deal with another
that may be late or down: circuit breaker, address box, partition changes). Each theorem is about the component's own
specification (`QuotesSpec`, `BatchSpec`, ...), without the scenes of the runs.

Operators whose comment begins with MUTANT are plausible slips of the code next to the
definition they alter; `PROJECT.json` names for every property one that breaks it.

## 3. Runs

| Run | Properties | Instance |
|---|---|---|
| `queue` | `OnePlace`, `PlaceMatchesStatus`, `CompletedCountExact`, `VerdictsEarned`; `PicksBestFirst`, `CompletedIsFinal`, `ImplementsJobPool`, `JobsSettle` | a batch of 2, 2 calls, 2 priorities, 2 attempts; one each of operator retry, crash, failed load, failed save |
| `x402_rail` | `PaymentsAccounted`, `PaidAsQuoted`, `GateHolds`; `ImplementsPaidRequest` | rail: 2 calls, 3 payments (2, 1, one without payer), cap 2, 2 days, a lost reply, 2 failed writes, a reconciliation. Quotes: 2 shapes, 2 provinces, 3 datasets, 2 offers, 2 payments, a change, a tick. Gateway: 2 requests at once, 3 in all, of 23 kinds, every limit 1 |
| `upload_billing` | `BooksBalance` | 2 uploads of 1 or 3 rows, 2 free rows a month, minimum 1 cent, 2 rows an alarm, a tab, an API call, 2 days in 2 months, a failure |
| `upload_ends` | `OutcomesEarned`; `UploadsSettle`, `EventsSettle` | 2 uploads of 3 rows, 1 month, no webhook owed, a failure; and 1 webhook with 2 events, 2 attempts, a KV call that fails |
| `breaker_recovery` | `ClosedIsEarned`; `FollowsService` | 2 calls at a time, for ever, in one isolate; thresholds 2 and 2 in the object, 1 and 1 in the isolate; 1 mishap |
| `table` | `RefreshedWhole`, `ImportedIsWhole`, `PagesAddUp`, `ToldTruly`, `OfferedAsTyped`, `DeltaLands`; `RefreshesByVintage`, `RotationGetsRound` | 2 cities of 3 keys, 5 addresses, 2 releases, batches and chunks of 2, 2 attempts, 2 failures, a refresh by hand; 2 province imports; 2 lookups of 6 kinds, a search of 3 kinds; 4 rows in 2 partitions, 2 plans, 2 faults |
| `credentials` | `AccessEnds`, `ActsForOne`; `AdmittedOnce` | a server key, a browser key or a session, 2 isolates at places of their own, KV changes seen in any order, lifetimes of 1 (key) and 2 (session), a read of KV and 2 of sessions waiting, a fault; 2 people, 2 calls at once, 4 in all, 2 invitations, a death |
| `metering` | `ProjectionInStep`, `CountersAgree` | 3 keys of one Customer, 2 isolates, 2 requests at once; 3 mutations, 1 and 2 requests, or 3 requests; a fault |
| `lookup` | `AnswersTrue`, `AnsweredInPlace`; `RidingSurvives`, `EveryRequestEnds` | 2 datasets, 3 points of which 2 round to one, a riding stored with a simplified polygon, 2 versions, 2 lookups, a synchronisation, 2 rounds of warming, a refused feature; batches of 3 |
| `lookup_postal` | `OwnPoint` (violated) | two addresses of one postal code |
| `geocode` | `AnswersPassGates`, `LocalFirst`; `EveryCascadeEnds` | 2 requests in 3 deployments, 5 queries, Google with Nominatim behind it, 2 attempts, threshold 2 |
| `address_box` | `BoxAgrees`; `IndicatorEnds` | a street of 2 addresses on 2 pages, 5 texts, 2 edits, 4 searches, the field left once |

Most properties are conjunctions of named parts; section 4 says what each part means.
Type invariants are not run: each is part of the inductive invariant that is proved
(section 5), and TLC has checked those invariants on the same instances.

Why the bounds are enough to be interesting. Two of everything that competes (calls,
isolates, requests, cities, invitations) is what it takes to overlap, to overtake and to
be overtaken. Two attempts, rows, pages or batches make a first, a last, and a boundary
between them. One or two faults hit any step of any actor, and most faults leave a state
that a second actor then works from. Limits, caps and thresholds are small enough to be
reached from both sides (`KeyLimit` 1 under `CustomerLimit` 2, `Cap` 2 for payments of 2 and
1, a threshold of 2 that a late report can change). Constants of the code that are larger
(5 attempts, 100 jobs, 10 units, 60 seconds) are parameters and are the subject of the
proofs, which hold for every value.

Fairness is assumed of what the code's scheduling provides, and of nobody's goodwill:

* `queue`: somebody keeps posting `/queue/process` without a priority (nothing inside the
  object wakes it), every lookup settles (its stages have timeouts), the next request
  restarts an evicted object. Nothing is owed by operators or submissions.
* `upload_ends`: a set alarm fires and its awaits end, deadlines pass, Stripe expires an
  unpaid session; the cron comes. Nothing is owed by customers, tabs or webhooks.
* `breaker_recovery`: traffic goes on, every await ends, time passes, and not every first
  run of an operation misses (strong fairness of a success and of a failure: an address
  the service does not know is neither).
* `table`: the daily run is started and its steps end; failures are finitely many.
* `lookup`: the cache, the geocoder and the timers answer; D1 and R2 need not.
* `geocode`: a request begins, an entry passed over is passed over, a stage's timer fires.
* `address_box`: timers fire, and a request that is out is answered or fails.

Deadlock is checked where the system never stops (`queue`, `breaker_recovery`); the
other runs are bounded histories that end.

The finding, `lookup_postal`: the key of a cached answer is the postal code alone when
there is one, so of two addresses sent with one postal code the second is given the
point and the riding of the first (`cache.ts:71`, against
`docs/postal-vs-point-lookup.md:38`).

## 4. The modules

### 4.1 Batch job queue: `JobPool`, `JobQueue`

`JobQueue` models the class `QueuePolicy` as the Durable Object `QueueManager` hosts it.

| Model | Code |
|---|---|
| `jobs`, `batches` | the two maps; an id not in the map has status `unsubmitted` |
| `retryQueue`, `deadLetterQueue` | the arrays of the same name |
| `backlog` | `priorityQueues`, the lists laid end to end, highest priority first |
| `processingQueue` | the length of the array (only `.length` is ever read) |
| `held[c]` | `jobsToProcess` of the `processJobs` call `c`, from the job being run on |
| `disk`, `up` | the value under `queueState`; whether the object is in memory and loaded |
| `Posted`: `SubmitBatch`, `ProcessJobs` | the two posts of the routes: `submitBatch` up to and including `save`; `processJobs` up to the first `await this.runJob` |
| `RunSucceeds`, `RunFailsRetry`, `RunFailsDead` | one settling of `runJob`, the aggregation, and on to the next `await` or to `save` |
| `RetryFailed`, `RetryDeadLetter` | the two operator retries, for one id |
| `BackoffElapses` | the clock passes a job's `nextRetryAt` |
| `Crash`, `Restart`, `RestartEmpty` | eviction; construction with a load that succeeds, or fails three times |

A storage operation of a Durable Object closes its input gate, so nothing interleaves
between a handler's last assignment and its `save`; `Save` is part of the handler's
action, with the swallowed failure as its second disjunct. The only interleaving point
is `await this.runJob(job)`.

`JobPool` is the contract: each job has a fate (none, queued, claimed, done, dead, lost)
and so has its last checkpoint. A job claimed at a checkpoint is lost to a recovery from
it, nothing else loses one, only a dead job is revived.

Properties: no job in two places (`OnePlace`) nor in one its status contradicts
(`PlaceMatchesStatus`); `CompletedCountExact`; `VerdictsEarned` (`BatchVerdict`,
`DeadOnlyExhausted`); `PicksBestFirst`; `CompletedIsFinal`; the refinement; `JobsSettle`.

Left out: results, error texts, tags, `errorCount`, timestamps and `updateStats`; the
grouping of requests decides only in which order the jobs of a batch are numbered, and
the model numbers them in that order. The read routes change nothing.

### 4.2 The account-free payment rail: `PaidRequest`, `X402Accept`

`X402Accept` models `POST /api/quote/accept` from its first call to the facilitator on,
with what it shares with other calls: the spend counter, the receipt store, the
reconciliation.

| Model | Code |
|---|---|
| `stage`, `answer` | where `handleAcceptRequest` is, and what it answered |
| `reservedOn`, `at`, `persisted` | `reservation.handle.day`; the receipt's key; the local of that name |
| `spend` | `spend:<day>` in the usage object of each payer |
| `receipts`, `filed`, `logged` | the namespace, the order of its keys, the `RECEIPT NOT PERSISTED` lines |
| `unread`, `read` | the keys and receipts a reconciliation holds |
| `chain`, `takenBy` | external: what has become of a payload's transfer, and the call that caused it |
| `Verify`; `Reserve`, `Release` | `/verify`; `reservePayerSpend`, `releasePayerSpend` and the object's transactions, whose reply may be lost before or after it is applied |
| `Settle`; `Record`, `Deliver`, `Correct` | `settleWithRetry` and how its outcome is read; receipt, delivery, corrected receipt |
| `ReconcileLists`, `ReconcileReads`, `ReconcileChecks` | `listReceipts` and the loop of `reconcileReceipts` |
| `Abandon`, `Midnight`, `ChainMoves` | the invocation ends; the UTC day changes; the chain |

A millisecond is named by the first call that records in it, so a receipt key is a call;
`SameMillisecond` says whether a later call of the same offer may share it. The
facilitator (`Facilitates`) is constrained only by what the code relies on: it takes a
payload at most once, a success means a transfer that was sent, a failure that this
call's was not and will not be. It may confirm a payload twice; any reply may be lost.

`PaidRequest` is the promise: a payment is taken at most once, within what its payer may
spend in the bucket of the request that takes it; only an untaken payment is refused;
only a taken one makes a request owed, and only an owed one is served.

`PaymentsAccounted` is `AllowanceKept` (the counter covers what is reserved and no more,
what moves is within the cap) and `ReceiptsAreTrue` (what a receipt says of delivery and
payment is so, an answered write stands, a served payer is on record). Left out: the
checks before payment, which `Quotes` has; receipts expire after 90 days, beyond any run.

### 4.3 Offers: `Quotes`

Nothing is stored between the steps: an offer and a cursor are signed tokens that may be
presented at any time, again and again.

| Model | Code |
|---|---|
| `file`, `covered`, `registry`, `clock` | the boundary file of a riding in R2; the provinces with addresses; `PROVINCIAL_DATASETS` of the build; the time |
| `offers`, `cursors` | the tokens that were signed |
| `accepting` | an accept between settlement and delivery |
| `QuotesRiding`, `QuotesShape`, `QuotesPoint` | `POST /api/quote` for an area of a riding, an area the caller drew, a lookup |
| `Pays`, `DeliversFirst`, `DeliversNext` | the checks of `handleAcceptRequest` up to settlement; the delivery; `/api/area/next` |
| `Republishes`, `Deploys`, `Registers`, `TimePasses` | a file, the coverage, the registry of the next build, the clock |

`PaidAsQuoted` is `DeliveredAsQuoted` and `RefusedIfChanged`: what is delivered was paid
for at its published price, is of the place that was quoted unless its file changed, and
stays within the maximum across pages presented in any order; whom the checks of the
delivery refuse after the charge, they refuse for something that changed since the quote.
A delivery may also break down (`Undelivered(offer, "failed")`: an address that cannot be
geocoded, a stage that runs out of time, R2, the register or its binding): that is charged
and answered 502 although nothing changed, and is excepted by name.

### 4.4 Uploads: `UploadJobs`

What the uploads of one customer share: the class `UploadJobs` in the customer's usage
object, the portal's start action in its tabs, Stripe's sessions and webhook, and the API
calls on the same monthly counter.

| Model | Code |
|---|---|
| `jobs`, `active`, `credits`, `attempts` | the keys `upload:job:<id>`, `upload:active`, `upload:credits`, `upload:day:<day>` |
| `count` | `month:<month>`, which the API's `/consume` counts too |
| `alarm`, `handler` | the object's alarm, and where `alarm()` awaits |
| `late`, `old`, `pruned` | `expiresAt` passed; created more than the retention ago; deleted for it |
| `tab`; `session` | the last `await` the start action came back from; external: the Checkout session |
| `Create`; `TabReads`, `TabOpensSession`, `TabStarts` | the transaction of `create`, with an eligibility that may be out of date; the portal's action |
| `Paid`, `Cancel`; `Consume` | `/uploads/paid`, `/uploads/cancel`; the API's counter |
| `AlarmFires`, `StripeAnswers`, `RowLookedUp` | `alarm()` up to its first `await` outside the object; what follows those awaits |
| `Lost` | the object lost in an await |
| `DeadlinePasses`, `RetentionPasses`, `NewDay`, `CustomerPays`, `SessionExpires` | the clock and Stripe |

A sheet is the number of its usable rows; ids are used once. Stripe's idempotency key gives
an upload one session, and the webhook carries the session stored with the job, so the
comparisons of `activate` hold and are not modelled. A credit is half a cent.

`BooksBalance` is `CreditsConserved` and `PaidWorkOnly`; `UploadsSettle` is
`EveryUploadEnds` and `PaidIsProcessed`. Left out: parsing, downloads, the rows' contents.

### 4.5 Webhooks: `Webhooks`

Events, their index and the cron that delivers and cleans up, over a KV whose failed reads
look like missing values and whose failed writes look done. `CreateWebhookEvent`,
`ReadsIndex` and `WritesIndex` are one creation; the cron collects the pending events
(`Collects`), takes, sends and stores them one by one (`Takes`, `Sends`, `Records`), and
removes what is too old (`CleansUp`, `RewritesIndex`).
`OutcomesEarned`: what an event is said to have come to is what happened. `EventsSettle`:
an event that stays in the index ends. `createWebhookEvent` has no caller in production,
and is taken as callable at any time.

### 4.6 The circuit breaker: `CircuitBreaker`

| Model | Code |
|---|---|
| `circuit[h]`, `stored` | the entry of `states` in the object or an isolate, and in storage; `waited` is whether `recoveryTimeout` has passed since `lastFailureTime` |
| `earned`, `renewed`, `unsaved` | no fields of the code: the successes reported to a host since its circuit was last open, which no save, load or reset brings back; the hosts whose circuit has since then been set by something else; whether a save or load of the object failed last |
| `service` | whether all, some or none of the operations fail in a way that counts. Only `geocoding:oda` filters its misses (`geocoding.ts:432`); for every other key (`geocoder-providers.ts:470`, R2) a service that works and has no answer is `"patchy"` |
| `stage[c]` | where `execute` awaits: `running` with the object's permission, `local` without, `succeeded` and `broke` before a report, `unanswered` and `rethrown` before the local path |
| `Check`; `OperationEnds`; `Reports`; `FallsBack` | `/check` with its save; the operation; `reportSuccess`, `reportFailure`; the catch block and the local check |
| `Loads`, `LoadFails`, `Evicted`, `Reset` | `loadState`, evictions, an operator |

`ClosedIsEarned`: a circuit is closed only on successes earned since it was open, or because
it was renewed: by an operator, by an eviction, or by loading an older state after a save or
load that failed. `FollowsService`: it recovers and it opens (`Recovers`, `Opens`); while the
service is patchy neither is promised. That the constructor's
load ends before the first request is taken from the input gate; `/config` has no caller.

### 4.7 Riding lookup, caches and the spatial database: `RidingLookup`

| Model | Code |
|---|---|
| `published`, `memory`, `loading` | the versions of each file in R2; what the isolate remembers of it; the loads under way |
| `rows`, `rtree`, `tables`, `sync`, `synced` | the two tables of the spatial database, whether they exist, and the synchronisation of each dataset, statement by statement |
| `kept` | `LOOKUP_CACHE` |
| `work`, `answer` | where each lookup is in `performExpandedLookup`, and what it answered |
| `job`, `warm` | the cron's warming of the cache, and where each popular place is |

`AnswersTrue`: a riding that is answered is one that some published version has there, and
"no riding" is never said because a table was empty or a load failed. "There" has two
reservations, both of the code. The key of an answer rounds coordinates to five decimals
(`cache.ts:49`) and a hit keeps the query's own point (`lookup-expansion.ts:320`), so an answer
to coordinates, or a province, may be that of a point that rounds to the same (`Rounded`,
`NearlyTrue`); an answer to an address or a postal code, and every entry that is kept, is of its
very point. And a riding over 1.5 MB is stored in the database with three decimals and fewer
vertices (`spatial.ts:313`), so it may be told of a point that only the stored copy holds
(`Stored`, `TrueOf`). A key over 512 bytes is digested to 32 bits (`cache.ts:96`): which texts
share a key is the constant `Brief`, on which nothing is assumed, so a collision gives one
address the point and riding of another, true of that point. `RidingSurvives`: a riding in hand
is not lost to the lookup of its province. `OwnPoint`, which the documents state, is the finding
of `lookup_postal`. A polygon is the set of points it holds; that polygons do not overlap is
assumed nowhere.

### 4.8 Batches: `BatchLookup`

One `POST /batch`: the items with coordinates are looked up in order, the others geocoded
together and then looked up, then billed one after the other, and redacted from the first
refusal on. `AnsweredInPlace`: every item is answered in its own place and from its own
query, and what is given out is exactly what was counted.

### 4.9 Geocoding: `Geocode`

`at[r]` is the entry request `r` has come to, `flight[r][s]` the operation of entry `s`
(which outlives its stage), `caller[r]` what the caller heard; `cache` and `circuit` are
shared. `Hits` and `Misses` read the cache of an entry, `OdaRuns`, `GeogratisRuns`,
`ExternalRuns` and `ReverseRuns` end its operation, `StageTimesOut` and `TotalTimesOut` are
the two deadlines. `AnswersPassGates`: no answer below
an entry's gate reaches a caller, through the cache or late. `LocalFirst`
(`LeavesForAReason`, `OdaTripsOnFailure`): a request leaves the local database only for a
miss or a refusal of its circuit, which opens for its failures only.

### 4.10 The address tables: `CityRefresh`, `NarImport`, `OdaImport`

`NarImport` is the refresh of one city at a time: pick what is due (`Unfinished`), delete in chunks
(`DeleteChunk`, `DeleteCentroids`, `DeleteRanges`), insert in batches (`InsertBatch`),
rebuild what is derived (`WriteAggregates`, `RecomputePostals`, `RebuildSuggest`), and
record (`RecordImport`, `RecordKeys`); each is a request to D1 that may fail, be repeated,
or lose its answer (`Request`), and the process may die before any of them. `OdaImport`
is the import of a whole province into the same tables, plain, resumed or of the derived
tables only, and the build of the autocomplete's index.

`CityRefresh` is what a reader may rely on: a city's rows are withdrawn before the next
vintage's are served, and it is declared done only when served whole.

`RefreshedWhole` (`NeverDoubled`, `DoneIsWhole`), `RefreshesByVintage` (the refinement) and
`RotationGetsRound` (every city is refreshed) are about the refresh; `OdaImport` states the
first two so that an import of the province suspends what it breaks.
`ImportedIsWhole`: an import that reaches its end has each row once. Left out: `--dry-run`,
`--max-rows`, downloads, CSV parsing.

### 4.11 Readers of the tables: `AddressPaging`, `AddressMatch`, `AddressSuggest`

They extend `NarImport`, so the tables change between their queries. `AddressPaging`: the
pages of an area and of the units or civics of a building or street; the state is what the
signed cursors carry, and every list is of positions in the order that `Precedes` gives
them. `PagesAddUp` (`WithinAllowance`, `StableListedOnce`): no chain of
pages delivers more than was paid for, and rows that stay are listed once.
`AddressMatch`: a lookup tier by tier, from the exact row over street, postal street,
postal code and city centroid to the nearest address, and the vintage stated for it.
`ToldTruly` (`NamedCityAnswers`, `NeverOverstated`). `AddressSuggest`: a search of the
autocomplete, with its cache: `OfferedAsTyped`.

### 4.12 Partition changes: `NarDelta`

Planning the change of some partitions, and rehearsing the plan batch by batch under a
lock, with a checkpoint file and receipts in the journal (`Starts`, `AsksReceipt`,
`Reconciles`, `AppliesBatch`, `Completes`, `Crashes`, `Unlocks`). `DeltaLands` is `PlanLands` (a completed plan
has made the tables what the release says, aggregates included) and `RunAccounted` (no
batch takes effect twice, every request was reserved within the ceilings). Nothing
executes a plan in production; an operator rehearsing a plan that nothing blocks, one batch
per change and per aggregate, is an assumption of the model.

### 4.13 Keys and tokens: `Credentials`

`kv` and `mirror` are the entries in KV and the rows in the portal, `seen` what each
isolate's place shows of KV, which follows `kv` some time later and in any order
(`Propagates`), `cache` and `verdicts` what each isolate remembers, `tasks`, `reads` and
`checks` the awaits. One `Tick` is the unit of every lifetime. `AccessEnds`: a revoked key
is accepted nowhere later than its lifetime in the cache after its deletion reached the
place (how long that takes is KV's, and no line of the code bounds it), and nothing is left
of it (`RevocationHolds`) unless a call about it failed (`blurred`) or a revocation missed
its record (`missed`: the place does not show the record yet, or an isolate remembers a
miss; the hash then stays, and the secret with it). A session that ended is honoured for
less than lifetime plus grace (`SessionEndHonoured`).

### 4.14 Signup and invitations: `Membership`

A call (`signup`, `visit`, `invite`) goes through its statements one `await` at a time, in
the order of the code; any may be its last (`Dies`). `ActsForOne` (`OneCustomerEach`,
`EveryVisitServed`): nobody acts for two Customers, and a visit is refused only for a
workspace of which a call of the same person had written the owner's row and not yet the
Customer's (`halfway`): it died there, and the person is refused for good, or is there now. `AdmittedOnce`: a member row of an invitation is of the
invitation's own address and workspace, and of one acceptance.

### 4.15 Customers, usage and limits: `Projection`, `Metering`

`Projection`: the billing row, its projection in KV, and the copies in the isolates.
`ProjectionInStep`: after a mutation that ran alone KV holds what the row does.
`Metering` extends it with the way of a request through the windows, the daily quota and
the ledger. `CountersAgree` (`FuseHolds`, `LedgerAccounts`, `WindowsAgree`).
`activateMeteredPlan` has no caller and is left out.

### 4.16 The HTTP surface: `Gateway`

The route table in its order, the two halves of rate limiting around what a route asks for,
and the MCP surface. `GateHolds` is `LimitsHold` (per Customer, key, user and address,
whichever surface) and that no request went wrong (`wrongs`: refused although neither its own
share nor its Customer's is used up, let in past its dialect or scope, billed without a
Customer or not billed with one). The flood guard is the exception, and is stated as one
(`Crowded`): before a credential is looked at, a request is turned away when too many from
its address were looked at already, whoever sent them.

### 4.17 The address box: `Widget`

The state of `embed.ts`: the field, the list, the panel, the debounce, the indicator and the
timer of `blur`, the numbered searches and lookups in flight. `BoxAgrees` (`ListIsOneAnswer`,
`FormAgrees`): the list is the pages of one answer unless it has gone astray (`Strays`), and
once everything has come back the riding shown is that of the address in the field unless its
lookup failed or met another one (`raced`): the embed does not number those, and in these
cases the list may mix two answers and the riding be another address's. `IndicatorEnds`: the indicator is cleared.

## 5. What is proved, and how

Every theorem holds for every value of the constants its module's named assumption admits
(`QueueConstants`, `RailConstants`, ...; sets of calls, people, keys, points and so on are
any, numbers any of the stated range). TLC evaluates those assumptions on every run.

| Theorem | States | Module |
|---|---|---|
| `Consistency` | the inductive invariant of the queue | `JobQueueProofs` |
| `TypeCorrect` | `TypeOK` | `JobQueueProofs` |
| `EveryJobInOnePlace` | `OnePlace` | `JobQueueProofs` |
| `PlaceAgreesWithStatus` | `PlaceMatchesStatus` | `JobQueueProofs` |
| `CompletedStaysCompleted` | `CompletedIsFinal` | `JobQueueProofs` |
| `CompletedCountIsExact` | `CompletedCountExact` | `JobQueueProofs` |
| `VerdictsAreEarned` | `VerdictsEarned` | `JobQueueProofs` |
| `CallsPickTheBest` | `PicksBestFirst` | `JobQueueProofs` |
| `QueueImplementsJobPool` | `ImplementsJobPool` | `JobQueueProofs` |
| `TypeCorrect`, `ClosingIsEarned` | `TypeOK`, `ClosedIsEarned` | `RemoteProofs` |
| `BooksAreBalanced` | `BooksBalance` | `CustomerProofs` |
| `OutcomesAreEarned` | `OutcomesEarned` | `CustomerProofs` |
| `RecordsAreInStep` | `ProjectionInStep` | `CustomerProofs` |
| `CountersAddUp` | `CountersAgree` | `CustomerProofs` |
| `AllowanceAndEvidence` | `AllowanceKept`, with same-millisecond receipts too | `PaymentProofs` |
| `PaymentsAreAccounted` | `PaymentsAccounted` | `PaymentProofs` |
| `RailKeepsPromise` | `ImplementsPaidRequest` | `PaymentProofs` |
| `WhatIsPaidIsAsQuoted` | `PaidAsQuoted` | `PaymentProofs` |
| `TheGateHolds` | `GateHolds` | `PaymentProofs` |
| `AccessIsTakenAway` | `AccessEnds` | `AccessProofs` |
| `VisitsActForOne` | `ActsForOne` | `AccessProofs` |
| `MembersAreAdmittedOnce` | `AdmittedOnce` | `AccessProofs` |
| `AnswersAreTrue` | `AnswersTrue` | `LookupProofs` |
| `RidingIsNeverLost` | `RidingSurvives` | `LookupProofs` |
| `BatchesAreAnsweredInPlace` | `AnsweredInPlace` | `LookupProofs` |
| `AnswersPassTheirGates` | `AnswersPassGates` | `LookupProofs` |
| `LocalDatabaseFirst` | `LocalFirst` | `LookupProofs` |
| `TheBoxAgrees` | `BoxAgrees` | `RemoteProofs` |
| `ChangesLand` | `DeltaLands` | `RemoteProofs` |
| `CitiesAreServedWhole` | `RefreshedWhole`, with imports of the province | `AddressProofs` |
| `ImportsAreWhole` | `ImportedIsWhole` | `AddressProofs` |
| `RefreshKeepsPromise` | `RefreshesByVintage`, with imports of the province | `AddressProofs` |
| `RefreshImplements` | `ImplementsCityRefresh`, the refresh alone implements `CityRefresh` | `AddressProofs` |
| `SearchesAreAsTyped` | `OfferedAsTyped` | `AddressProofs` |
| `AnswersAreTold` | `ToldTruly` | `AddressProofs` |
| `ChainsAddUp` | `PagesAddUp` | `AddressProofs` |

The inductive invariants, and what the properties alone lack:

* **Queue** (`IInv`, `CountInv`, `VerdictInv`). That a failed job may be appended to the retry
  queue needs that it is in no other list, that an operator may revive a dead job needs that
  a dead job is in no queue, that a batch may be submitted needs that none of its jobs
  exists, and a restart needs all of it for the stored snapshot: `Consistent` states these
  claims about lists and a jobs map given as parameters, and `IInv` has it for the memory and
  `DiskQueues` for the snapshot. `CountInv` and `VerdictInv` add the counters and verdicts of
  both. `SortedInv` says that the backlog, and the stored one, are in the order of priority
  (`Sorted`), so that `Ahead(p)` counts the jobs a new one is put behind. The refinement of
  `JobPool` rests on `IInv` and `DownIsEmpty`, with one lemma per
  action for the step it maps to.
* **Circuit breaker** (`IInv` = `CircuitTypes`, `Kept`, `Evidence`, `CallTypes`). What was really
  reported is kept apart from the entries. An entry that is half-open counts exactly what its
  host earned since it was open, or was renewed, and fewer than closing takes; an open one has
  earned none (`Backed`); and what is stored is what the object has until a save or a load
  fails (`Kept`), so that only after that a load may close a circuit nobody earned.
* **Payments** (`RailInv` = `Types`, `Allowance`, `Takers`, `Evidence`). The counter of a day
  is the sum of what is reserved in it, and of what a lost reply left behind, within the cap;
  `Takers` says who may have taken a payment, `Evidence` what each stage of a request, and
  each receipt, knows of its payment. `PaymentsAreAccounted` adds that a receipt key is one
  acceptance's own (`OwnKeys`), and so assumes that no two acceptances of one offer fall in
  one millisecond (`~SameMillisecond`): the code has no other protection, and without it the
  property is false. `AllowanceAndEvidence` does not need the assumption.
* **Offers** (`QuoteInv`). Each token and each accept in progress was signed of an offer that
  stands, each page delivered so far has its payment, and what is left is bounded along the
  chain of cursors.
* **Gateway** (`GatewayInv` = `Known`, `Counted`). What is known of a request under way follows
  from its step (`Known`); every share of what was let through is counted in one window, and
  every window's count is of one share (`Counted`), so that no sharing of windows between
  shards or surfaces lets more through than the limits add up to. It assumes that what
  identifies an address, a key and a Customer is told apart (`CredentialsApart`), as the
  prefixes of the rate-limit keys do.
* **Uploads** (`UploadInv`). Credits granted, spent, reserved and returned are a sum over the
  uploads (`Totals`); each upload's status says which parts it has, and the alarm's place
  which upload is its own.
* **Webhooks** (`HookInv`). What the cron is about to store agrees with what was sent; an event
  read before a failed write has counted fewer attempts than were made, never more.
* **Customers** (`ProjectionInv`). A mutation that overlaps no other knows the row as it
  stands at each of its steps, and of two that are under way neither is alone.
* **Usage** (`MeteringInv`). The window of a Customer is the sum of what their keys took
  (`Summed`), a refused request has nothing left to do (`OnTheirWay`), and what was allowed
  against a fuse found the ledger below it (`Ledgers`).
* **Keys** (`KeyInv` = `KeyTypes`, `Minting`, `Timed`, `Tracked`). `Timed` relates the age of
  each cached entry and of each read to how long the key has been gone for that isolate's
  place, whatever the order in which KV shows its changes; `Tracked` says, of a key of which
  no call failed and no revocation missed, which action still has to remove what is left.
  **Sessions** (`SessionInv` = `SessionTypes`, `OldEnough`).
* **Members** (`MemberInv`). What a call about to take its step may rely on (`CallOK`), that
  the step between a member row and its billing row is of one call or is recorded in
  `halfway` (`Alone`), and that a person's first row is the one all of them read (`Rows`,
  `Billed`, `ActedFirst`).
* **Lookups** (`LookupInv`). Every file, index, table row, cached answer and answer in progress
  is of a published version, at its point or one its key does not tell from it: `Filed`, `Tabled`, `Worked`, `KeptTrue`, `Warmed`, `Waiting`. The
  work is in `Tabled`: which rows a synchronisation leaves after each of its statements.
* **Geocoding** (`CascadeInv`). What is cached passed its entry's gate (`Gated`), who left the
  local database had a reason (`Left`), a circuit that is open has its failures (`Tripped`).
  The configured providers are taken to be Google, Mapbox and Nominatim, as `README.md:368`
  documents; `GEOCODER=geogratis` would ask GeoGratis once more without its gate.
* **Batches** (`BatchInv`). A batch under way is of its items (`BatchOf`, `Lists`), done as far
  as it has come (`DoneSoFar`), and billed in order (`Billed`).
* **Address box** (`BoxInv`). Searches are numbered and the list is that of the last one
  answered (`ListInv`), the lookups that may still arrive explain the riding shown (`Formed`).
* **Partition changes** (`DeltaInv`). A plan is that of the table it was made from (`Planned`),
  what has landed is a beginning of it (`Landed`, `InTurn`), and requests were reserved before
  they were sent (`Reserved`). `Guids` and `Aggregates` are assumed finite.
* **Address tables** (`RefreshInv`, `ImportInv` = `RefreshInv`, `LoadInv`, `NeverDoubled`,
  `ImportedIsWhole`). While a city has chunks left to delete they are enough for the rows that
  are left, so a city that is inserted has none of the old ones; what a run has inserted is a
  beginning of what it inserts, each row once; an upload that is resumed goes on after the
  last id it stored; and what the ledger calls done, and nothing has begun again, is whole.
  The assumptions are about the files (`ListedOnce`, `OdaIsTable`, `OdaIsImported`: a row is
  listed once, a row number is its place) and about the bounds (`Bounds`, `CsvConstants`).
* **Autocomplete** (`SuggestInv`). The streets yet to be looked into are none of those offered
  (`ToCome`), what is offered of a street is as the rows that were there all along (`always`)
  and ever (`ever`) allow (`AllAsTyped`), and between the two queries of a civic the count of
  its units lies between those always and those ever there (`AtUnit`). `always` only shrinks
  and `ever` only grows, so what is offered stays allowed; a cached answer keeps both.
* **Local lookups** (`MatchInv`, with `VintageInv`). No row is of an earlier vintage than is
  stated of its city: a city's vintage is stated only when its last old row is gone
  (`VintageInv`, which rests on `RefreshInv`). What is stated only rises, so what an isolate
  remembers (`Remembered`) and what was told are no later. A lookup for an address that has
  been there throughout leaves the exact tier with the right row (`Asking`). A query is taken
  to list a city name once.
* **Pages** (`PagingInv`). What a chain has delivered goes upwards in the order of the pages
  (`Rising`) and no further than its cursor (`UpToSpot`), and all that has been there since
  its first page is in it or comes after the cursor (`NoneMissed`). Each page continues it
  (`JoinLists`), so nothing comes twice and, where no row is left, nothing is missing; that a
  page cut by its size or by the scan budget leaves out no row it consumed is in `FetchKeeps`.
  What a chain has delivered and what remains add up to what was paid for (`Chained`). Lists
  are stated by rank (`InOrder`: the i-th is the one that i - 1 precede). Ids and ranks of
  civics count from 1 (`OdaIsTable`, `CivicsAreRanked`).

Each proof has a lemma per action, and in it a step per conjunct the action can disturb.
Many state what an action keeps as a predicate of a value (an entry, a call, a row), so that
all the other entries keep it because they are unchanged. `DataFacts` has the lemmas about
cutting, inserting in and appending to sequences without repetition, and about sums.

TLC checked the inductive invariants on the instances of section 3 before they were proved.

Only model-checked:

* Liveness (`JobsSettle`, `UploadsSettle`, `EventsSettle`, `FollowsService`, `RotationGetsRound`,
  `EveryRequestEnds`, `EveryCascadeEnds`, `IndicatorEnds`): fairness and ENABLED are out of
  the prover's reach.
* What a listing of units skips: `UnitPage` sorts with an operator given as an argument, which
  the provers cannot instantiate, and `StableListedOnce` excepts that listing.

Every safety property and every refinement that the runs check is a theorem.

## 6. Seen while modelling

The finding with a run of its own is `lookup_postal` (section 3). What follows is what the
code does, as the models have it; most are excepted by name in a property or are behaviours
a reader would not expect. None needs the model to be seen.

* **Queue.** The computed backoff is never consulted. A snapshot saved while a call is in
  flight strands its jobs after a crash. `failedJobs` counts attempts, so a batch whose jobs
  all complete may stay `partially_completed`. A load that fails three times leaves an empty
  state, which the next save stores over the jobs.
* **Payments.** A settlement whose reply is lost, or pends twice, leaves neither receipt nor
  log line. A reconciliation writes back a stale receipt, so a served payment becomes an
  obligation again. When every write and the delivery fail the receipt is not logged. Two
  acceptances of one offer in one millisecond share a receipt key. A payload confirmed twice
  is served twice. A listing beyond its limit returns the oldest receipts.
* **Offers.** `maximum_results=0.5` makes an offer of no records, at no price, whose first
  page delivers one (against `offers.ts:529`). Vintage is said to be immutable, but the
  delivery reads the current file. Coverage and riding are checked again after settlement.
  A quote tries neither the lookup nor the register: an address that cannot be geocoded, or
  an area where `ODA_DB` is not bound (`offers.ts:512`), is charged and then refused with 502.
  A quote for the combined dataset is delivered from the federal file, and so is one of a
  dataset no longer registered.
* **Circuit breaker.** The error of an operation passes the catch block meant for the object's
  calls, and the operation runs twice. An object's thresholds are fixed, so geocoding's own
  hold on the local path only. Half-open admits any number of calls. An open circuit whose save
  failed is closed again by the next health check that reads the state, which loads the older
  one (`circuit-breaker-do.ts:144`). A miss counts as a failure except for `geocoding:oda`, so an
  external geocoder that works may keep its circuit open.
* **Geocoding.** The external breaker counts misses, against `geocoding.ts:705`. An answer of
  Nominatim under Google's key is never served from the cache. `GEOCODER=geogratis` asks
  GeoGratis without its gate. A batch of postal codes alone uses the local database only, a
  mixed one does not, against "Every item is independent".
  `geocodeBatchPostalCentroidsWithOda` groups without the city, and has no caller.
* **Lookups.** Coordinates that agree to five decimals share a cached riding, also across a
  boundary (`cache.ts:49`). A riding too large for a row of D1 is looked up with a coarser polygon,
  and near its boundary the database and the file may name different ridings (`spatial.ts:313`);
  the database is asked first. Ids of the spatial tree collide between datasets. A failed
  `initializeSpatialDatabase` is noticed at the next statement only. A synchronisation copies
  the isolate's remembered file. `X-Cache-Status` says HIT when the province failed.
  `POST /api/cache/warm` loads the federal file, whatever it is sent.
* **Batches.** Redaction takes the riding and leaves `point` and `normalizedAddress`
  (`batch.ts:196` against `:271`).
* **Address import.** A spelling the register drops never gets finished. A file cut short by a
  death while unpacking is taken for whole. `import-oda --resume` skips rows by their number,
  and after a refresh doubles some and leaves out others (against `docs/oda-data-import.md:36`,
  `:186`, `:200`). A plain import leaves the ledger of the refreshes, so its cities are never
  refreshed again and their vintage is overstated. `--centroids-only` brings back the data
  set's counts. A resumed run with nothing to insert leaves no row in `oda_imports`.
* **Readers.** Units are sorted as numbers and resumed as text, and some are skipped; an address
  imported again between pages is delivered twice. The exact query is cut without an order.
  The postal and nearest tiers ignore the unit; a street range is said to be in the city as
  it was named; the street tier takes an alias city without asking whether it is the only
  one. A city's centroid (.45 under .6) is never returned, but a name that several cities
  begin with ends the lookup before the nearest address is tried; a low confidence throws
  instead of falling through. A typed unit is exchanged for the only other one at its civic
  (against `oda-suggest.ts:494`); `limit` is ignored; `findStaleSuggestProvinces` compares one
  table only.
* **Keys and customers.** A revoked key survives a KV call that failed. It survives as well
  when the record is not found where it is revoked, because KV does not show it there yet or
  the isolate remembers a miss: `deleteApiKey` learns the hash from the record
  (`api-keys.ts:197`), and `keyhash:` is left. The 60 seconds of `POSITIVE_TTL_MS` count from
  when a deletion is visible at the place, not from the click. Overlapping mutations of one
  Customer leave KV different from the row.
* **Membership.** A death between a member row and its billing row leaves the user with
  "No Customer" for good (against `customer.server.ts:78`). An accepted invitation whose
  member row failed cannot be recovered through the portal, and users with accounts can never
  redeem one. First visits that overlap create two workspaces. Concurrent invitations of one
  address meet the partial index, and the second fails.
* **HTTP surface.** The flood guard counts by address also the requests that present a credential
  (`routes.ts:530`): ten times the limit of an address, filled by neighbours, refuses a caller who
  sent little. `GateHolds` says so by name, and promises fairness for the other windows only.
  `authorizeSearchRequest` has a branch for server keys that no route reaches.
  A method that an entry does not declare falls to the catch-all of `/api/*`, is counted and
  authorised as a lookup, and is not found. The `batch` bucket is never limited. The search of
  the demo key checks the shared counter of the flood guard against a lower limit.
* **Webhooks.** A failed read of the index looks empty, and the next write loses the others. A
  confirmed event is sent again when its record failed. A deleted webhook's events stay
  pending until the clean-up. `MAX_WEBHOOKS` is checked before it is acted upon.
* **Address box.** Emptied or short input neither aborts nor outdates a search in flight
  (`embed.ts:545`). Choosing an address clears neither the debounce nor a search in flight. The
  lookups of a riding are not ordered, and a failed one leaves the old riding. "More addresses"
  after an edit sends the old cursor. Arrow and Enter pick an invisible row while the panel
  says "Searching…". `destroy` leaves the listener of `blur`.

## 7. What is left out, and what is planned

Not modelled: text normalisation (`oda-normalize.ts`, `oda-address-format.ts`) and geometry,
which are computations over real data with no state; discovery documents, rendering and
the documentation pages (`docs.ts`); the comparison and reporting scripts; the third-party
authentication packages, but for the rows they write, which `Membership` has from how the
portal uses them. Each module's header names what it leaves out of its own component. The time KV takes
to show a change is modelled where a key or a session is judged (`Credentials`) and for the cache
of answers, whose reads may always miss (`RidingLookup`); the receipts, the events of webhooks
and the projection of a Customer are read as they were last written.

Planned next: how an address text becomes a query (`oda-normalize.ts`), as functions checked
against a reference definition over bounded texts.
