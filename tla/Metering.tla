------------------------------ MODULE Metering ------------------------------
(* A Customer's requests from the moment their key is known to what is      *)
(* served and billed (routes.ts, rate-limit.ts, daily-quota.ts, billing.ts, *)
(* usage-ledger.ts, batch.ts, oda-handlers.ts, lookup-handler.ts), while    *)
(* Projection changes what the isolates take the Customer for.  The counters*)
(* are in Durable Objects (api-key-usage-do.ts), which serve one call after *)
(* another; a call may not reach them, or its answer may be lost.           *)
(*                                                                          *)
(* One month and one day.  Not here: operators, who are neither limited nor *)
(* billed, requests without a key, the guard that counts by address before  *)
(* a credential is looked at, the sweeps of old counters, and the events    *)
(* that go to Stripe's meter when a unit was allowed.                       *)
EXTENDS Projection, Sequences, FiniteSetsExt, Totals

CONSTANTS
  Calls,                \* requests in progress at once
  ServerKeys, BrowserKeys,
  KeyLimit,             \* RATE_LIMIT
  CustomerLimit,        \* CUSTOMER_RATE_LIMIT
  DailyLimit,           \* of a browser key
  BatchSize             \* items of a batch

Keys == ServerKeys \cup BrowserKeys
Routes == {"lookup", "search", "batch"}

ASSUME MeteringConstants ==
  /\ KeyLimit \in Nat \ {0} /\ CustomerLimit \in Nat \ {0}
  /\ DailyLimit \in Nat \ {0} /\ BatchSize \in Nat \ {0}
  /\ IsFiniteSet(Keys) /\ ServerKeys \cap BrowserKeys = {} /\ "customer" \notin Keys

VARIABLES
  call,      \* the request in each place, or None
  window,    \* the rate windows of this minute, in the Durable Object
  local,     \* rateLimitStore of each isolate
  daily,     \* the day's count of each browser key
  ledger,    \* the month's count of the Customer
  hard,      \* auxiliary: units allowed against a fuse
  highest,   \* auxiliary: the highest fuse a unit was allowed against
  soft,      \* auxiliary: units counted and allowed against none
  uncounted, \* auxiliary: units allowed without an answer
  lost,      \* auxiliary: answers of the ledger that were lost
  torn       \* auxiliary: an item was served after one that was refused

counters == <<window, local, daily, ledger>>
tally == <<hard, highest, soft, uncounted, lost, torn>>
meteringVars == <<projectionVars, call, counters, tally>>

Buckets == Keys \cup {"customer"}
LimitOf(bucket) == IF bucket = "customer" THEN CustomerLimit ELSE KeyLimit

(* Only a server key is an identity: all users of the browser keys are taken*)
(* to share an address, and so a bucket.                                    *)
BucketOf(k) == IF k \in ServerKeys THEN k ELSE CHOOSE b \in BrowserKeys : TRUE

AtStep(c, step) == call[c] # None /\ call[c].step = step
GoesTo(c, step) == call' = [call EXCEPT ![c].step = step]
Departs(c) == call' = [call EXCEPT ![c] = None]

(* authorizeRoute: the record that is read here is the one the request is   *)
(* billed by, however it changes.  A batch is for those it is enabled for,  *)
(* and has no rate limit.                                                   *)
Arrives(c, i, k, route) ==
  /\ call[c] = None /\ Spends("requests")
  /\ route # "search" <=> k \in ServerKeys
  /\ \E record \in CustomerRecords \cup {None} :
       /\ Loads(i, record)
       /\ IF record = None \/ (route = "batch" /\ ~record.batch) THEN UNCHANGED call
          ELSE call' = [call EXCEPT ![c] =
                 [at |-> i, key |-> k, route |-> route, customer |-> record,
                  step |-> IF route = "batch" THEN "work" ELSE "window",
                  todo |-> 0, denied |-> FALSE]]
  /\ UNCHANGED <<row, kv, mutation, inStep, counters, tally>>

-----------------------------------------------------------------------------
(* Rate windows: consumeRateWindows *)

Windows(c) == {BucketOf(call[c].key), "customer"}
Room(counts, bucket) == counts[bucket] < LimitOf(bucket)

Counted(counts, buckets) ==
  [b \in Buckets |-> IF b \in buckets THEN counts[b] + 1 ELSE counts[b]]

(* /window: all or nothing *)
Window(buckets, allowed) ==
  /\ allowed = \A b \in buckets : Room(window, b)
  /\ window' = IF allowed THEN Counted(window, buckets) ELSE window

(* checkRateLimit in turn, for the key and then for the Customer: the first *)
(* refusal ends it, and what was counted before stays counted.              *)
FallsBack(c, allowed) ==
  LET i == call[c].at
      key == BucketOf(call[c].key)
  IN /\ allowed = \A b \in Windows(c) : Room(local[i], b)
     /\ local' = [local EXCEPT ![i] =
          IF ~Room(@, key) THEN @
          ELSE IF ~Room(@, "customer") THEN Counted(@, {key})
          ELSE Counted(@, Windows(c))]

(* postAuthRateLimit: without an answer the isolate limits by itself, even  *)
(* when the request was counted.                                            *)
TakesWindow(c) ==
  /\ AtStep(c, "window")
  /\ \E allowed \in BOOLEAN :
       /\ \/ Window(Windows(c), allowed) /\ UNCHANGED <<local, faults>>
          \/ Fault /\ FallsBack(c, allowed)
             /\ (UNCHANGED window \/ \E answer \in BOOLEAN : Window(Windows(c), answer))
       /\ IF ~allowed THEN Departs(c)
          ELSE GoesTo(c, IF call[c].route = "search" THEN "quota" ELSE "work")
  /\ UNCHANGED <<row, kv, cache, mutation, left, inStep, daily, ledger, tally>>

(* The minute is over: in the Durable Object, or for one isolate. *)
NewMinute ==
  /\ \/ window' = [b \in Buckets |-> 0] /\ UNCHANGED local
     \/ \E i \in Isolates : local' = [local EXCEPT ![i] = [b \in Buckets |-> 0]]
                            /\ UNCHANGED window
  /\ UNCHANGED <<projectionVars, call, daily, ledger, tally>>

-----------------------------------------------------------------------------
(* Counters of a day and of a month *)

(* /consume: a limit of 0 is none. *)
Admits(count, limit) == limit = 0 \/ count < limit
Consumed(count, limit) == IF Admits(count, limit) THEN count + 1 ELSE count

(* consumeDailyQuota: fails open *)
TakesQuota(c) ==
  /\ AtStep(c, "quota")
  /\ LET k == call[c].key
         counted == [daily EXCEPT ![k] = Consumed(@, DailyLimit)]
     IN \/ /\ daily' = counted /\ UNCHANGED faults
           /\ IF Admits(daily[k], DailyLimit) THEN GoesTo(c, "work") ELSE Departs(c)
        \/ Fault /\ daily' \in {daily, counted} /\ GoesTo(c, "work")
  /\ UNCHANGED <<row, kv, cache, mutation, left, inStep, window, local, ledger,
                 tally>>

(* The lookup, the search or the batch is done, with so many good items. *)
Works(c) ==
  /\ AtStep(c, "work")
  /\ \E good \in 0 .. (IF call[c].route = "batch" THEN BatchSize ELSE 1) :
       IF good = 0 THEN Departs(c)
       ELSE call' = [call EXCEPT ![c].step = "bill", ![c].todo = good]
  /\ UNCHANGED <<projectionVars, counters, tally>>

(* effectiveFuseLimit, and 0 for a soft fuse *)
EnforcedLimit(customer) ==
  IF customer.soft THEN 0
  ELSE IF customer.fuse > 0 THEN customer.fuse
  ELSE IF customer.plan = "free" THEN FreeAllowance
  ELSE 0

(* failClosed, failOpen *)
WithoutAnswer(limit) == limit = 0

(* MUTANT of AfterDenial: the next item is tried. *)
NextItem(c) == [call EXCEPT ![c].todo = @ - 1, ![c].denied = TRUE]

(* handleBatchRoute: the rest of the batch is redacted unbilled; a single   *)
(* item is the response.                                                    *)
AfterDenial(c) == [call EXCEPT ![c].todo = 0, ![c].denied = TRUE]

Allows(c, limit) ==
  /\ call' = [call EXCEPT ![c].todo = @ - 1]
  /\ torn' = (torn \/ call[c].denied)
  /\ hard' = hard + (IF limit > 0 THEN 1 ELSE 0)
  /\ highest' = Max({highest, limit})

Refuses(c) == call' = AfterDenial(c) /\ UNCHANGED <<torn, hard, highest>>

(* recordSuccessfulBillable, for one good item *)
Bills(c) ==
  /\ AtStep(c, "bill") /\ call[c].todo > 0
  /\ LET limit == EnforcedLimit(call[c].customer)
         open == WithoutAnswer(limit)
     IN \/ /\ ledger' = Consumed(ledger, limit)
           /\ IF Admits(ledger, limit) THEN Allows(c, limit) ELSE Refuses(c)
           /\ soft' = soft + (IF limit = 0 THEN 1 ELSE 0)
           /\ UNCHANGED <<uncounted, lost, faults>>
        \/ /\ Fault /\ UNCHANGED soft
           /\ ledger' \in {ledger, Consumed(ledger, limit)}
           /\ IF open THEN Allows(c, limit) ELSE Refuses(c)
           /\ uncounted' = uncounted + (IF open THEN 1 ELSE 0)
           /\ lost' = lost + (ledger' - ledger)
  /\ UNCHANGED <<row, kv, cache, mutation, left, inStep, window, local, daily>>

Responds(c) ==
  /\ AtStep(c, "bill") /\ call[c].todo = 0
  /\ Departs(c)
  /\ UNCHANGED <<projectionVars, counters, tally>>

CallStep(c) ==
  \/ \E i \in Isolates, k \in Keys, route \in Routes : Arrives(c, i, k, route)
  \/ TakesWindow(c) \/ TakesQuota(c) \/ Works(c) \/ Bills(c) \/ Responds(c)

-----------------------------------------------------------------------------

MeteringInit ==
  /\ ProjectionInit
  /\ call = [c \in Calls |-> None]
  /\ window = [b \in Buckets |-> 0]
  /\ local = [i \in Isolates |-> [b \in Buckets |-> 0]]
  /\ daily = [k \in BrowserKeys |-> 0]
  /\ ledger = 0
  /\ hard = 0 /\ highest = 0 /\ soft = 0 /\ uncounted = 0 /\ lost = 0 /\ torn = FALSE

MeteringNext ==
  \/ (ProjectionNext /\ UNCHANGED <<call, counters, tally>>)
  \/ \E c \in Calls : CallStep(c)
  \/ NewMinute

MeteringSpec == MeteringInit /\ [][MeteringNext]_meteringVars

-----------------------------------------------------------------------------
(* Properties *)

(* The units allowed against a fuse are never more than the highest fuse    *)
(* that one of them was held to: neither a record that an isolate still     *)
(* caches, nor a fuse that is soft for a while, nor a ledger without answer *)
(* ("Monthly usage DO fail-closed when a hard fuse is enforced and the DO   *)
(* is down", go-live-checklist.md:166) lets more through.                   *)
FuseHolds == hard <= highest

(* "DO ledger is billing truth" (adr/0002): the ledger is what was allowed, *)
(* less what was let through without an answer and more what was counted by *)
(* calls whose answer was lost.  In a batch nothing is served after the     *)
(* first refusal, though the counter may answer again (batch.ts:311).       *)
LedgerAccounts ==
  /\ ledger = hard + soft + lost
  /\ ~torn

(* "A request refused on one window must not increment any of them"         *)
(* (api-key-usage-do.ts:105): the Customer's window is the sum of the       *)
(* others, each within its limit, whatever falls back to the isolates in    *)
(* between; and so is the day's count of a browser key.                     *)
WindowsAgree ==
  /\ window["customer"] = Total(window, Keys)
  /\ \A b \in Buckets :
       window[b] <= LimitOf(b) /\ \A i \in Isolates : local[i][b] <= LimitOf(b)
  /\ \A k \in BrowserKeys : daily[k] <= DailyLimit

(* Every counter says what was let through, and holds it to its limit. *)
CountersAgree == FuseHolds /\ LedgerAccounts /\ WindowsAgree
=============================================================================
