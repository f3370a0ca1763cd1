---------------------------- MODULE UploadJobs ----------------------------
(***************************************************************************)
(* Spreadsheet uploads of one customer: the class UploadJobs in the        *)
(* customer's usage object (upload-jobs.ts), the quote (upload-sheet.ts),  *)
(* the portal's start action (app.upload.tsx) and Stripe's webhook.        *)
(*                                                                         *)
(* The object runs one thread and lets no request in during a storage      *)
(* operation, so a handler is one step.  Only its alarm awaits something   *)
(* outside: the answer of Stripe, and the lookup of a row.  The runtime    *)
(* runs one alarm at a time; other handlers run during its awaits, and the *)
(* object may be lost at any of them, or between two of its transactions.  *)
(* A tab of the portal goes from await to await too.                       *)
(*                                                                         *)
(* A sheet is the number of its usable rows: an invalid one is passed over *)
(* without an await and without touching a counter.  Instants are          *)
(* abstracted to whether a deadline has passed.                            *)
(***************************************************************************)
EXTENDS Integers, Totals

CONSTANTS
  Uploads,        \* ids of uploads
  Tabs,           \* runs of the portal's start action
  Sheets,         \* numbers of usable rows
  Allowance,      \* DEFAULT_FREE_MONTHLY_ALLOWANCE
  MinCharge,      \* the card minimum, 50 cents
  MaxPerDay,      \* uploads a day, 20
  RowsPerAlarm,   \* rows of one alarm, 5
  NoUpload,
  LastDay, MonthOf,  \* bound: the days of a run, and the month each is in
  MaxApiCalls,    \* bound: API calls that count in the same month
  MaxFailures     \* bound: failed answers of Stripe and losses of the object

ASSUME UploadConstants ==
  /\ IsFiniteSet(Uploads) /\ NoUpload \notin Uploads
  /\ Sheets \subseteq Nat \ {0}
  /\ Allowance \in Nat /\ MinCharge \in Nat \ {0}
  /\ MaxPerDay \in Nat /\ RowsPerAlarm \in Nat \ {0}
  /\ LastDay \in Nat \ {0} /\ MonthOf \in [1 .. LastDay -> Nat]
  /\ MaxApiCalls \in Nat /\ MaxFailures \in Nat

VARIABLES
  day,        \* the UTC day
  attempts,   \* `upload:day:<today>`
  count,      \* `month:<month>`, shared with the API
  credits,    \* `upload:credits`
  active,     \* `upload:active`
  jobs,       \* `upload:job:<id>`
  pruned,     \* jobs deleted after their retention
  alarm,      \* whether an alarm is set
  handler,    \* where the running alarm() awaits, and for which upload
  late,       \* jobs whose expiresAt has passed
  old,        \* jobs created more than RETENTION ago
  session,    \* Stripe's Checkout session for an upload
  tab,        \* the last await a tab came back from, and its upload
  freeCalls,  \* API calls a month's free allowance has paid for
  apiCalls, failures

object == <<attempts, count, credits, active, jobs, pruned, alarm>>
clock == <<day, late, old>>
api == <<freeCalls, apiCalls>>
vars == <<object, handler, clock, session, tab, api, failures>>

Months == {MonthOf[d] : d \in 1 .. LastDay}
Month == MonthOf[day]
Status == {"none", "quoted", "checkout", "processing", "completed", "expired"}
Job == [status : Status, month : Months, validRows : Nat, freeRows : Nat,
        creditsUsed : Nat, nextRow : Nat, successfulRows : Nat]
NoJob == [status |-> "none", month |-> MonthOf[1], validRows |-> 0, freeRows |-> 0,
          creditsUsed |-> 0, nextRow |-> 0, successfulRows |-> 0]

Rests == [stage |-> "idle", upload |-> NoUpload, left |-> 0]
Nowhere == [stage |-> "idle", upload |-> NoUpload]

Init ==
  /\ day = 1
  /\ attempts = 0
  /\ count = [m \in Months |-> 0]
  /\ credits = 0
  /\ active = NoUpload
  /\ jobs = [u \in Uploads |-> NoJob]
  /\ pruned = {} /\ late = {} /\ old = {}
  /\ alarm = FALSE
  /\ handler = Rests
  /\ session = [u \in Uploads |-> "none"]
  /\ tab = [t \in Tabs |-> Nowhere]
  /\ freeCalls = [m \in Months |-> 0]
  /\ apiCalls = 0 /\ failures = 0

Fails == failures < MaxFailures /\ failures' = failures + 1

-----------------------------------------------------------------------------
(* The quote.  A credit is half a cent, the price of one row. *)

Less(m, n) == IF m <= n THEN m ELSE n
Positive(n) == IF n > 0 THEN n ELSE 0

FreeRows(rows, used, allowance) == Less(rows, Positive(allowance - used))

CreditsUsed(have, paid) == Less(have, paid)

PaidRows(j) == j.validRows - j.freeRows
Uncovered(j) == PaidRows(j) - j.creditsUsed

(* Whole cents, at least the card minimum. *)
ChargeCents(j) ==
  LET cents == (Uncovered(j) + 1) \div 2
  IN IF Uncovered(j) = 0 THEN 0 ELSE IF cents > MinCharge THEN cents ELSE MinCharge
ExtraCreditRows(j) == 2 * ChargeCents(j) - Uncovered(j)

Quote(rows, allowance) ==
  LET free == FreeRows(rows, count[Month], allowance)
  IN [NoJob EXCEPT !.status = "quoted", !.month = Month, !.validRows = rows,
                   !.freeRows = free, !.creditsUsed = CreditsUsed(credits, rows - free)]

(* /uploads/create, with an eligibility the portal looked up before. *)
Create(u, rows, allowance) ==
  LET job == Quote(rows, allowance)
  IN /\ jobs[u].status = "none"
     /\ active = NoUpload
     /\ attempts < MaxPerDay
     /\ attempts' = attempts + 1
     /\ jobs' = [jobs EXCEPT ![u] = job]
     /\ active' = u
     /\ credits' = credits - job.creditsUsed
     /\ count' = [count EXCEPT ![Month] = @ + rows]
     /\ alarm' = TRUE
     /\ UNCHANGED <<pruned, handler, clock, session, tab, api, failures>>

-----------------------------------------------------------------------------
(* What several handlers do to a job. *)

(* expire: the reservation goes back. *)
Releases(u) ==
  /\ jobs' = [jobs EXCEPT ![u].status = "expired"]
  /\ count' = [count EXCEPT ![jobs[u].month] = Positive(@ - jobs[u].validRows)]
  /\ credits' = credits + jobs[u].creditsUsed
  /\ active' = NoUpload

(* activate, for a session that Stripe says is paid: what the minimum or the *)
(* rounding took too much is credit.  Anything but a checkout is left alone. *)
Activates(u) ==
  /\ IF jobs[u].status = "checkout"
     THEN /\ jobs' = [jobs EXCEPT ![u].status = "processing"]
          /\ credits' = credits + ExtraCreditRows(jobs[u])
     ELSE UNCHANGED <<jobs, credits>>
  /\ UNCHANGED <<count, active>>

(* MUTANT of CreditedRows: failed rows are credited as if none was free. *)
FailedRows(j) == j.validRows - j.successfulRows

(* Failed rows count as paid ones first. *)
CreditedRows(j) == PaidRows(j) - Positive(j.successfulRows - j.freeRows)

(* settle. *)
Settles(u, job) ==
  /\ jobs' = [jobs EXCEPT ![u] = [job EXCEPT !.status = "completed"]]
  /\ credits' = credits + CreditedRows(job)
  /\ count' = [count EXCEPT ![job.month] = Positive(@ - (job.validRows - job.successfulRows))]
  /\ active' = NoUpload

(* scheduleAndPrune, the last thing an alarm does: terminal jobs beyond      *)
(* their retention go, and an alarm is left for the others.                  *)
Live(j) == j.status \in {"quoted", "checkout", "processing"}

Reschedules(js, gone) == \E u \in Uploads \ gone : js[u].status # "none"

(* An alarm ends in scheduleAndPrune, unless the object is lost before it:   *)
(* then the alarm set on entry stands.                                       *)
Finishes ==
  /\ handler' = Rests
  /\ \/ /\ pruned' = pruned \cup {u \in old : jobs'[u].status # "none" /\ ~Live(jobs'[u])}
        /\ alarm' = Reschedules(jobs', pruned')
        /\ UNCHANGED failures
     \/ Fails /\ alarm' = TRUE /\ UNCHANGED pruned

-----------------------------------------------------------------------------
(* The other routes. *)

(* /uploads/paid from the webhook: Stripe sends it once or more, or never.   *)
Paid(u) ==
  /\ session[u] = "paid"
  /\ jobs[u].status = "checkout"
  /\ Activates(u)
  /\ alarm' = TRUE
  /\ UNCHANGED <<attempts, pruned, handler, clock, session, tab, api, failures>>

(* MUTANT of Cancellable: a checkout may be cancelled as well. *)
CancellableUnpaid(u) == jobs[u].status \in {"quoted", "checkout"}

Cancellable(u) == jobs[u].status = "quoted"

(* /uploads/cancel *)
Cancel(u) ==
  /\ Cancellable(u)
  /\ Releases(u)
  /\ UNCHANGED <<attempts, pruned, alarm, handler, clock, session, tab, api, failures>>

(* The counter of the API, for a free plan or for a metered one. *)
Consume(free) ==
  /\ apiCalls < MaxApiCalls
  /\ free => count[Month] < Allowance
  /\ apiCalls' = apiCalls + 1
  /\ count' = [count EXCEPT ![Month] = @ + 1]
  /\ freeCalls' = IF free THEN [freeCalls EXCEPT ![Month] = @ + 1] ELSE freeCalls
  /\ UNCHANGED <<attempts, credits, active, jobs, pruned, alarm, handler, clock, session,
                 tab, failures>>

-----------------------------------------------------------------------------
(* The portal's start action: read the job, open its Checkout session, tell  *)
(* the object, send the customer to Stripe.                                  *)

Startable(u) == jobs[u].status \in {"quoted", "checkout"} /\ u \notin late

Leaves(t) == tab' = [tab EXCEPT ![t] = Nowhere]

TabReads(t, u) ==
  /\ tab[t] = Nowhere
  /\ Startable(u)
  /\ tab' = [tab EXCEPT ![t] = [stage |-> "read", upload |-> u]]
  /\ UNCHANGED <<object, handler, clock, session, api, failures>>

(* Stripe gives the same session to every request for an upload, by its      *)
(* idempotency key.  When the call fails, one may be open all the same.      *)
TabOpensSession(t) ==
  LET u == tab[t].upload
  IN /\ tab[t].stage = "read"
     /\ ChargeCents(jobs[u]) > 0
     /\ \/ /\ tab' = [tab EXCEPT ![t].stage = "opened"]
           /\ session' = IF session[u] = "none" THEN [session EXCEPT ![u] = "open"] ELSE session
        \/ /\ Leaves(t)
           /\ UNCHANGED session
     /\ UNCHANGED <<object, handler, clock, api, failures>>

StartedAs(u) == IF ChargeCents(jobs[u]) > 0 THEN "checkout" ELSE "processing"

(* /uploads/start.  A checkout's deadline becomes that of its session.  The  *)
(* customer gets the session's address if the reply arrives.                 *)
TabStarts(t) ==
  LET u == tab[t].upload
  IN /\ \/ tab[t].stage = "opened"
        \/ tab[t].stage = "read" /\ ChargeCents(jobs[u]) = 0
     /\ \/ /\ Startable(u)
           /\ jobs' = [jobs EXCEPT ![u].status = StartedAs(u)]
           /\ alarm' = TRUE
           /\ \/ UNCHANGED session
              \/ /\ session[u] = "open"
                 /\ session' = [session EXCEPT ![u] = "handed"]
        \/ /\ ~Startable(u)
           /\ UNCHANGED <<jobs, alarm, session>>
     /\ Leaves(t)
     /\ UNCHANGED <<attempts, count, credits, active, pruned, handler, clock, api, failures>>

-----------------------------------------------------------------------------
(* The alarm. *)

(* What needs no answer from outside: a late quote expires, a job that has   *)
(* all its rows settles, one whose deadline lies ahead is left alone.        *)
AlarmActs(u) ==
  /\ \/ jobs[u].status = "quoted" /\ u \in late /\ Releases(u)
     \/ /\ jobs[u].status = "processing" /\ jobs[u].nextRow = jobs[u].validRows
        /\ Settles(u, jobs[u])
     \/ /\ jobs[u].status \in {"quoted", "checkout"} /\ u \notin late
        /\ UNCHANGED <<jobs, count, credits, active>>
  /\ Finishes

(* Stripe is asked about a late checkout, a row is looked up: the alarm is   *)
(* set again for the case that no answer comes.                              *)
AlarmAwaits(u) ==
  /\ \/ /\ jobs[u].status = "checkout" /\ u \in late
        /\ handler' = [stage |-> "asking", upload |-> u, left |-> 0]
     \/ /\ jobs[u].status = "processing" /\ jobs[u].nextRow < jobs[u].validRows
        /\ handler' = [stage |-> "looking", upload |-> u, left |-> RowsPerAlarm]
  /\ alarm' = TRUE
  /\ UNCHANGED <<count, credits, active, jobs, pruned, failures>>

AlarmFires ==
  /\ alarm /\ handler = Rests
  /\ \/ active # NoUpload /\ (AlarmActs(active) \/ AlarmAwaits(active))
     \/ /\ active = NoUpload
        /\ UNCHANGED <<jobs, count, credits, active>>
        /\ Finishes
  /\ UNCHANGED <<attempts, clock, session, tab, api>>

(* Stripe's answer.  If none comes, or a bad one, alarm() throws. *)
StripeAnswers ==
  LET u == handler.upload
  IN /\ handler.stage = "asking"
     /\ \/ /\ session[u] = "paid" /\ Activates(u)
           /\ Finishes
        \/ /\ session[u] = "expired" /\ jobs[u].status \in {"quoted", "checkout"} /\ Releases(u)
           /\ Finishes
        \/ /\ \/ session[u] \notin {"paid", "expired"}
              \/ session[u] = "expired" /\ ~(jobs[u].status \in {"quoted", "checkout"})
           /\ UNCHANGED <<jobs, count, credits, active>>
           /\ Finishes
        \/ /\ Fails
           /\ handler' = Rests
           /\ UNCHANGED <<jobs, count, credits, active, pruned, alarm>>
     /\ UNCHANGED <<attempts, clock, session, tab, api>>

(* A row's result is stored with the progress; then the next row, or the     *)
(* settlement, or the end of this alarm.  The object may be lost in between. *)
RowLookedUp(found) ==
  LET u == handler.upload
      job == [jobs[u] EXCEPT !.nextRow = @ + 1,
                             !.successfulRows = IF found THEN @ + 1 ELSE @]
      more == job.nextRow < job.validRows
  IN /\ handler.stage = "looking"
     /\ jobs[u].status = "processing"
     /\ \/ /\ more /\ handler.left > 1
           /\ jobs' = [jobs EXCEPT ![u] = job]
           /\ handler' = [handler EXCEPT !.left = @ - 1]
           /\ UNCHANGED <<count, credits, active, pruned, alarm, failures>>
        \/ /\ more /\ handler.left = 1
           /\ jobs' = [jobs EXCEPT ![u] = job]
           /\ UNCHANGED <<count, credits, active>>
           /\ Finishes
        \/ /\ ~more
           /\ Settles(u, job)
           /\ Finishes
        \/ /\ Fails
           /\ jobs' = [jobs EXCEPT ![u] = job]
           /\ handler' = Rests
           /\ UNCHANGED <<count, credits, active, pruned, alarm>>
     /\ UNCHANGED <<attempts, clock, session, tab, api>>

(* The object is lost while its alarm awaits. *)
Lost ==
  /\ handler # Rests
  /\ Fails
  /\ handler' = Rests
  /\ UNCHANGED <<object, clock, session, tab, api>>

-----------------------------------------------------------------------------
(* The world: deadlines, days, Stripe. *)

DeadlinePasses(u) ==
  /\ jobs[u].status \in {"quoted", "checkout"} /\ u \notin late
  /\ late' = late \cup {u}
  /\ UNCHANGED <<object, handler, day, old, session, tab, api, failures>>

RetentionPasses(u) ==
  /\ jobs[u].status # "none" /\ ~Live(jobs[u]) /\ u \notin old
  /\ old' = old \cup {u}
  /\ UNCHANGED <<object, handler, day, late, session, tab, api, failures>>

(* A day's counter of uploads is a key of its own. *)
NewDay ==
  /\ day < LastDay
  /\ day' = day + 1
  /\ attempts' = 0
  /\ UNCHANGED <<count, credits, active, jobs, pruned, alarm, handler, late, old, session,
                 tab, api, failures>>

CustomerPays(u) ==
  /\ session[u] = "handed"
  /\ session' = [session EXCEPT ![u] = "paid"]
  /\ UNCHANGED <<object, handler, clock, tab, api, failures>>

SessionExpires(u) ==
  /\ session[u] \in {"open", "handed"} /\ u \in late
  /\ session' = [session EXCEPT ![u] = "expired"]
  /\ UNCHANGED <<object, handler, clock, tab, api, failures>>

Next ==
  \/ \E u \in Uploads, rows \in Sheets, allowance \in {0, Allowance} : Create(u, rows, allowance)
  \/ \E u \in Uploads : Paid(u) \/ Cancel(u)
  \/ \E free \in BOOLEAN : Consume(free)
  \/ \E t \in Tabs, u \in Uploads : TabReads(t, u)
  \/ \E t \in Tabs : TabOpensSession(t) \/ TabStarts(t)
  \/ AlarmFires
  \/ StripeAnswers
  \/ \E found \in BOOLEAN : RowLookedUp(found)
  \/ Lost
  \/ \E u \in Uploads : DeadlinePasses(u) \/ RetentionPasses(u)
  \/ NewDay
  \/ \E u \in Uploads : CustomerPays(u) \/ SessionExpires(u)

Spec == Init /\ [][Next]_vars

(* Deadlines pass, Stripe expires what nobody pays in time, the runtime      *)
(* fires a set alarm, and what it awaits ends in an answer or a timeout.     *)
(* Customers, tabs and webhooks owe nothing.                                 *)
Fairness ==
  /\ WF_vars(AlarmFires)
  /\ WF_vars(StripeAnswers)
  /\ WF_vars(\E found \in BOOLEAN : RowLookedUp(found))
  /\ \A u \in Uploads : WF_vars(DeadlinePasses(u)) /\ WF_vars(SessionExpires(u))

FairSpec == Spec /\ Fairness

-----------------------------------------------------------------------------
(* Properties. *)

(* What a job has brought to the credits and taken from them: the charge;    *)
(* the reservation, then what is paid for, in the end only rows found beyond *)
(* the free ones.                                                            *)
Brought(j) == IF j.status \in {"processing", "completed"} THEN 2 * ChargeCents(j) ELSE 0
Taken(j) ==
  CASE j.status \in {"quoted", "checkout"} -> j.creditsUsed
    [] j.status = "processing" -> PaidRows(j)
    [] j.status = "completed" -> Positive(j.successfulRows - j.freeRows)
    [] OTHER -> 0

(* No credit appears or vanishes: minimum charge, rounding, failed rows,     *)
(* expiry and late or repeated confirmations of a payment included ("Retries *)
(* cannot settle or credit a job twice", docs/adr/0006).                     *)
CreditsConserved ==
  credits + Total([u \in Uploads |-> Taken(jobs[u])], Uploads)
    = Total([u \in Uploads |-> Brought(jobs[u])], Uploads)

FreeUsed(j) ==
  IF Live(j) THEN j.freeRows
  ELSE IF j.status = "completed" THEN Less(j.successfulRows, j.freeRows) ELSE 0

(* API calls and uploads together get no more than the month's allowance for *)
(* free, in whatever order they reserve, fail, expire and settle.            *)
FreeWithinAllowance ==
  \A m \in Months :
    freeCalls[m] + Total([u \in Uploads |-> FreeUsed(jobs[u])],
                         {u \in Uploads : jobs[u].month = m}) <= Allowance

(* While a customer can still pay, or has, the job waits or is processed:    *)
(* "only Stripe's confirmed expiry may release its reservation"              *)
(* (upload-jobs.ts:56).                                                      *)
CheckoutHeldUntilStripe ==
  \A u \in Uploads : session[u] \in {"handed", "paid"} =>
    jobs[u].status \in {"checkout", "processing", "completed"}

(* A job with a charge is processed only when it was paid. *)
NothingBeforePayment ==
  \A u \in Uploads :
    jobs[u].status \in {"processing", "completed"} /\ ChargeCents(jobs[u]) > 0 =>
      session[u] = "paid"

(* Work and payment go together: no work unpaid, no payment without work,   *)
(* and what is given free stays within the allowance.                       *)
PaidWorkOnly == CheckoutHeldUntilStripe /\ NothingBeforePayment /\ FreeWithinAllowance

(* What is paid, credited, free and done add up. *)
BooksBalance == CreditsConserved /\ PaidWorkOnly

(* Every upload ends, also when no webhook arrives and nobody comes back. *)
EveryUploadEnds == \A u \in Uploads : Live(jobs[u]) ~> ~Live(jobs[u])

(* And one that is paid for ends completed. *)
PaidIsProcessed == \A u \in Uploads : session[u] = "paid" ~> jobs[u].status = "completed"

(* No upload is left hanging, whichever way it goes. *)
UploadsSettle == EveryUploadEnds /\ PaidIsProcessed
=============================================================================
