--------------------------- MODULE CustomerProofs ---------------------------
(***************************************************************************)
(* Proofs about what a customer pays for and is told: about UploadJobs,    *)
(* for any uploads, sheets, prices and allowances, that the books balance; *)
(* about Webhooks, for any events and bounds, that the outcome of an event *)
(* is what happened; about Projection and Metering, for any mutations,     *)
(* keys, isolates and limits, that the records are in step and the counters*)
(* agree.                                                                  *)
(*                                                                         *)
(* BooksBalance is inductive with the figures of a job (JobOK), with what  *)
(* the month's counter holds beside what it gave for free (Metered), and   *)
(* with where the alarm and the tabs are.  OutcomesEarned is not: a        *)
(* verdict is written from the record that the cron read before it called, *)
(* so HookInv says what that copy is worth at every step of a delivery.    *)
(* ProjectionInStep needs that a mutation which is alone knows the row, and*)
(* CountersAgree that a request, once refused, has nothing left to do.     *)
(***************************************************************************)
EXTENDS UploadJobs, Webhooks, Metering, DataFacts

-----------------------------------------------------------------------------
(* Uploads *)

(* A job's figures fit together. *)
JobOK(j) ==
  /\ j \in Job
  /\ j.freeRows <= j.validRows /\ j.creditsUsed <= PaidRows(j)
  /\ j.successfulRows <= j.nextRow /\ j.nextRow <= j.validRows
  /\ j.status = "none" => j = NoJob

(* Where the alarm and the tabs are. *)
Places ==
  /\ handler.stage # "idle" => handler.upload \in Uploads
  /\ handler.stage = "looking" =>
       /\ jobs[handler.upload].status = "processing"
       /\ jobs[handler.upload].nextRow < jobs[handler.upload].validRows
  /\ \A t \in Tabs : tab[t].stage # "idle" => tab[t].upload \in Uploads

Around ==
  /\ day \in 1 .. LastDay /\ attempts \in Nat
  /\ pruned \subseteq Uploads /\ late \subseteq Uploads /\ old \subseteq Uploads
  /\ alarm \in BOOLEAN
  /\ handler \in [stage : {"idle", "asking", "looking"}, upload : Uploads \cup {NoUpload},
                  left : Nat]
  /\ tab \in [Tabs -> [stage : {"idle", "read", "opened"}, upload : Uploads \cup {NoUpload}]]
  /\ apiCalls \in Nat /\ failures \in Nat
  /\ Places

(* A session is that of a job with a charge. *)
Charged == \A u \in Uploads : session[u] # "none" => ChargeCents(jobs[u]) > 0

(* What an upload holds of a month's counter, and of its free allowance. *)
Holds(j, m) ==
  IF j.month # m THEN 0
  ELSE IF Live(j) THEN j.validRows
  ELSE IF j.status = "completed" THEN j.successfulRows ELSE 0
FreeOf(j, m) == IF j.month = m THEN FreeUsed(j) ELSE 0

Holding(m) == Total([u \in Uploads |-> Holds(jobs[u], m)], Uploads)
Freed(m) == Total([u \in Uploads |-> FreeOf(jobs[u], m)], Uploads)

Metered ==
  \A m \in Months : /\ freeCalls[m] + Holding(m) <= count[m]
                    /\ freeCalls[m] + Freed(m) <= Allowance

Books ==
  /\ jobs \in [Uploads -> Job] /\ \A u \in Uploads : JobOK(jobs[u])
  /\ credits \in Nat /\ count \in [Months -> Nat] /\ freeCalls \in [Months -> Nat]
  /\ active \in Uploads \cup {NoUpload}
  /\ CreditsConserved /\ Metered

Payments ==
  /\ session \in [Uploads -> {"none", "open", "handed", "paid", "expired"}]
  /\ Charged /\ CheckoutHeldUntilStripe /\ NothingBeforePayment

UploadInv == Books /\ Payments /\ Around

-----------------------------------------------------------------------------
(* Figures of a job *)

(* A charge covers what is not reserved, and is nothing when all is. *)
LEMMA ChargeFacts ==
  ASSUME NEW j, JobOK(j)
  PROVE  /\ Uncovered(j) \in Nat /\ PaidRows(j) \in Nat /\ ChargeCents(j) \in Nat
         /\ 2 * ChargeCents(j) >= Uncovered(j)
         /\ ChargeCents(j) = 0 <=> Uncovered(j) = 0
  <1>1. /\ j.validRows \in Nat /\ j.freeRows \in Nat /\ j.creditsUsed \in Nat
        /\ Uncovered(j) \in Nat /\ PaidRows(j) \in Nat
    BY DEF JobOK, Job, Uncovered, PaidRows
  <1>2. ASSUME NEW n \in Nat
        PROVE  /\ (n + 1) \div 2 \in Nat /\ 2 * ((n + 1) \div 2) >= n
               /\ n # 0 => (n + 1) \div 2 > 0
    OBVIOUS
  <1>3. CASE Uncovered(j) = 0
    BY <1>1, <1>3 DEF ChargeCents
  <1>4. CASE Uncovered(j) # 0
    <2>1. ChargeCents(j) \in {(Uncovered(j) + 1) \div 2, MinCharge}
          /\ ChargeCents(j) >= (Uncovered(j) + 1) \div 2
      BY <1>1, <1>2, <1>4, UploadConstants DEF ChargeCents
    <2>2. ChargeCents(j) \in Nat
      BY <1>1, <1>2, <2>1, UploadConstants
    <2> DEFINE h == (Uncovered(j) + 1) \div 2
    <2>3. h \in Nat /\ 2 * h >= Uncovered(j) /\ h > 0
      BY <1>1, <1>2, <1>4
    <2>4. ChargeCents(j) >= h
      BY <2>1
    <2> HIDE DEF h
    <2> QED BY <1>1, <1>4, <2>2, <2>3, <2>4
  <1> QED BY <1>3, <1>4

(* The charge is that of the quote. *)
LEMMA ChargeSame ==
  ASSUME NEW j, NEW k, j.validRows = k.validRows, j.freeRows = k.freeRows,
         j.creditsUsed = k.creditsUsed
  PROVE  /\ ChargeCents(j) = ChargeCents(k) /\ PaidRows(j) = PaidRows(k)
         /\ Uncovered(j) = Uncovered(k)
  BY DEF ChargeCents, Uncovered, PaidRows

(* Every figure is a number, and no more is free than held. *)
LEMMA FigureTypes ==
  ASSUME NEW j, JobOK(j)
  PROVE  /\ Taken(j) \in Nat /\ Brought(j) \in Nat /\ FreeUsed(j) \in Nat
         /\ \A m \in Months : /\ Holds(j, m) \in Nat /\ FreeOf(j, m) \in Nat
                             /\ FreeOf(j, m) <= Holds(j, m)
  <1>1. /\ j.validRows \in Nat /\ j.freeRows \in Nat /\ j.creditsUsed \in Nat
        /\ j.successfulRows \in Nat /\ j.freeRows <= j.validRows /\ j.status \in Status
    BY DEF JobOK, Job
  <1>2. PaidRows(j) \in Nat /\ ChargeCents(j) \in Nat
    BY ChargeFacts
  <1>3. Taken(j) \in Nat
    BY <1>1, <1>2 DEF Taken, Positive, Status
  <1>4. Brought(j) \in Nat
    BY <1>1, <1>2 DEF Brought
  <1>5. FreeUsed(j) \in Nat
    BY <1>1 DEF FreeUsed, Less
  <1>6. ASSUME NEW m \in Months
        PROVE  Holds(j, m) \in Nat /\ FreeOf(j, m) \in Nat /\ FreeOf(j, m) <= Holds(j, m)
    BY <1>1, <1>5 DEF Holds, FreeOf, FreeUsed, Less, Live
  <1> QED BY <1>3, <1>4, <1>5, <1>6

-----------------------------------------------------------------------------
(* The books *)

(* When one job becomes j, and its change of the credits and of the month's *)
(* counter is what the job itself took, the books still balance.            *)
LEMMA BooksKept ==
  ASSUME UploadInv, NEW u \in Uploads, NEW j, JobOK(j), jobs' = [jobs EXCEPT ![u] = j],
         credits' \in Nat, count' \in [Months -> Nat], UNCHANGED freeCalls,
         active' \in Uploads \cup {NoUpload},
         credits' + Taken(j) - Brought(j) = credits + Taken(jobs[u]) - Brought(jobs[u]),
         \A m \in Months :
           /\ count'[m] - Holds(j, m) >= count[m] - Holds(jobs[u], m)
           /\ FreeOf(j, m) <= FreeOf(jobs[u], m) \/ count[m] + FreeOf(j, m) <= Allowance
  PROVE  Books'
  <1>1. /\ IsFiniteSet(Uploads) /\ jobs \in [Uploads -> Job]
        /\ \A v \in Uploads : JobOK(jobs[v])
        /\ credits \in Nat /\ count \in [Months -> Nat] /\ freeCalls \in [Months -> Nat]
        /\ Allowance \in Nat
    BY UploadConstants DEF UploadInv, Books
  <1>2. /\ jobs' \in [Uploads -> Job] /\ \A v \in Uploads : JobOK(jobs'[v])
        /\ jobs'[u] = j /\ \A v \in Uploads \ {u} : jobs'[v] = jobs[v]
    BY <1>1 DEF JobOK
  <1>3. CreditsConserved'
    <2> DEFINE f == [v \in Uploads |-> Taken(jobs[v])]
               g == [v \in Uploads |-> Taken(jobs'[v])]
               a == [v \in Uploads |-> Brought(jobs[v])]
               b == [v \in Uploads |-> Brought(jobs'[v])]
    <2>1. \A v \in Uploads : /\ f[v] \in Nat /\ g[v] \in Nat /\ a[v] \in Nat /\ b[v] \in Nat
      BY <1>1, <1>2, FigureTypes
    <2>2. \A v \in Uploads \ {u} : f[v] = g[v] /\ a[v] = b[v]
      BY <1>2
    <2>3. f[u] = Taken(jobs[u]) /\ g[u] = Taken(j) /\ a[u] = Brought(jobs[u]) /\ b[u] = Brought(j)
      BY <1>2
    <2>4. credits + Total(f, Uploads) = Total(a, Uploads)
      BY DEF UploadInv, Books, CreditsConserved
    <2> HIDE DEF f, g, a, b
    <2>5. /\ Total(g, Uploads) = Total(f, Uploads) - f[u] + g[u]
          /\ Total(b, Uploads) = Total(a, Uploads) - a[u] + b[u]
      <3>1. IsFiniteSet(Uploads)
        BY <1>1
      <3>2. Total(g, Uploads) = Total(f, Uploads) - f[u] + g[u]
        <4>1. /\ \A v \in Uploads : f[v] \in Nat /\ g[v] \in Nat
              /\ \A v \in Uploads \ {u} : f[v] = g[v]
          BY <2>1, <2>2
        <4> QED BY <3>1, <4>1, TotalChanges
      <3>3. Total(b, Uploads) = Total(a, Uploads) - a[u] + b[u]
        <4>1. /\ \A v \in Uploads : a[v] \in Nat /\ b[v] \in Nat
              /\ \A v \in Uploads \ {u} : a[v] = b[v]
          BY <2>1, <2>2
        <4> QED BY <3>1, <4>1, TotalChanges
      <3> QED BY <3>2, <3>3
    <2>6. Total(f, Uploads) \in Nat /\ Total(a, Uploads) \in Nat
      BY <1>1, <2>1, UnitsFinite
    <2>7. credits' + Total(g, Uploads) = Total(b, Uploads)
      BY <1>1, <2>1, <2>3, <2>4, <2>5, <2>6
    <2> QED BY <2>7 DEF CreditsConserved, g, b
  <1>4. Metered'
    <2> SUFFICES ASSUME NEW m \in Months
                 PROVE  /\ freeCalls[m] + Holding(m)' <= count'[m]
                        /\ freeCalls[m] + Freed(m)' <= Allowance
      BY DEF Metered
    <2> DEFINE f == [v \in Uploads |-> Holds(jobs[v], m)]
               g == [v \in Uploads |-> Holds(jobs'[v], m)]
               a == [v \in Uploads |-> FreeOf(jobs[v], m)]
               b == [v \in Uploads |-> FreeOf(jobs'[v], m)]
    <2>1. \A v \in Uploads : /\ f[v] \in Nat /\ g[v] \in Nat /\ a[v] \in Nat /\ b[v] \in Nat
                            /\ a[v] <= f[v]
      BY <1>1, <1>2, FigureTypes
    <2>2. \A v \in Uploads \ {u} : f[v] = g[v] /\ a[v] = b[v]
      BY <1>2
    <2>3. /\ f[u] = Holds(jobs[u], m) /\ g[u] = Holds(j, m)
          /\ a[u] = FreeOf(jobs[u], m) /\ b[u] = FreeOf(j, m)
      BY <1>2
    <2>4. /\ freeCalls[m] + Total(f, Uploads) <= count[m]
          /\ freeCalls[m] + Total(a, Uploads) <= Allowance
      BY DEF UploadInv, Books, Metered, Holding, Freed
    <2> HIDE DEF f, g, a, b
    <2>5. /\ Total(g, Uploads) = Total(f, Uploads) - f[u] + g[u]
          /\ Total(b, Uploads) = Total(a, Uploads) - a[u] + b[u]
      <3>1. IsFiniteSet(Uploads)
        BY <1>1
      <3>2. Total(g, Uploads) = Total(f, Uploads) - f[u] + g[u]
        <4>1. /\ \A v \in Uploads : f[v] \in Nat /\ g[v] \in Nat
              /\ \A v \in Uploads \ {u} : f[v] = g[v]
          BY <2>1, <2>2
        <4> QED BY <3>1, <4>1, TotalChanges
      <3>3. Total(b, Uploads) = Total(a, Uploads) - a[u] + b[u]
        <4>1. /\ \A v \in Uploads : a[v] \in Nat /\ b[v] \in Nat
              /\ \A v \in Uploads \ {u} : a[v] = b[v]
          BY <2>1, <2>2
        <4> QED BY <3>1, <4>1, TotalChanges
      <3> QED BY <3>2, <3>3
    <2>6. /\ Total(f, Uploads) \in Nat /\ Total(a, Uploads) \in Nat
          /\ Total(a, Uploads) <= Total(f, Uploads)
      BY <1>1, <2>1, UnitsFinite, TotalWithin
    <2>7. count[m] \in Nat /\ count'[m] \in Nat /\ freeCalls[m] \in Nat
      BY <1>1
    <2>8. /\ count'[m] - g[u] >= count[m] - f[u]
          /\ b[u] <= a[u] \/ count[m] + b[u] <= Allowance
      BY <2>3
    <2>9. /\ freeCalls[m] + Total(g, Uploads) <= count'[m]
          /\ freeCalls[m] + Total(b, Uploads) <= Allowance
      BY <1>1, <2>1, <2>4, <2>5, <2>6, <2>7, <2>8
    <2> QED BY <2>9 DEF Holding, Freed, g, b
  <1> QED BY <1>1, <1>2, <1>3, <1>4 DEF Books

(* The books do not depend on anything else. *)
LEMMA BooksUntouched ==
  ASSUME UploadInv, UNCHANGED <<jobs, credits, count, freeCalls, active>>
  PROVE  Books'
  BY DEF UploadInv, Books, CreditsConserved, Metered, Holding, Freed

(* A step that leaves the sessions alone keeps what is known of payments if *)
(* the job that becomes j keeps its charge, holds on to what is paid or can *)
(* be, and is not processed before.                                         *)
LEMMA PaymentsKept ==
  ASSUME UploadInv, NEW u \in Uploads, NEW j, jobs' = [jobs EXCEPT ![u] = j], UNCHANGED session,
         session[u] # "none" => ChargeCents(j) > 0,
         session[u] \in {"handed", "paid"} => j.status \in {"checkout", "processing", "completed"},
         j.status \in {"processing", "completed"} /\ ChargeCents(j) > 0 => session[u] = "paid"
  PROVE  Payments'
  BY DEF UploadInv, Books, Payments, Charged, CheckoutHeldUntilStripe, NothingBeforePayment

LEMMA PaymentsUntouched ==
  ASSUME UploadInv, UNCHANGED <<jobs, session>>
  PROVE  Payments'
  BY DEF UploadInv, Payments, Charged, CheckoutHeldUntilStripe, NothingBeforePayment

(* A job with another status, and nothing else. *)
LEMMA StatusOnly ==
  ASSUME NEW x, JobOK(x), NEW st \in Status \ {"none"}
  PROVE  LET j == [x EXCEPT !.status = st]
         IN /\ JobOK(j) /\ j.status = st /\ j.month = x.month /\ j.validRows = x.validRows
            /\ j.freeRows = x.freeRows /\ j.creditsUsed = x.creditsUsed
            /\ j.nextRow = x.nextRow /\ j.successfulRows = x.successfulRows
            /\ ChargeCents(j) = ChargeCents(x) /\ PaidRows(j) = PaidRows(x)
            /\ Uncovered(j) = Uncovered(x)
  <1> DEFINE j == [x EXCEPT !.status = st]
  <1>1. /\ j \in Job /\ j.status = st /\ j.month = x.month /\ j.validRows = x.validRows
        /\ j.freeRows = x.freeRows /\ j.creditsUsed = x.creditsUsed
        /\ j.nextRow = x.nextRow /\ j.successfulRows = x.successfulRows
    BY DEF JobOK, Job
  <1> HIDE DEF j
  <1>2. /\ ChargeCents(j) = ChargeCents(x) /\ PaidRows(j) = PaidRows(x)
        /\ Uncovered(j) = Uncovered(x)
    BY <1>1, ChargeSame
  <1>3. JobOK(j)
    BY <1>1, <1>2 DEF JobOK
  <1> QED BY <1>1, <1>2, <1>3 DEF j

(* An expiry gives back what was reserved; nobody can pay any more. *)
LEMMA ReleaseKeeps ==
  ASSUME UploadInv, NEW u \in Uploads, jobs[u].status \in {"quoted", "checkout"},
         session[u] \notin {"handed", "paid"}, Releases(u), UNCHANGED <<freeCalls, session>>
  PROVE  Books' /\ Payments'
  <1> DEFINE j == [jobs[u] EXCEPT !.status = "expired"]
  <1>1. /\ JobOK(jobs[u]) /\ credits \in Nat /\ count \in [Months -> Nat]
        /\ jobs[u].validRows \in Nat /\ jobs[u].creditsUsed \in Nat /\ jobs[u].month \in Months
    BY DEF UploadInv, Books, JobOK, Job
  <1>2. /\ JobOK(j) /\ j.status = "expired" /\ j.month = jobs[u].month
        /\ ChargeCents(j) = ChargeCents(jobs[u])
    BY <1>1, StatusOnly DEF Status
  <1>3. jobs' = [jobs EXCEPT ![u] = j]
    BY DEF Releases, UploadInv, Books
  <1> HIDE DEF j
  <1>4. /\ credits' = credits + jobs[u].creditsUsed
        /\ count' = [count EXCEPT ![jobs[u].month] = Positive(@ - jobs[u].validRows)]
        /\ active' = NoUpload
    BY DEF Releases
  <1>5. Taken(j) = 0 /\ Brought(j) = 0 /\ Taken(jobs[u]) = jobs[u].creditsUsed /\ Brought(jobs[u]) = 0
    BY <1>2 DEF Taken, Brought
  <1>6. count' \in [Months -> Nat]
    BY <1>1, <1>4 DEF Positive
  <1>7. ASSUME NEW m \in Months
        PROVE  /\ count'[m] - Holds(j, m) >= count[m] - Holds(jobs[u], m)
               /\ FreeOf(j, m) <= FreeOf(jobs[u], m)
    <2>1. Holds(j, m) = 0 /\ FreeOf(j, m) = 0
      BY <1>2 DEF Holds, FreeOf, FreeUsed, Live
    <2>2. Holds(jobs[u], m) = IF jobs[u].month = m THEN jobs[u].validRows ELSE 0
      BY DEF Holds, Live
    <2>3. FreeOf(jobs[u], m) \in Nat
      BY <1>1, FigureTypes
    <2> QED BY <1>1, <1>4, <2>1, <2>2, <2>3 DEF Positive
  <1>8. Books'
    <2>1. /\ credits' \in Nat /\ active' \in Uploads \cup {NoUpload}
          /\ credits' + Taken(j) - Brought(j) = credits + Taken(jobs[u]) - Brought(jobs[u])
      BY <1>1, <1>4, <1>5
    <2> QED BY <1>2, <1>3, <1>6, <1>7, <2>1, BooksKept
  <1>9. Payments'
    BY <1>2, <1>3, PaymentsKept DEF UploadInv, Payments, Charged
  <1> QED BY <1>8, <1>9

(* A job that is paid for is processed, and the change is credited, once. *)
LEMMA ActivateKeeps ==
  ASSUME UploadInv, NEW u \in Uploads, session[u] = "paid", Activates(u),
         UNCHANGED <<freeCalls, session>>
  PROVE  Books' /\ Payments'
  <1>1. CASE jobs[u].status = "checkout"
    <2> DEFINE j == [jobs[u] EXCEPT !.status = "processing"]
    <2>1. JobOK(jobs[u]) /\ credits \in Nat /\ count \in [Months -> Nat]
          /\ jobs[u].creditsUsed \in Nat
      BY DEF UploadInv, Books, JobOK, Job
    <2>2. /\ JobOK(j) /\ j.status = "processing" /\ j.month = jobs[u].month
          /\ j.validRows = jobs[u].validRows /\ j.freeRows = jobs[u].freeRows
          /\ ChargeCents(j) = ChargeCents(jobs[u]) /\ PaidRows(j) = PaidRows(jobs[u])
      BY <2>1, StatusOnly DEF Status
    <2>3. jobs' = [jobs EXCEPT ![u] = j]
      BY <1>1 DEF Activates, UploadInv, Books
    <2> HIDE DEF j
    <2>4. /\ credits' = credits + (2 * ChargeCents(jobs[u]) - Uncovered(jobs[u]))
          /\ UNCHANGED <<count, active>> /\ active' \in Uploads \cup {NoUpload}
      BY <1>1 DEF Activates, ExtraCreditRows, UploadInv, Books
    <2>5. /\ Uncovered(jobs[u]) \in Nat /\ ChargeCents(jobs[u]) \in Nat /\ PaidRows(jobs[u]) \in Nat
          /\ 2 * ChargeCents(jobs[u]) >= Uncovered(jobs[u])
          /\ Uncovered(jobs[u]) = PaidRows(jobs[u]) - jobs[u].creditsUsed
      BY <2>1, ChargeFacts DEF Uncovered
    <2>6. /\ Taken(j) = PaidRows(jobs[u]) /\ Brought(j) = 2 * ChargeCents(jobs[u])
          /\ Taken(jobs[u]) = jobs[u].creditsUsed /\ Brought(jobs[u]) = 0
      BY <1>1, <2>2 DEF Taken, Brought
    <2>7. credits' \in Nat
          /\ credits' + Taken(j) - Brought(j) = credits + Taken(jobs[u]) - Brought(jobs[u])
      BY <2>1, <2>4, <2>5, <2>6
    <2>8. ASSUME NEW m \in Months
          PROVE  Holds(j, m) = Holds(jobs[u], m) /\ FreeOf(j, m) = FreeOf(jobs[u], m)
      BY <1>1, <2>2 DEF Holds, FreeOf, FreeUsed, Live
    <2>9. ASSUME NEW m \in Months
          PROVE  /\ count'[m] - Holds(j, m) >= count[m] - Holds(jobs[u], m)
                 /\ FreeOf(j, m) <= FreeOf(jobs[u], m)
      <3>1. Holds(jobs[u], m) \in Nat /\ FreeOf(jobs[u], m) \in Nat
        BY <2>1, FigureTypes
      <3> QED BY <2>1, <2>4, <2>8, <3>1
    <2>10. Books'
      BY <2>1, <2>2, <2>3, <2>4, <2>7, <2>9, BooksKept
    <2>11. Payments'
      BY <2>2, <2>3, PaymentsKept DEF UploadInv, Payments, Charged
    <2> QED BY <2>10, <2>11
  <1>2. CASE jobs[u].status # "checkout"
    BY <1>2, BooksUntouched, PaymentsUntouched DEF Activates
  <1> QED BY <1>1, <1>2

(* A row is done: only the progress of the job changes. *)
LEMMA ProgressFacts ==
  ASSUME UploadInv, NEW u \in Uploads, jobs[u].status = "processing",
         jobs[u].nextRow < jobs[u].validRows, NEW found \in BOOLEAN
  PROVE  LET j == [jobs[u] EXCEPT !.nextRow = @ + 1,
                                  !.successfulRows = IF found THEN @ + 1 ELSE @]
         IN /\ JobOK(j) /\ j.status = "processing" /\ j.month = jobs[u].month
            /\ j.validRows = jobs[u].validRows /\ j.freeRows = jobs[u].freeRows
            /\ ChargeCents(j) = ChargeCents(jobs[u]) /\ PaidRows(j) = PaidRows(jobs[u])
            /\ j.nextRow = jobs[u].nextRow + 1
  <1> DEFINE j == [jobs[u] EXCEPT !.nextRow = @ + 1,
                                  !.successfulRows = IF found THEN @ + 1 ELSE @]
  <1>1. JobOK(jobs[u])
    BY DEF UploadInv, Books
  <1>2. /\ j \in Job /\ j.status = "processing" /\ j.month = jobs[u].month
        /\ j.validRows = jobs[u].validRows /\ j.freeRows = jobs[u].freeRows
        /\ j.creditsUsed = jobs[u].creditsUsed /\ j.nextRow = jobs[u].nextRow + 1
        /\ j.successfulRows <= jobs[u].successfulRows + 1
    <2> DEFINE n == IF found THEN jobs[u].successfulRows + 1 ELSE jobs[u].successfulRows
               k == jobs[u].nextRow + 1
    <2>1. /\ jobs[u] \in Job /\ n \in Nat /\ k \in Nat /\ n <= jobs[u].successfulRows + 1
      BY <1>1 DEF JobOK, Job
    <2>2. j = [jobs[u] EXCEPT !.nextRow = k, !.successfulRows = n]
      OBVIOUS
    <2> HIDE DEF n, k, j
    <2>3. /\ j \in Job /\ j.status = jobs[u].status /\ j.month = jobs[u].month
          /\ j.validRows = jobs[u].validRows /\ j.freeRows = jobs[u].freeRows
          /\ j.creditsUsed = jobs[u].creditsUsed /\ j.nextRow = k /\ j.successfulRows = n
      BY <2>1, <2>2 DEF Job
    <2> QED BY <2>1, <2>3 DEF k
  <1> HIDE DEF j
  <1>3. ChargeCents(j) = ChargeCents(jobs[u]) /\ PaidRows(j) = PaidRows(jobs[u])
    BY <1>2, ChargeSame
  <1>4. JobOK(j)
    BY <1>1, <1>2, <1>3 DEF JobOK, Job
  <1> QED BY <1>2, <1>3, <1>4 DEF j

(* Progress moves neither credits nor counters. *)
LEMMA ProgressKeeps ==
  ASSUME UploadInv, NEW u \in Uploads, NEW j, JobOK(j), jobs[u].status = "processing",
         j.status = "processing", j.month = jobs[u].month, j.validRows = jobs[u].validRows,
         j.freeRows = jobs[u].freeRows, ChargeCents(j) = ChargeCents(jobs[u]),
         PaidRows(j) = PaidRows(jobs[u]), jobs' = [jobs EXCEPT ![u] = j],
         UNCHANGED <<credits, count, active, freeCalls, session>>
  PROVE  Books' /\ Payments'
  <1>1. /\ JobOK(jobs[u]) /\ credits \in Nat /\ count \in [Months -> Nat]
        /\ active \in Uploads \cup {NoUpload}
    BY DEF UploadInv, Books
  <1>2. Taken(j) = Taken(jobs[u]) /\ Brought(j) = Brought(jobs[u])
    BY DEF Taken, Brought
  <1>3. Taken(jobs[u]) \in Nat /\ Brought(jobs[u]) \in Nat
    BY <1>1, FigureTypes
  <1>4. ASSUME NEW m \in Months
        PROVE  /\ count'[m] - Holds(j, m) >= count[m] - Holds(jobs[u], m)
               /\ FreeOf(j, m) <= FreeOf(jobs[u], m)
    <2>1. Holds(jobs[u], m) \in Nat /\ FreeOf(jobs[u], m) \in Nat
      BY <1>1, FigureTypes
    <2>2. Holds(j, m) = Holds(jobs[u], m) /\ FreeOf(j, m) = FreeOf(jobs[u], m)
      BY DEF Holds, FreeOf, FreeUsed, Live
    <2> QED BY <1>1, <2>1, <2>2
  <1>5. credits' + Taken(j) - Brought(j) = credits + Taken(jobs[u]) - Brought(jobs[u])
    BY <1>1, <1>2, <1>3
  <1>6. Books'
    BY <1>1, <1>4, <1>5, BooksKept
  <1>7. Payments'
    BY PaymentsKept DEF UploadInv, Payments, Charged, NothingBeforePayment
  <1> QED BY <1>6, <1>7

(* A settlement credits what failed, as paid rows first, and gives the      *)
(* failed rows back to the month.                                           *)
LEMMA SettleKeeps ==
  ASSUME UploadInv, NEW u \in Uploads, NEW x, JobOK(x), jobs[u].status = "processing",
         x.status = "processing", x.month = jobs[u].month, x.validRows = jobs[u].validRows,
         x.freeRows = jobs[u].freeRows, ChargeCents(x) = ChargeCents(jobs[u]),
         PaidRows(x) = PaidRows(jobs[u]), Settles(u, x), UNCHANGED <<freeCalls, session>>
  PROVE  Books' /\ Payments'
  <1> DEFINE j == [x EXCEPT !.status = "completed"]
  <1>1. /\ JobOK(jobs[u]) /\ credits \in Nat /\ count \in [Months -> Nat]
        /\ x.validRows \in Nat /\ x.successfulRows \in Nat /\ x.freeRows \in Nat
        /\ x.month \in Months /\ x.successfulRows <= x.validRows /\ x.freeRows <= x.validRows
        /\ PaidRows(x) = x.validRows - x.freeRows
    BY DEF UploadInv, Books, JobOK, Job, PaidRows
  <1>2. /\ JobOK(j) /\ j.status = "completed" /\ j.month = x.month
        /\ j.successfulRows = x.successfulRows /\ j.freeRows = x.freeRows
        /\ ChargeCents(j) = ChargeCents(x)
    BY StatusOnly DEF Status
  <1>3. jobs' = [jobs EXCEPT ![u] = j]
    BY DEF Settles
  <1> HIDE DEF j
  <1>4. /\ credits' = credits + (PaidRows(x) - Positive(x.successfulRows - x.freeRows))
        /\ count' = [count EXCEPT ![x.month] = Positive(@ - (x.validRows - x.successfulRows))]
        /\ active' = NoUpload
    BY DEF Settles, CreditedRows
  <1>5. /\ Taken(j) = Positive(x.successfulRows - x.freeRows) /\ Brought(j) = 2 * ChargeCents(x)
        /\ Taken(jobs[u]) = PaidRows(x) /\ Brought(jobs[u]) = 2 * ChargeCents(x)
    BY <1>2 DEF Taken, Brought
  <1>6. /\ credits' \in Nat
        /\ credits' + Taken(j) - Brought(j) = credits + Taken(jobs[u]) - Brought(jobs[u])
    <2>1. ChargeCents(x) \in Nat
      BY ChargeFacts
    <2> QED BY <1>1, <1>4, <1>5, <2>1 DEF Positive
  <1>7. count' \in [Months -> Nat]
    BY <1>1, <1>4 DEF Positive
  <1>8. ASSUME NEW m \in Months
        PROVE  /\ count'[m] - Holds(j, m) >= count[m] - Holds(jobs[u], m)
               /\ FreeOf(j, m) <= FreeOf(jobs[u], m)
    <2>1. Holds(j, m) = IF x.month = m THEN x.successfulRows ELSE 0
      BY <1>2 DEF Holds, Live
    <2>2. Holds(jobs[u], m) = IF x.month = m THEN x.validRows ELSE 0
      BY DEF Holds, Live
    <2>3. /\ FreeOf(j, m) = IF x.month = m THEN Less(x.successfulRows, x.freeRows) ELSE 0
          /\ FreeOf(jobs[u], m) = IF x.month = m THEN x.freeRows ELSE 0
      BY <1>2 DEF FreeOf, FreeUsed, Live
    <2> QED BY <1>1, <1>4, <2>1, <2>2, <2>3 DEF Positive, Less
  <1>9. Books'
    <2>1. active' \in Uploads \cup {NoUpload}
      BY <1>4
    <2> QED BY <1>2, <1>3, <1>6, <1>7, <1>8, <2>1, BooksKept
  <1>10. Payments'
    BY <1>2, <1>3, PaymentsKept DEF UploadInv, Payments, Charged, NothingBeforePayment
  <1> QED BY <1>9, <1>10

(* A quote reserves rows of the month, some of them free, and credits. *)
LEMMA QuoteFacts ==
  ASSUME UploadInv, NEW rows \in Sheets, NEW allowance \in {0, Allowance}
  PROVE  LET j == Quote(rows, allowance)
         IN /\ JobOK(j) /\ j.status = "quoted" /\ j.month = Month /\ j.validRows = rows
            /\ j.creditsUsed <= credits /\ rows \in Nat /\ j.freeRows \in Nat
            /\ j.freeRows = 0 \/ count[Month] + j.freeRows <= Allowance
  <1> DEFINE j == Quote(rows, allowance)
             free == FreeRows(rows, count[Month], allowance)
             have == CreditsUsed(credits, rows - free)
  <1>1. /\ rows \in Nat /\ Month \in Months /\ credits \in Nat /\ count[Month] \in Nat
        /\ Allowance \in Nat
    BY UploadConstants DEF UploadInv, Books, Around, Month, Months
  <1>2. free \in 0 .. rows /\ (free = 0 \/ count[Month] + free <= Allowance)
    BY <1>1 DEF FreeRows, Less, Positive
  <1>3. have \in 0 .. rows - free /\ have <= credits
    BY <1>1, <1>2 DEF CreditsUsed, Less
  <1>4. j = [status |-> "quoted", month |-> Month, validRows |-> rows, freeRows |-> free,
             creditsUsed |-> have, nextRow |-> 0, successfulRows |-> 0]
    <2>1. j = [NoJob EXCEPT !.status = "quoted", !.month = Month, !.validRows = rows,
                            !.freeRows = free, !.creditsUsed = have]
      BY DEF Quote
    <2> HIDE DEF j, free, have
    <2> QED BY <2>1 DEF NoJob
  <1> HIDE DEF j, free, have
  <1>5. /\ j \in Job /\ j.status = "quoted" /\ j.month = Month /\ j.validRows = rows
        /\ j.freeRows = free /\ j.creditsUsed = have /\ j.nextRow = 0 /\ j.successfulRows = 0
    BY <1>1, <1>2, <1>3, <1>4 DEF Job, Status
  <1>6. JobOK(j)
    BY <1>1, <1>2, <1>3, <1>5 DEF JobOK, PaidRows
  <1> QED BY <1>1, <1>2, <1>3, <1>5, <1>6 DEF j

LEMMA CreateKeeps ==
  ASSUME UploadInv, NEW u \in Uploads, NEW rows \in Sheets, NEW allowance \in {0, Allowance},
         Create(u, rows, allowance)
  PROVE  UploadInv'
  <1> DEFINE j == Quote(rows, allowance)
  <1>1. /\ JobOK(jobs[u]) /\ credits \in Nat /\ count \in [Months -> Nat]
        /\ Month \in Months /\ jobs[u] = NoJob
    BY UploadConstants DEF UploadInv, Books, Around, Month, Months, Create, JobOK
  <1>2. /\ JobOK(j) /\ j.status = "quoted" /\ j.month = Month /\ j.validRows = rows
        /\ j.creditsUsed <= credits /\ rows \in Nat /\ j.freeRows \in Nat
        /\ j.freeRows = 0 \/ count[Month] + j.freeRows <= Allowance
    BY QuoteFacts
  <1>3. /\ jobs' = [jobs EXCEPT ![u] = j] /\ active' = u
        /\ credits' = credits - j.creditsUsed /\ count' = [count EXCEPT ![Month] = @ + rows]
        /\ attempts' = attempts + 1 /\ alarm' = TRUE
        /\ UNCHANGED <<pruned, handler, clock, session, tab, api, failures>>
    BY DEF Create
  <1> HIDE DEF j
  <1>4. Taken(j) = j.creditsUsed /\ Brought(j) = 0 /\ Taken(jobs[u]) = 0 /\ Brought(jobs[u]) = 0
    BY <1>1, <1>2 DEF Taken, Brought, NoJob
  <1>5. /\ credits' \in Nat
        /\ credits' + Taken(j) - Brought(j) = credits + Taken(jobs[u]) - Brought(jobs[u])
    BY <1>1, <1>2, <1>3, <1>4 DEF JobOK, Job
  <1>6. count' \in [Months -> Nat]
    BY <1>1, <1>2, <1>3
  <1>7. ASSUME NEW m \in Months
        PROVE  /\ count'[m] - Holds(j, m) >= count[m] - Holds(jobs[u], m)
               /\ FreeOf(j, m) <= FreeOf(jobs[u], m) \/ count[m] + FreeOf(j, m) <= Allowance
    <2>1. Holds(j, m) = IF Month = m THEN rows ELSE 0
      BY <1>2 DEF Holds, Live
    <2>2. FreeOf(j, m) = IF Month = m THEN j.freeRows ELSE 0
      BY <1>2 DEF FreeOf, FreeUsed, Live
    <2>3. Holds(jobs[u], m) = 0 /\ FreeOf(jobs[u], m) = 0
      BY <1>1 DEF Holds, FreeOf, FreeUsed, Live, NoJob
    <2> QED BY <1>1, <1>2, <1>3, <2>1, <2>2, <2>3
  <1>8. Books'
    <2>1. active' \in Uploads \cup {NoUpload} /\ UNCHANGED freeCalls
      BY <1>3 DEF api
    <2> QED BY <1>2, <1>3, <1>5, <1>6, <1>7, <2>1, BooksKept
  <1>9. Payments'
    <2>1. ChargeCents(jobs[u]) = 0
      BY <1>1 DEF ChargeCents, Uncovered, PaidRows, NoJob
    <2>2. session[u] = "none"
      BY <2>1 DEF UploadInv, Payments, Charged
    <2> QED BY <1>2, <1>3, <2>2, PaymentsKept
  <1>10. Around'
    <2>1. \A v \in Uploads : jobs[v].status = "processing" => jobs'[v] = jobs[v]
      BY <1>1, <1>3 DEF UploadInv, Books, NoJob
    <2> QED BY <1>3, <2>1 DEF UploadInv, Around, Places, clock, api
  <1> QED BY <1>8, <1>9, <1>10 DEF UploadInv

(* A call of the API counts one, and is free only below the allowance. *)
LEMMA ConsumeKeeps ==
  ASSUME UploadInv, NEW free \in BOOLEAN, Consume(free)
  PROVE  UploadInv'
  <1>1. /\ IsFiniteSet(Uploads) /\ \A u \in Uploads : JobOK(jobs[u])
        /\ count \in [Months -> Nat] /\ freeCalls \in [Months -> Nat]
        /\ Month \in Months /\ Allowance \in Nat
    BY UploadConstants DEF UploadInv, Books, Around, Month, Months
  <1>2. /\ free => count[Month] < Allowance
        /\ count' = [count EXCEPT ![Month] = @ + 1]
        /\ freeCalls' = IF free THEN [freeCalls EXCEPT ![Month] = @ + 1] ELSE freeCalls
        /\ apiCalls' = apiCalls + 1
        /\ UNCHANGED <<attempts, credits, active, jobs, pruned, alarm, handler, clock, session,
                       tab, failures>>
    BY DEF Consume
  <1>3. count' \in [Months -> Nat] /\ freeCalls' \in [Months -> Nat]
    BY <1>1, <1>2
  <1>4. ASSUME NEW m \in Months
        PROVE  /\ freeCalls'[m] + Holding(m) <= count'[m]
               /\ freeCalls'[m] + Freed(m) <= Allowance
    <2> DEFINE f == [u \in Uploads |-> Holds(jobs[u], m)]
               a == [u \in Uploads |-> FreeOf(jobs[u], m)]
    <2>1. \A u \in Uploads : f[u] \in Nat /\ a[u] \in Nat /\ a[u] <= f[u]
      BY <1>1, FigureTypes
    <2> HIDE DEF f, a
    <2>2. Total(f, Uploads) \in Nat /\ Total(a, Uploads) \in Nat
          /\ Total(a, Uploads) <= Total(f, Uploads)
      BY <1>1, <2>1, UnitsFinite, TotalWithin
    <2>3. /\ Holding(m) \in Nat /\ Freed(m) \in Nat /\ Freed(m) <= Holding(m)
      BY <2>2 DEF Holding, Freed, f, a
    <2>4. freeCalls[m] + Holding(m) <= count[m] /\ freeCalls[m] + Freed(m) <= Allowance
      BY DEF UploadInv, Books, Metered
    <2> QED BY <1>1, <1>2, <2>3, <2>4
  <1>5. \A m \in Months : Holding(m)' = Holding(m) /\ Freed(m)' = Freed(m)
    BY <1>2 DEF Holding, Freed
  <1>6. Books'
    BY <1>2, <1>3, <1>4, <1>5 DEF UploadInv, Books, Metered, CreditsConserved
  <1>7. Payments'
    BY <1>2, PaymentsUntouched
  <1>8. Around'
    BY <1>2 DEF UploadInv, Around, Places, clock
  <1> QED BY <1>6, <1>7, <1>8 DEF UploadInv

-----------------------------------------------------------------------------
(* The steps *)

(* What an alarm leaves when it is done, or lost before its end. *)
LEMMA FinishesAround ==
  ASSUME UploadInv, Finishes, UNCHANGED <<attempts, clock, tab, api>>
  PROVE  Around'
  <1>1. /\ handler' = Rests /\ alarm' \in BOOLEAN /\ pruned' \subseteq Uploads /\ failures' \in Nat
    <2>1. alarm' \in BOOLEAN
      BY Zenon DEF Finishes, Reschedules
    <2>2. handler' = Rests /\ failures' \in Nat
      BY DEF Finishes, Fails, UploadInv, Around
    <2>3. old \subseteq Uploads /\ pruned \subseteq Uploads
      BY DEF UploadInv, Around
    <2>4. pruned' \subseteq Uploads
      BY <2>3 DEF Finishes
    <2> QED BY <2>1, <2>2, <2>4
  <1> QED BY <1>1 DEF Rests, UploadInv, Around, Places, clock, api

(* A step that leaves alarm and tabs alone keeps where they are, as long as *)
(* no job that is being processed changes.                                  *)
LEMMA AroundKept ==
  ASSUME UploadInv, UNCHANGED <<handler, tab, day, old, apiCalls, failures>>, attempts' \in Nat,
         pruned' \subseteq Uploads, late' \subseteq Uploads, alarm' \in BOOLEAN,
         \A u \in Uploads : jobs[u].status = "processing" => jobs'[u] = jobs[u]
  PROVE  Around'
  BY DEF UploadInv, Around, Places

LEMMA PaidKeeps ==
  ASSUME UploadInv, NEW u \in Uploads, Paid(u)
  PROVE  UploadInv'
  <1>1. Books' /\ Payments'
    BY ActivateKeeps DEF Paid, api
  <1>2. Around'
    BY AroundKept DEF Paid, Activates, clock, api, UploadInv, Books, Around
  <1> QED BY <1>1, <1>2 DEF UploadInv

LEMMA CancelKeeps ==
  ASSUME UploadInv, NEW u \in Uploads, Cancel(u)
  PROVE  UploadInv'
  <1>1. Books' /\ Payments'
    BY ReleaseKeeps DEF Cancel, Cancellable, api, UploadInv, Payments, CheckoutHeldUntilStripe
  <1>2. Around'
    BY AroundKept DEF Cancel, Cancellable, Releases, clock, api, UploadInv, Books, Around
  <1> QED BY <1>1, <1>2 DEF UploadInv

LEMMA TabReadsKeeps ==
  ASSUME UploadInv, NEW t \in Tabs, NEW u \in Uploads, TabReads(t, u)
  PROVE  UploadInv'
  <1>1. Books' /\ Payments'
    BY BooksUntouched, PaymentsUntouched DEF TabReads, object, api
  <1>2. Around'
    BY DEF TabReads, object, clock, api, UploadInv, Around, Places
  <1> QED BY <1>1, <1>2 DEF UploadInv

LEMMA TabOpensKeeps ==
  ASSUME UploadInv, NEW t \in Tabs, TabOpensSession(t)
  PROVE  UploadInv'
  <1> DEFINE u == tab[t].upload
  <1>1. u \in Uploads /\ ChargeCents(jobs[u]) > 0
    BY DEF TabOpensSession, UploadInv, Around, Places
  <1>2. /\ session' = session \/ (session[u] = "none" /\ session' = [session EXCEPT ![u] = "open"])
        /\ UNCHANGED <<object, handler, clock, api, failures>>
    BY DEF TabOpensSession
  <1>3. Books'
    BY <1>2, BooksUntouched DEF object, api
  <1>4. Payments'
    BY <1>1, <1>2 DEF object, UploadInv, Payments, Charged, CheckoutHeldUntilStripe,
                      NothingBeforePayment
  <1>5. Around'
    <2>1. tab' = [tab EXCEPT ![t].stage = "opened"] \/ tab' = [tab EXCEPT ![t] = Nowhere]
      BY DEF TabOpensSession, Leaves
    <2>2. /\ tab' \in [Tabs -> [stage : {"idle", "read", "opened"}, upload : Uploads \cup {NoUpload}]]
          /\ \A s \in Tabs : tab'[s].stage # "idle" => tab'[s].upload \in Uploads
      BY <1>1, <2>1 DEF Nowhere, UploadInv, Around, Places
    <2> QED BY <1>2, <2>2 DEF object, clock, api, UploadInv, Around, Places
  <1> QED BY <1>3, <1>4, <1>5 DEF UploadInv

(* /uploads/start: without a charge the job is processed, as its credits    *)
(* cover what is not free; with one it waits for the payment.               *)
LEMMA TabStartsKeeps ==
  ASSUME UploadInv, NEW t \in Tabs, TabStarts(t)
  PROVE  UploadInv'
  <1> DEFINE u == tab[t].upload
             j == [jobs[u] EXCEPT !.status = StartedAs(u)]
  <1>1. u \in Uploads
    BY DEF TabStarts, UploadInv, Around, Places
  <1>2. /\ tab' = [tab EXCEPT ![t] = Nowhere]
        /\ UNCHANGED <<attempts, count, credits, active, pruned, handler, clock, api, failures>>
    BY DEF TabStarts, Leaves
  <1>3. /\ tab' \in [Tabs -> [stage : {"idle", "read", "opened"}, upload : Uploads \cup {NoUpload}]]
        /\ \A s \in Tabs : tab'[s].stage # "idle" => tab'[s].upload \in Uploads
    BY <1>2 DEF Nowhere, UploadInv, Around, Places
  <1>4. CASE ~Startable(u)
    <2>1. UNCHANGED <<jobs, alarm, session>>
      BY <1>4 DEF TabStarts
    <2>2. Books' /\ Payments'
      BY <1>2, <2>1, BooksUntouched, PaymentsUntouched DEF api
    <2>3. Around'
      BY <1>2, <1>3, <2>1 DEF clock, api, UploadInv, Around, Places
    <2> QED BY <2>2, <2>3 DEF UploadInv
  <1>5. CASE Startable(u)
    <2>1. /\ jobs[u].status \in {"quoted", "checkout"} /\ JobOK(jobs[u]) /\ alarm' = TRUE
          /\ jobs' = [jobs EXCEPT ![u] = j]
          /\ session' = session \/ (session[u] = "open" /\ session' = [session EXCEPT ![u] = "handed"])
      BY <1>1, <1>5 DEF TabStarts, Startable, UploadInv, Books
    <2>2. /\ JobOK(j) /\ j.status = StartedAs(u) /\ j.month = jobs[u].month
          /\ j.validRows = jobs[u].validRows /\ j.freeRows = jobs[u].freeRows
          /\ j.creditsUsed = jobs[u].creditsUsed
          /\ ChargeCents(j) = ChargeCents(jobs[u]) /\ PaidRows(j) = PaidRows(jobs[u])
      BY <2>1, StatusOnly DEF StartedAs, Status
    <2>3. /\ ChargeCents(jobs[u]) \in Nat
          /\ ChargeCents(jobs[u]) = 0 => PaidRows(jobs[u]) = jobs[u].creditsUsed
          /\ jobs[u].creditsUsed \in Nat /\ PaidRows(jobs[u]) \in Nat
      BY <2>1, ChargeFacts DEF Uncovered, JobOK, Job
    <2> HIDE DEF j
    <2>4. /\ Taken(j) = Taken(jobs[u]) /\ Taken(jobs[u]) \in Nat
          /\ Brought(j) = 0 /\ Brought(jobs[u]) = 0
      BY <2>1, <2>2, <2>3 DEF StartedAs, Taken, Brought
    <2>5. /\ credits \in Nat /\ count \in [Months -> Nat] /\ active \in Uploads \cup {NoUpload}
      BY DEF UploadInv, Books
    <2>6. ASSUME NEW m \in Months
          PROVE  /\ count'[m] - Holds(j, m) >= count[m] - Holds(jobs[u], m)
                 /\ FreeOf(j, m) <= FreeOf(jobs[u], m)
      <3>1. Holds(jobs[u], m) \in Nat /\ FreeOf(jobs[u], m) \in Nat
        BY <2>1, FigureTypes
      <3>2. Holds(j, m) = Holds(jobs[u], m) /\ FreeOf(j, m) = FreeOf(jobs[u], m)
        BY <2>1, <2>2 DEF StartedAs, Holds, FreeOf, FreeUsed, Live
      <3> QED BY <1>2, <2>5, <3>1, <3>2
    <2>7. Books'
      <3>1. /\ credits' \in Nat /\ count' \in [Months -> Nat] /\ UNCHANGED freeCalls
            /\ active' \in Uploads \cup {NoUpload}
            /\ credits' + Taken(j) - Brought(j) = credits + Taken(jobs[u]) - Brought(jobs[u])
        BY <1>2, <2>4, <2>5 DEF api
      <3> HIDE DEF u
      <3> QED BY <1>1, <2>1, <2>2, <2>6, <3>1, BooksKept
    <2>8. Payments'
      <3>1. session[u] # "none" => j.status = "checkout" /\ ChargeCents(j) > 0
        BY <1>1, <2>2 DEF StartedAs, UploadInv, Payments, Charged
      <3>2. j.status \in {"checkout", "processing"} /\ (j.status = "processing" => ChargeCents(j) = 0)
        BY <2>2, <2>3 DEF StartedAs
      <3>3. session \in [Uploads -> {"none", "open", "handed", "paid", "expired"}]
            /\ jobs \in [Uploads -> Job]
        BY DEF UploadInv, Payments, Books
      <3> HIDE DEF u
      <3>4. /\ session' \in [Uploads -> {"none", "open", "handed", "paid", "expired"}]
            /\ Charged' /\ CheckoutHeldUntilStripe'
        BY <1>1, <2>1, <3>1, <3>2, <3>3 DEF UploadInv, Payments, Charged, CheckoutHeldUntilStripe
      <3>5. NothingBeforePayment'
        BY <1>1, <2>1, <3>1, <3>2, <3>3 DEF UploadInv, Payments, NothingBeforePayment
      <3> QED BY <3>4, <3>5 DEF Payments
    <2>9. Around'
      <3>1. \A v \in Uploads : jobs[v].status = "processing" => jobs'[v] = jobs[v]
        BY <2>1 DEF UploadInv, Books
      <3> QED BY <1>2, <1>3, <2>1, <3>1 DEF clock, api, UploadInv, Around, Places
    <2> QED BY <2>7, <2>8, <2>9 DEF UploadInv
  <1> QED BY <1>4, <1>5

LEMMA AlarmFiresKeeps ==
  ASSUME UploadInv, AlarmFires
  PROVE  UploadInv'
  <1>1. UNCHANGED <<attempts, clock, session, tab, api, freeCalls>>
    BY DEF AlarmFires, api
  <1>2. CASE active = NoUpload /\ UNCHANGED <<jobs, count, credits, active>> /\ Finishes
    BY <1>1, <1>2, BooksUntouched, PaymentsUntouched, FinishesAround DEF UploadInv
  <1>3. ASSUME NEW u \in Uploads, AlarmActs(u) PROVE UploadInv'
    <2>1. Around'
      BY <1>1, <1>3, FinishesAround DEF AlarmActs
    <2>2. Books' /\ Payments'
      <3>1. CASE jobs[u].status = "quoted" /\ Releases(u)
        BY <1>1, <3>1, ReleaseKeeps DEF UploadInv, Payments, CheckoutHeldUntilStripe
      <3>2. CASE jobs[u].status = "processing" /\ Settles(u, jobs[u])
        <4>1. JobOK(jobs[u])
          BY DEF UploadInv, Books
        <4> QED BY <1>1, <3>2, <4>1, SettleKeeps
      <3>3. CASE UNCHANGED <<jobs, count, credits, active>>
        BY <1>1, <3>3, BooksUntouched, PaymentsUntouched
      <3> QED BY <1>3, <3>1, <3>2, <3>3 DEF AlarmActs
    <2> QED BY <2>1, <2>2 DEF UploadInv
  <1>4. ASSUME NEW u \in Uploads, AlarmAwaits(u) PROVE UploadInv'
    <2>1. Books' /\ Payments'
      BY <1>1, <1>4, BooksUntouched, PaymentsUntouched DEF AlarmAwaits
    <2>2. /\ handler' \in [stage : {"idle", "asking", "looking"}, upload : Uploads \cup {NoUpload},
                           left : Nat]
          /\ handler'.upload = u
          /\ handler'.stage = "looking" =>
               jobs[u].status = "processing" /\ jobs[u].nextRow < jobs[u].validRows
      BY <1>4, UploadConstants DEF AlarmAwaits
    <2>3. Around'
      BY <1>1, <1>4, <2>2 DEF AlarmAwaits, clock, api, UploadInv, Around, Places
    <2> QED BY <2>1, <2>3 DEF UploadInv
  <1> QED BY <1>2, <1>3, <1>4 DEF AlarmFires, UploadInv, Books

LEMMA StripeAnswersKeeps ==
  ASSUME UploadInv, StripeAnswers
  PROVE  UploadInv'
  <1> DEFINE u == handler.upload
  <1>1. u \in Uploads /\ UNCHANGED <<attempts, clock, session, tab, api, freeCalls>>
    BY DEF StripeAnswers, UploadInv, Around, Places, api
  <1>2. CASE session[u] = "paid" /\ Activates(u) /\ Finishes
    BY <1>1, <1>2, ActivateKeeps, FinishesAround DEF UploadInv
  <1>3. CASE /\ session[u] = "expired" /\ jobs[u].status \in {"quoted", "checkout"} /\ Releases(u)
             /\ Finishes
    BY <1>1, <1>3, ReleaseKeeps, FinishesAround DEF UploadInv
  <1>4. CASE UNCHANGED <<jobs, count, credits, active>> /\ Finishes
    BY <1>1, <1>4, BooksUntouched, PaymentsUntouched, FinishesAround DEF UploadInv
  <1>5. CASE /\ Fails /\ handler' = Rests
             /\ UNCHANGED <<jobs, count, credits, active, pruned, alarm>>
    <2>1. Books' /\ Payments'
      BY <1>1, <1>5, BooksUntouched, PaymentsUntouched
    <2>2. Around'
      BY <1>1, <1>5 DEF Fails, Rests, clock, api, UploadInv, Around, Places
    <2> QED BY <2>1, <2>2 DEF UploadInv
  <1> QED BY <1>2, <1>3, <1>4, <1>5 DEF StripeAnswers

LEMMA RowLookedUpKeeps ==
  ASSUME UploadInv, NEW found \in BOOLEAN, RowLookedUp(found)
  PROVE  UploadInv'
  <1> DEFINE u == handler.upload
             j == [jobs[u] EXCEPT !.nextRow = @ + 1,
                                  !.successfulRows = IF found THEN @ + 1 ELSE @]
  <1>1. /\ u \in Uploads /\ UNCHANGED <<attempts, clock, session, tab, api, freeCalls>>
        /\ jobs[u].status = "processing" /\ jobs[u].nextRow < jobs[u].validRows
        /\ handler.stage = "looking"
    BY DEF RowLookedUp, UploadInv, Around, Places, api
  <1>2. /\ JobOK(j) /\ j.status = "processing" /\ j.month = jobs[u].month
        /\ j.validRows = jobs[u].validRows /\ j.freeRows = jobs[u].freeRows
        /\ ChargeCents(j) = ChargeCents(jobs[u]) /\ PaidRows(j) = PaidRows(jobs[u])
        /\ j.nextRow = jobs[u].nextRow + 1
    <2> HIDE DEF u
    <2> QED BY <1>1, ProgressFacts
  <1>3. \/ /\ j.nextRow < j.validRows /\ handler.left > 1
           /\ jobs' = [jobs EXCEPT ![u] = j] /\ handler' = [handler EXCEPT !.left = @ - 1]
           /\ UNCHANGED <<count, credits, active, pruned, alarm, failures>>
        \/ jobs' = [jobs EXCEPT ![u] = j] /\ UNCHANGED <<count, credits, active>> /\ Finishes
        \/ Settles(u, j) /\ Finishes
        \/ /\ Fails /\ jobs' = [jobs EXCEPT ![u] = j] /\ handler' = Rests
           /\ UNCHANGED <<count, credits, active, pruned, alarm>>
    BY DEF RowLookedUp
  <1>4. jobs \in [Uploads -> Job]
    BY DEF UploadInv, Books
  <1> HIDE DEF u, j
  <1>5. CASE jobs' = [jobs EXCEPT ![u] = j] /\ UNCHANGED <<count, credits, active>>
    <2>1. Books' /\ Payments'
      BY <1>1, <1>2, <1>5, ProgressKeeps
    <2>2. CASE /\ j.nextRow < j.validRows /\ handler.left > 1
               /\ handler' = [handler EXCEPT !.left = @ - 1]
               /\ UNCHANGED <<pruned, alarm, failures>>
      <3>1. /\ handler' \in [stage : {"idle", "asking", "looking"},
                             upload : Uploads \cup {NoUpload}, left : Nat]
            /\ handler'.stage = "looking" /\ handler'.upload = u
        BY <1>1, <2>2 DEF UploadInv, Around, u
      <3>2. jobs'[u] = j
        BY <1>1, <1>4, <1>5
      <3>3. Around'
        BY <1>1, <1>2, <2>2, <3>1, <3>2 DEF clock, api, UploadInv, Around, Places
      <3> QED BY <2>1, <3>3 DEF UploadInv
    <2>3. CASE Finishes
      BY <1>1, <2>1, <2>3, FinishesAround DEF UploadInv
    <2>4. CASE Fails /\ handler' = Rests /\ UNCHANGED <<pruned, alarm>>
      <3>1. Around'
        BY <1>1, <2>4 DEF Fails, Rests, clock, api, UploadInv, Around, Places
      <3> QED BY <2>1, <3>1 DEF UploadInv
    <2>5. CASE Settles(u, j) /\ Finishes
      BY <1>1, <2>1, <2>5, FinishesAround DEF UploadInv
    <2> QED BY <1>3, <2>2, <2>3, <2>4, <2>5
  <1>6. CASE Settles(u, j) /\ Finishes
    BY <1>1, <1>2, <1>6, SettleKeeps, FinishesAround DEF UploadInv
  <1> QED BY <1>3, <1>5, <1>6

(* The rest touches neither jobs nor counters. *)
LEMMA OthersKeep ==
  ASSUME UploadInv, Lost \/ NewDay \/ \E u \in Uploads : DeadlinePasses(u) \/ RetentionPasses(u)
  PROVE  UploadInv'
  <1>1. Books' /\ Payments'
    <2>1. UNCHANGED <<jobs, credits, count, freeCalls, active, session>>
      BY DEF Lost, NewDay, DeadlinePasses, RetentionPasses, object, api
    <2> QED BY <2>1, BooksUntouched, PaymentsUntouched
  <1>2. CASE Lost
    <2>1. /\ handler' = Rests /\ failures' = failures + 1 /\ UNCHANGED <<object, clock, tab, api>>
      BY <1>2 DEF Lost, Fails
    <2>2. Places'
      BY <2>1 DEF Rests, UploadInv, Around, Places
    <2> QED BY <1>1, <2>1, <2>2 DEF Rests, object, clock, api, UploadInv, Around
  <1>3. CASE NewDay
    <2>1. /\ day' \in 1 .. LastDay /\ attempts' = 0
          /\ UNCHANGED <<jobs, pruned, alarm, handler, late, old, tab, api, failures>>
      BY <1>3, UploadConstants DEF NewDay, UploadInv, Around
    <2>2. Places'
      BY <2>1 DEF UploadInv, Around, Places
    <2> QED BY <1>1, <2>1, <2>2 DEF api, UploadInv, Around
  <1>4. CASE \E u \in Uploads : DeadlinePasses(u) \/ RetentionPasses(u)
    <2>1. /\ late' \subseteq Uploads /\ old' \subseteq Uploads
          /\ UNCHANGED <<object, handler, day, tab, api, failures>>
      BY <1>4 DEF DeadlinePasses, RetentionPasses, UploadInv, Around
    <2>2. Places'
      BY <2>1 DEF object, UploadInv, Around, Places
    <2> QED BY <1>1, <2>1, <2>2 DEF object, api, UploadInv, Around
  <1> QED BY <1>1, <1>2, <1>3, <1>4 DEF UploadInv

(* A customer pays a session they were handed; one that is not paid expires. *)
LEMMA StripeMovesKeeps ==
  ASSUME UploadInv, NEW u \in Uploads, CustomerPays(u) \/ SessionExpires(u)
  PROVE  UploadInv'
  <1>1. /\ session[u] \in {"open", "handed"}
        /\ \/ session[u] = "handed" /\ session' = [session EXCEPT ![u] = "paid"]
           \/ session' = [session EXCEPT ![u] = "expired"]
        /\ UNCHANGED <<object, handler, clock, tab, api, failures>>
    BY DEF CustomerPays, SessionExpires
  <1>2. Books'
    BY <1>1, BooksUntouched DEF object, api
  <1>3. Payments'
    BY <1>1 DEF object, UploadInv, Payments, Charged, CheckoutHeldUntilStripe,
                NothingBeforePayment
  <1>4. Around'
    BY <1>1 DEF object, clock, api, UploadInv, Around, Places
  <1> QED BY <1>2, <1>3, <1>4 DEF UploadInv

(* Every step keeps the invariant. *)
LEMMA UploadInvKept ==
  ASSUME UploadInv, [Next]_vars
  PROVE  UploadInv'
  <1>1. CASE UNCHANGED vars
    <2>1. Books' /\ Payments'
      BY <1>1, BooksUntouched, PaymentsUntouched DEF vars, object, api
    <2>2. Around'
      BY <1>1 DEF vars, object, clock, api, UploadInv, Around, Places
    <2> QED BY <2>1, <2>2 DEF UploadInv
  <1> QED BY <1>1, CreateKeeps, PaidKeeps, CancelKeeps, ConsumeKeeps, TabReadsKeeps, TabOpensKeeps,
             TabStartsKeeps, AlarmFiresKeeps, StripeAnswersKeeps, RowLookedUpKeeps, OthersKeep,
             StripeMovesKeeps DEF Next

(* The invariant holds at the start. *)
LEMMA UploadInvStarts == Init => UploadInv
  <1> SUFFICES ASSUME Init PROVE UploadInv
    OBVIOUS
  <1>1. /\ NoJob \in Job /\ NoJob.status = "none" /\ JobOK(NoJob) /\ IsFiniteSet(Uploads)
        /\ 1 \in 1 .. LastDay /\ Allowance \in Nat
    BY UploadConstants DEF NoJob, JobOK, Job, Months, Status, PaidRows
  <1>2. /\ Taken(NoJob) = 0 /\ Brought(NoJob) = 0
        /\ \A m \in Months : Holds(NoJob, m) = 0 /\ FreeOf(NoJob, m) = 0
    BY <1>1 DEF Taken, Brought, Holds, FreeOf, FreeUsed, Live
  <1>3. ASSUME NEW f, \A u \in Uploads : f[u] = 0 PROVE Total(f, Uploads) = 0
    <2>1. Units(f, Uploads) = {}
      BY <1>3, UnitIs
    <2> QED BY <2>1, FS_EmptySet DEF Total
  <1>4. \A u \in Uploads : jobs[u] = NoJob
    BY DEF Init
  <1>5. CreditsConserved
    <2>1. Total([u \in Uploads |-> Taken(jobs[u])], Uploads) = 0
      BY <1>2, <1>3, <1>4
    <2>2. Total([u \in Uploads |-> Brought(jobs[u])], Uploads) = 0
      BY <1>2, <1>3, <1>4
    <2> QED BY <2>1, <2>2 DEF CreditsConserved, Init
  <1>6. Metered
    <2>1. ASSUME NEW m \in Months PROVE Holding(m) = 0 /\ Freed(m) = 0
      BY <1>2, <1>3, <1>4 DEF Holding, Freed
    <2> QED BY <1>1, <2>1 DEF Metered, Init
  <1>7. Books
    BY <1>1, <1>4, <1>5, <1>6 DEF Books, Init
  <1>8. Payments
    BY <1>1, <1>4 DEF Payments, Charged, CheckoutHeldUntilStripe, NothingBeforePayment, Init
  <1>9. Around
    BY <1>1 DEF Around, Places, Init, Rests, Nowhere
  <1> QED BY <1>7, <1>8, <1>9 DEF UploadInv

(* No credit appears or vanishes, nothing is processed unpaid, what can be   *)
(* paid is held, and uploads and API calls together get no more for free    *)
(* than the month's allowance, for any sheets, prices and failures          *)
(* (upload-jobs.ts).                                                        *)
THEOREM BooksAreBalanced == Spec => []BooksBalance
  <1>1. Init => UploadInv
    BY UploadInvStarts
  <1>2. UploadInv /\ [Next]_vars => UploadInv'
    BY UploadInvKept
  <1>3. UploadInv => BooksBalance
    <2> SUFFICES ASSUME UploadInv, NEW m \in Months
                 PROVE  freeCalls[m] + Total([u \in Uploads |-> FreeUsed(jobs[u])],
                                             {u \in Uploads : jobs[u].month = m}) <= Allowance
      BY DEF UploadInv, Books, Payments, BooksBalance, PaidWorkOnly, FreeWithinAllowance
    <2> DEFINE T == {u \in Uploads : jobs[u].month = m}
               f == [u \in Uploads |-> FreeUsed(jobs[u])]
               g == [u \in Uploads |-> FreeOf(jobs[u], m)]
    <2>1. /\ IsFiniteSet(Uploads) /\ freeCalls[m] \in Nat /\ Allowance \in Nat
          /\ \A u \in Uploads : JobOK(jobs[u])
      BY UploadConstants DEF UploadInv, Books
    <2>2. /\ \A u \in Uploads : g[u] \in Nat
          /\ \A u \in T : f[u] \in Nat /\ f[u] <= g[u]
      BY <2>1, FigureTypes DEF FreeOf
    <2>3. freeCalls[m] + Total(g, Uploads) <= Allowance
      BY DEF UploadInv, Books, Metered, Freed
    <2> HIDE DEF f, g
    <2>4. Total(f, T) <= Total(g, Uploads) /\ Total(g, Uploads) \in Nat
      BY <2>1, <2>2, TotalWithin, UnitsFinite
    <2>5. Total(f, T) \in Nat
      <3>1. IsFiniteSet(T)
        BY <2>1, FS_Subset
      <3> QED BY <2>2, <3>1, UnitsFinite
    <2>6. freeCalls[m] + Total(f, T) <= Allowance
      BY <2>1, <2>3, <2>4, <2>5
    <2> QED BY <2>6 DEF f
  <1> QED BY <1>1, <1>2, <1>3, PTL DEF Spec

-----------------------------------------------------------------------------
(* Webhooks *)

HooksSpec == HooksInit /\ [][HooksNext]_hookVars

Event == [hook : Hooks, status : {"pending", "delivered", "failed"}, attempts : Nat]

CronRecord ==
  [step : {"idle", "next", "send", "record", "rewrite"}, todo : SUBSET Events,
   event : Events \cup {NoEvent}, read : Event \cup {NoEvent},
   result : {"none", "ok", "failed"}, kept : SUBSET Events]

HookTypes ==
  /\ configs \subseteq Hooks /\ index \subseteq Events
  /\ stored \in [Events -> Event \cup {NoEvent}]
  /\ adding \in [Events -> [step : {"none", "stored", "read", "done"}, seen : SUBSET Events]]
  /\ cron \in CronRecord
  /\ misses \in Nat
  /\ called \in [Events -> Nat] /\ confirmed \in [Events -> Nat]

(* Before it is created an event is nowhere. *)
Uncreated ==
  \A e \in Events : adding[e].step = "none" =>
    /\ stored[e] = NoEvent /\ called[e] = 0 /\ confirmed[e] = 0
    /\ e \notin cron.todo /\ cron.event # e

(* A copy of an event is worth the calls c and the answers ok it was sent. *)
Worth(x, c, ok) ==
  /\ x.attempts <= c \/ c >= MaxAttempts
  /\ x.status = "failed" => x.attempts >= MaxAttempts
  /\ x.status = "delivered" => ok > 0

StoredWorth == \A e \in Events : stored[e] # NoEvent => Worth(stored[e], called[e], confirmed[e])

InDelivery ==
  cron.step \in {"send", "record"} => /\ cron.event \in Events /\ cron.read # NoEvent
                                      /\ cron.event \notin cron.todo

CopyWorth ==
  /\ cron.step = "send" => Worth(cron.read, called[cron.event], confirmed[cron.event])
  /\ cron.step = "record" =>
       /\ cron.read.attempts + 1 <= called[cron.event] \/ called[cron.event] >= MaxAttempts
       /\ cron.result = "ok" => confirmed[cron.event] > 0

(* While nothing failed every attempt is counted: x is what is known of an  *)
(* event that was sent c times, and confirmed ok times.                     *)
Exact(x, c, ok) ==
  /\ x.attempts = c /\ c <= MaxAttempts /\ ok <= 1
  /\ x.status = "pending" => c < MaxAttempts /\ ok = 0

AllExact ==
  /\ \A e \in Events : called[e] <= MaxAttempts /\ confirmed[e] <= 1
  /\ \A e \in Events : stored[e] # NoEvent /\ ~(cron.step = "record" /\ cron.event = e)
                         => Exact(stored[e], called[e], confirmed[e])
  /\ \A e \in cron.todo : Pending(e)
  /\ cron.step = "send" => stored[cron.event] = cron.read /\ cron.read.status = "pending"
  /\ cron.step = "record" =>
       /\ called[cron.event] = cron.read.attempts + 1
       /\ confirmed[cron.event] = IF cron.result = "ok" THEN 1 ELSE 0

HookInv ==
  /\ HookTypes /\ Uncreated /\ StoredWorth /\ InDelivery /\ CopyWorth
  /\ misses = 0 => AllExact

(* Creating an event keeps the invariant: it has been sent nowhere. *)
LEMMA EventCreateKeeps ==
  ASSUME HookInv, NEW e \in Events, NEW w \in Hooks, CreateWebhookEvent(e, w)
  PROVE  HookInv'
  <1> USE WebhookConstants DEF HookInv, HookTypes
  <1>1. HookTypes'
    BY DEF CreateWebhookEvent, Adds, Writes, Miss, Event
  <1>2. Uncreated'
    BY DEF CreateWebhookEvent, Adds, Writes, Miss, Event, Uncreated, InDelivery, Pending
  <1>3. StoredWorth'
    BY DEF CreateWebhookEvent, Adds, Writes, Miss, Event, Uncreated, StoredWorth, Worth, CopyWorth, InDelivery
  <1>4. InDelivery'
    BY DEF CreateWebhookEvent, Adds, Writes, Miss, Event, Uncreated, InDelivery
  <1>5. CopyWorth'
    BY DEF CreateWebhookEvent, Adds, Writes, Miss, Event, Uncreated, CopyWorth, Worth, InDelivery, StoredWorth
  <1>6. misses' = 0 => AllExact'
    <2> SUFFICES ASSUME misses' = 0 PROVE AllExact'
      OBVIOUS
    <2>1. AllExact /\ stored' = [stored EXCEPT ![e] = [hook |-> w, status |-> "pending", attempts |-> 0]]
      BY DEF CreateWebhookEvent, Writes, Miss
    <2>2. UNCHANGED <<cron, called, confirmed>> /\ e \notin cron.todo /\ cron.event # e /\ called[e] = 0 /\ confirmed[e] = 0
      BY DEF CreateWebhookEvent, Uncreated
    <2> QED BY <2>1, <2>2 DEF AllExact, Exact, Pending, Event, InDelivery
  <1> QED BY <1>1, <1>2, <1>3, <1>4, <1>5, <1>6

(* Reading the index keeps the invariant. *)
LEMMA ReadsIndexKeeps ==
  ASSUME HookInv, NEW e \in Events, ReadsIndex(e)
  PROVE  HookInv'
  <1> USE WebhookConstants DEF HookInv, HookTypes
  <1>1. HookTypes'
    BY DEF ReadsIndex, Reads, Adds, Miss, Event
  <1>2. Uncreated'
    BY DEF ReadsIndex, Reads, Adds, Miss, Event, Uncreated, InDelivery, Pending
  <1>3. StoredWorth'
    BY DEF ReadsIndex, Reads, Adds, Miss, Event, Uncreated, StoredWorth, Worth, CopyWorth, InDelivery
  <1>4. InDelivery'
    BY DEF ReadsIndex, Reads, Adds, Miss, Event, Uncreated, InDelivery
  <1>5. CopyWorth'
    BY DEF ReadsIndex, Reads, Adds, Miss, Event, Uncreated, CopyWorth, Worth, InDelivery, StoredWorth
  <1>6. misses' = 0 => AllExact'
    BY DEF ReadsIndex, Reads, Adds, Miss, Event, Uncreated, InDelivery, AllExact, Exact, Pending
  <1> QED BY <1>1, <1>2, <1>3, <1>4, <1>5, <1>6

(* Writing the index keeps the invariant. *)
LEMMA WritesIndexKeeps ==
  ASSUME HookInv, NEW e \in Events, WritesIndex(e)
  PROVE  HookInv'
  <1> USE WebhookConstants DEF HookInv, HookTypes
  <1>1. HookTypes'
    BY DEF WritesIndex, Writes, Adds, Miss, Event
  <1>2. Uncreated'
    BY DEF WritesIndex, Writes, Adds, Miss, Event, Uncreated, InDelivery, Pending
  <1>3. StoredWorth'
    BY DEF WritesIndex, Writes, Adds, Miss, Event, Uncreated, StoredWorth, Worth, CopyWorth, InDelivery
  <1>4. InDelivery'
    BY DEF WritesIndex, Writes, Adds, Miss, Event, Uncreated, InDelivery
  <1>5. CopyWorth'
    BY DEF WritesIndex, Writes, Adds, Miss, Event, Uncreated, CopyWorth, Worth, InDelivery, StoredWorth
  <1>6. misses' = 0 => AllExact'
    BY DEF WritesIndex, Writes, Adds, Miss, Event, Uncreated, InDelivery, AllExact, Exact, Pending
  <1> QED BY <1>1, <1>2, <1>3, <1>4, <1>5, <1>6

(* Collecting keeps the invariant: what is collected is pending. *)
LEMMA CollectsKeeps ==
  ASSUME HookInv, Collects
  PROVE  HookInv'
  <1> USE WebhookConstants DEF HookInv, HookTypes
  <1> PICK seen \in SUBSET Events :
        cron' = [Idle EXCEPT !.step = "next", !.todo = {e \in seen : Pending(e)}]
    BY DEF Collects
  <1>1. /\ cron' \in CronRecord
        /\ cron'.step = "next" /\ cron'.event = NoEvent
        /\ cron'.todo = {e \in seen : Pending(e)}
    BY DEF CronRecord, Idle
  <1>2. /\ UNCHANGED <<configs, stored, index, adding, called, confirmed>>
        /\ misses' \in Nat /\ (misses' = 0 => misses = 0)
        /\ cron.step = "idle"
    BY DEF Collects, Reads, Miss
  <1>3. HookTypes'
    BY <1>1, <1>2
  <1>4. Uncreated' /\ StoredWorth' /\ InDelivery' /\ CopyWorth'
    BY <1>1, <1>2 DEF Uncreated, StoredWorth, InDelivery, CopyWorth, Pending
  <1>5. misses' = 0 => AllExact'
    BY <1>1, <1>2 DEF AllExact, Pending, Exact, InDelivery
  <1> QED BY <1>3, <1>4, <1>5

(* Taking an event keeps the invariant: the copy is worth what the event is. *)
LEMMA TakesKeeps ==
  ASSUME HookInv, NEW e \in Events, Takes(e)
  PROVE  HookInv'
  <1> USE WebhookConstants DEF HookInv, HookTypes
  <1>1. /\ UNCHANGED <<configs, stored, index, adding, called, confirmed>>
        /\ misses' \in Nat /\ (misses' = 0 => misses = 0)
        /\ cron.step = "next" /\ e \in cron.todo
    BY DEF Takes, Miss
  <1>2. CASE stored[e] # NoEvent /\ cron' = [cron EXCEPT !.step = "send", !.todo = @ \ {e},
                                                        !.event = e, !.read = stored[e]]
    <2>1. /\ cron' \in CronRecord
          /\ cron'.step = "send" /\ cron'.event = e /\ cron'.read = stored[e]
          /\ cron'.todo = cron.todo \ {e}
      BY <1>2 DEF CronRecord
    <2>2. HookTypes'
      BY <1>1, <2>1
    <2>3. Uncreated' /\ StoredWorth' /\ InDelivery' /\ CopyWorth'
      BY <1>1, <1>2, <2>1 DEF Uncreated, StoredWorth, InDelivery, CopyWorth
    <2>4. misses' = 0 => AllExact'
      BY <1>1, <2>1 DEF AllExact, Pending
    <2> QED BY <2>2, <2>3, <2>4
  <1>3. CASE cron' = [cron EXCEPT !.todo = @ \ {e}]
    <2>1. /\ cron' \in CronRecord
          /\ cron'.step = "next" /\ cron'.event = cron.event
          /\ cron'.todo = cron.todo \ {e}
      BY <1>1, <1>3 DEF CronRecord
    <2>2. HookTypes'
      BY <1>1, <2>1
    <2>3. Uncreated' /\ StoredWorth' /\ InDelivery' /\ CopyWorth'
      BY <1>1, <2>1 DEF Uncreated, StoredWorth, InDelivery, CopyWorth
    <2>4. misses' = 0 => AllExact'
      BY <1>1, <2>1 DEF AllExact, Pending
    <2> QED BY <2>2, <2>3, <2>4
  <1> QED BY <1>2, <1>3 DEF Takes

(* Sending keeps the invariant: the call is counted, and its answer. *)
LEMMA SendsKeeps ==
  ASSUME HookInv, Sends
  PROVE  HookInv'
  <1> USE WebhookConstants DEF HookInv, HookTypes
  <1> PICK result \in {"ok", "failed"} :
        /\ cron' = [cron EXCEPT !.step = "record", !.result = result]
        /\ confirmed' = IF result = "ok" THEN [confirmed EXCEPT ![cron.event] = @ + 1] ELSE confirmed
    BY DEF Sends
  <1>1. /\ UNCHANGED <<configs, stored, index, adding, misses>>
        /\ cron.step = "send" /\ cron.event \in Events
        /\ called' = [called EXCEPT ![cron.event] = IF @ > MaxAttempts THEN @ ELSE @ + 1]
    BY DEF Sends, InDelivery
  <1>2. /\ cron' \in CronRecord
        /\ cron'.step = "record" /\ cron'.result = result
        /\ cron'.event = cron.event /\ cron'.read = cron.read /\ cron'.todo = cron.todo
    BY DEF CronRecord
  <1>3. called' \in [Events -> Nat] /\ confirmed' \in [Events -> Nat]
    BY <1>1
  <1>4. HookTypes'
    BY <1>1, <1>2, <1>3
  <1>5. Uncreated' /\ InDelivery'
    BY <1>1, <1>2 DEF Uncreated, InDelivery
  <1>6. StoredWorth'
    BY <1>1, <1>2 DEF StoredWorth, Worth, Event
  <1>7. CopyWorth'
    <2>1. /\ cron.read \in Event
          /\ cron.read.attempts <= called[cron.event] \/ called[cron.event] >= MaxAttempts
      BY <1>1 DEF CopyWorth, Worth, InDelivery, CronRecord
    <2>2. /\ cron.read.attempts + 1 <= called'[cron.event] \/ called'[cron.event] >= MaxAttempts
          /\ result = "ok" => confirmed'[cron.event] > 0
      BY <1>1, <2>1 DEF Event
    <2> QED BY <1>2, <2>2 DEF CopyWorth
  <1>8. misses' = 0 => AllExact'
    BY <1>1, <1>2 DEF AllExact, Exact, Pending, Event, InDelivery
  <1> QED BY <1>4, <1>5, <1>6, <1>7, <1>8

(* Recording keeps the invariant: the verdict is that of the copy and the answer. *)
LEMMA RecordsKeeps ==
  ASSUME HookInv, Records
  PROVE  HookInv'
  <1> USE WebhookConstants DEF HookInv, HookTypes
  <1> DEFINE x == Outcome(cron.read, cron.result)
  <1>1. /\ UNCHANGED <<configs, index, adding, called, confirmed>>
        /\ misses' \in Nat /\ (misses' = 0 => misses = 0)
        /\ cron.step = "record" /\ cron.event \in Events /\ cron.event \notin cron.todo
        /\ cron.read \in Event
        /\ stored' = [stored EXCEPT ![cron.event] = x] \/ (stored' = stored /\ misses' # 0)
    <2>1. Writes(stored' = [stored EXCEPT ![cron.event] = x], UNCHANGED stored)
      BY DEF Records
    <2>2. /\ UNCHANGED <<configs, index, adding, called, confirmed>> /\ cron.step = "record"
      BY DEF Records
    <2>3. /\ cron.event \in Events /\ cron.event \notin cron.todo /\ cron.read \in Event
      BY <2>2 DEF InDelivery, CronRecord
    <2> HIDE DEF x
    <2> QED BY <2>1, <2>2, <2>3 DEF Writes, Miss
  <1>2. /\ cron' \in CronRecord
        /\ cron'.step = "next" /\ cron'.event = NoEvent /\ cron'.todo = cron.todo
    BY DEF Records, CronRecord
  <1>3. /\ x \in Event /\ x.attempts = cron.read.attempts + 1
        /\ x.status = IF cron.result = "ok" THEN "delivered"
                      ELSE IF cron.read.attempts + 1 < MaxAttempts THEN "pending" ELSE "failed"
    <2>1. /\ cron.read.attempts \in Nat /\ cron.read.hook \in Hooks
          /\ cron.read = [hook |-> cron.read.hook, status |-> cron.read.status,
                          attempts |-> cron.read.attempts]
      BY <1>1 DEF Event
    <2>2. CASE cron.result = "ok"
      <3>1. x = [hook |-> cron.read.hook, status |-> "delivered",
                 attempts |-> cron.read.attempts + 1]
        BY <2>1, <2>2 DEF Outcome
      <3> HIDE DEF x
      <3> QED BY <2>1, <2>2, <3>1 DEF Event
    <2>3. CASE cron.result # "ok"
      <3>1. x = [hook |-> cron.read.hook, attempts |-> cron.read.attempts + 1,
                 status |-> IF cron.read.attempts + 1 < MaxAttempts THEN "pending" ELSE "failed"]
        BY <2>1, <2>3 DEF Outcome, Failure, Retries
      <3> HIDE DEF x
      <3> QED BY <2>1, <2>3, <3>1 DEF Event
    <2> QED BY <2>2, <2>3
  <1> HIDE DEF x
  <1>4. HookTypes'
    BY <1>1, <1>2, <1>3
  <1>5. Uncreated' /\ InDelivery' /\ CopyWorth'
    BY <1>1, <1>2 DEF Uncreated, InDelivery, CopyWorth
  <1>6. StoredWorth'
    BY <1>1, <1>2, <1>3 DEF StoredWorth, Worth, CopyWorth, Event
  <1>7. misses' = 0 => AllExact'
    <2> SUFFICES ASSUME misses' = 0 PROVE AllExact'
      OBVIOUS
    <2>1. AllExact /\ stored' = [stored EXCEPT ![cron.event] = x]
      BY <1>1
    <2>2. Exact(x, called[cron.event], confirmed[cron.event])
      BY <1>1, <1>3, <2>1 DEF AllExact, Exact, Event
    <2> QED BY <1>1, <1>2, <2>1, <2>2 DEF AllExact, Pending
  <1> QED BY <1>4, <1>5, <1>6, <1>7

(* Cleaning up keeps the invariant: it only takes events away. *)
LEMMA CleansUpKeeps ==
  ASSUME HookInv, CleansUp
  PROVE  HookInv'
  <1> USE WebhookConstants DEF HookInv, HookTypes
  <1> PICK seen \in SUBSET Events :
        LET gone == {e \in seen \cap aged : stored[e] # NoEvent}
        IN /\ \/ stored' = [e \in Events |-> IF e \in gone THEN NoEvent ELSE stored[e]]
              \/ \E e \in gone : stored' = [f \in Events |->
                                      IF f \in gone \ {e} THEN NoEvent ELSE stored[f]]
           /\ cron' = [Idle EXCEPT !.step = "rewrite", !.kept = seen \ gone]
    BY DEF CleansUp, Reads
  <1>1. /\ UNCHANGED <<configs, index, adding, called, confirmed>>
        /\ misses' \in Nat /\ (misses' = 0 => misses = 0)
        /\ cron.step = "next"
    BY DEF CleansUp, Reads, Miss
  <1>2. /\ cron' \in CronRecord
        /\ cron'.step = "rewrite" /\ cron'.event = NoEvent /\ cron'.todo = {}
    BY DEF CronRecord, Idle
  <1>3. stored' \in [Events -> Event \cup {NoEvent}]
        /\ \A e \in Events : stored'[e] \in {stored[e], NoEvent}
    OBVIOUS
  <1>4. HookTypes'
    BY <1>1, <1>2, <1>3
  <1>5. Uncreated' /\ StoredWorth' /\ InDelivery' /\ CopyWorth'
    BY <1>1, <1>2, <1>3 DEF Uncreated, StoredWorth, InDelivery, CopyWorth
  <1>6. misses' = 0 => AllExact'
    BY <1>1, <1>2, <1>3 DEF AllExact, Exact
  <1> QED BY <1>4, <1>5, <1>6

(* The cron goes idle when it has written the index, or when it dies.       *)
LEMMA IdleKeeps ==
  ASSUME HookInv, cron' = Idle, index' \subseteq Events, misses' \in Nat, misses' = 0 => misses = 0,
         misses' = 0 => cron.step \notin {"send", "record"},
         UNCHANGED <<configs, stored, adding, called, confirmed>>
  PROVE  HookInv'
  <1> USE WebhookConstants DEF HookInv, HookTypes
  <1>1. Idle \in CronRecord /\ Idle.step = "idle" /\ Idle.event = NoEvent /\ Idle.todo = {}
    BY DEF CronRecord, Idle
  <1>2. HookTypes'
    BY <1>1
  <1>3. Uncreated' /\ StoredWorth' /\ InDelivery' /\ CopyWorth'
    BY <1>1 DEF Uncreated, StoredWorth, InDelivery, CopyWorth
  <1>4. misses' = 0 => AllExact'
    BY <1>1 DEF AllExact, Exact
  <1> QED BY <1>2, <1>3, <1>4

(* Every step keeps the invariant. *)
LEMMA HookInvKept ==
  ASSUME HookInv, [HooksNext]_hookVars
  PROVE  HookInv'
  <1>1. ASSUME NEW w \in Hooks, Registers(w) PROVE HookInv'
    BY <1>1 DEF Registers, HookInv, HookTypes, Uncreated, StoredWorth, InDelivery, CopyWorth,
                AllExact, Pending
  <1>2. ASSUME NEW e \in Events, GrowsOld(e) PROVE HookInv'
    BY <1>2 DEF GrowsOld, HookInv, HookTypes, Uncreated, StoredWorth, InDelivery, CopyWorth,
                AllExact, Pending
  <1>3. CASE RewritesIndex
    BY <1>3, IdleKeeps DEF RewritesIndex, Writes, Miss, HookInv, HookTypes, CronRecord
  <1>4. CASE CronDies
    BY <1>4, IdleKeeps DEF CronDies, Miss, HookInv, HookTypes
  <1>5. CASE UNCHANGED hookVars
    BY <1>5 DEF hookVars, HookInv, HookTypes, Uncreated, StoredWorth, InDelivery, CopyWorth,
                AllExact, Pending
  <1>6. CASE Cron
    BY <1>3, <1>6, CollectsKeeps, TakesKeeps, SendsKeeps, RecordsKeeps, CleansUpKeeps DEF Cron
  <1> QED BY <1>1, <1>2, <1>4, <1>5, <1>6, EventCreateKeeps, ReadsIndexKeeps, WritesIndexKeeps
          DEF HooksNext

(* A delivered event was confirmed by its receiver and a failed one was     *)
(* sent as often as it may be, through lost writes and runs of the cron     *)
(* that died after the call; while nothing fails, no receiver is sent what  *)
(* it has confirmed (deliverWebhook, applyWebhookFailure).                  *)
THEOREM OutcomesAreEarned == HooksSpec => []OutcomesEarned
  <1>1. HooksInit => HookInv
    BY WebhookConstants DEF HooksInit, HookInv, HookTypes, Uncreated, StoredWorth, InDelivery,
       CopyWorth, AllExact, Idle, CronRecord
  <1>2. HookInv /\ [HooksNext]_hookVars => HookInv'
    BY HookInvKept
  <1>3. HookInv => OutcomesEarned
    BY WebhookConstants DEF HookInv, HookTypes, StoredWorth, Worth, AllExact, OutcomesEarned, Event
  <1> QED BY <1>1, <1>2, <1>3, PTL DEF HooksSpec

-----------------------------------------------------------------------------
(* Customers and their projection *)

(* What a mutation sets is of the field's kind. *)
Sets(own) ==
  /\ "plan" \in DOMAIN own => own["plan"] \in {"free", "enterprise"}
  /\ "fuse" \in DOMAIN own => own["fuse"] \in Fuses
  /\ "soft" \in DOMAIN own => own["soft"] \in BOOLEAN
  /\ "batch" \in DOMAIN own => own["batch"] \in BOOLEAN
  /\ "stripe" \in DOMAIN own => own["stripe"] \in BOOLEAN

(* A mutation that is alone knows the row as it is. *)
MutationOK(m, known) ==
  /\ m.read \in CustomerRecords /\ Sets(m.own)
  /\ m.step \in {"write", "project"}
  /\ m.alone /\ m.step = "write" => m.read = known
  /\ m.alone /\ m.step = "project" => With(m.read, m.own) = known

Mutations ==
  /\ DOMAIN mutation = Isolates
  /\ \A i \in Isolates : mutation[i] # None => MutationOK(mutation[i], row)
  /\ \A i, j \in Isolates :
       mutation[i] # None /\ mutation[j] # None /\ i # j => ~mutation[i].alone

(* Before there is a row there is nothing to be in step with. *)
InStep ==
  /\ row \in CustomerRecords \cup {None}
  /\ row = None => ~inStep /\ \A i \in Isolates : mutation[i] = None
  /\ ProjectionInStep

ProjectionInv == Mutations /\ InStep

LEMMA WithIsRecord ==
  ASSUME NEW r \in CustomerRecords, NEW own, Sets(own)
  PROVE  With(r, own) \in CustomerRecords
  <1> DEFINE w == With(r, own)
  <1>1. DOMAIN r = {"plan", "fuse", "soft", "batch", "stripe"}
    BY DEF CustomerRecords
  <1>2. w = [f \in {"plan", "fuse", "soft", "batch", "stripe"} |->
               IF f \in DOMAIN own THEN own[f] ELSE r[f]]
    BY <1>1 DEF With
  <1>3. /\ r["plan"] \in {"free", "enterprise"} /\ r["fuse"] \in Fuses \cup {FreeAllowance}
        /\ r["soft"] \in BOOLEAN /\ r["batch"] \in BOOLEAN /\ r["stripe"] \in BOOLEAN
    BY DEF CustomerRecords
  <1>4. /\ w["plan"] \in {"free", "enterprise"} /\ w["fuse"] \in Fuses \cup {FreeAllowance}
        /\ w["soft"] \in BOOLEAN /\ w["batch"] \in BOOLEAN /\ w["stripe"] \in BOOLEAN
    BY <1>2, <1>3 DEF Sets
  <1>5. w = [plan |-> w["plan"], fuse |-> w["fuse"], soft |-> w["soft"],
             batch |-> w["batch"], stripe |-> w["stripe"]]
    BY <1>2
  <1> HIDE DEF w
  <1>6. w \in CustomerRecords
    BY <1>4, <1>5 DEF CustomerRecords
  <1> QED BY <1>6 DEF w

LEMMA WithNothing ==
  ASSUME NEW r \in CustomerRecords
  PROVE  With(r, <<>>) = r /\ Sets(<<>>)
  <1>1. DOMAIN r = {"plan", "fuse", "soft", "batch", "stripe"} /\ r = [f \in DOMAIN r |-> r[f]]
    BY DEF CustomerRecords
  <1>2. DOMAIN <<>> = {}
    OBVIOUS
  <1>3. With(r, <<>>) = [f \in DOMAIN r |-> r[f]]
    BY <1>2 DEF With
  <1> QED BY <1>1, <1>2, <1>3 DEF Sets

LEMMA SettingsSet ==
  ASSUME NEW r \in CustomerRecords, NEW own \in Settings(r)
  PROVE  Sets(own)
  <1>1. CASE own \in [fuse : Fuses, soft : BOOLEAN]
    BY <1>1 DEF Sets
  <1>2. CASE own = [batch |-> TRUE, plan |-> "enterprise"]
    BY <1>2 DEF Sets
  <1>3. CASE own = [batch |-> FALSE, plan |-> r.plan]
    BY <1>3 DEF Sets, CustomerRecords
  <1>4. CASE own = [stripe |-> TRUE]
    BY <1>4 DEF Sets
  <1> QED BY <1>1, <1>2, <1>3, <1>4 DEF Settings

LEMMA ProvisionsKeeps ==
  ASSUME ProjectionInv, NEW i \in Isolates, Provisions(i)
  PROVE  ProjectionInv'
  <1> DEFINE first == [plan |-> "free", fuse |-> FreeAllowance,
                       soft |-> FALSE, batch |-> FALSE, stripe |-> FALSE]
             m == [read |-> first, own |-> <<>>, step |-> "project", alone |-> TRUE]
  <1>1. first \in CustomerRecords /\ row' = first
    BY DEF CustomerRecords, Provisions
  <1>2. first # None
    BY <1>1, ProjectionConstants
  <1>3. mutation' = [mutation EXCEPT ![i] = m]
    BY DEF Provisions
  <1>4. MutationOK(m, first)
    BY <1>1, WithNothing DEF MutationOK
  <1> HIDE DEF first, m
  <1>5. \A j \in Isolates : mutation[j] = None
    BY DEF ProjectionInv, InStep, Provisions
  <1>6. ~inStep /\ inStep' = inStep
    BY DEF ProjectionInv, InStep, Provisions
  <1>7. Mutations'
    BY <1>1, <1>3, <1>4, <1>5 DEF ProjectionInv, Mutations
  <1> QED BY <1>1, <1>2, <1>6, <1>7 DEF ProjectionInv, InStep, ProjectionInStep

LEMMA ReadsRowKeeps ==
  ASSUME ProjectionInv, NEW i \in Isolates, ReadsRow(i)
  PROVE  ProjectionInv'
  <1>1. PICK own \in Settings(row) :
          mutation' = [j \in Isolates |->
            IF j = i THEN [read |-> row, own |-> own, step |-> "write", alone |-> InProgress = {}]
            ELSE IF mutation[j] = None THEN None
            ELSE [mutation[j] EXCEPT !.alone = FALSE]]
    BY DEF ReadsRow
  <1>2. row # None /\ row \in CustomerRecords /\ mutation[i] = None
    BY DEF ReadsRow, ProjectionInv, InStep
  <1>3. PICK single \in BOOLEAN : single = (InProgress = {})
    OBVIOUS
  <1> DEFINE m == [read |-> row, own |-> own, step |-> "write", alone |-> single]
  <1>4. MutationOK(m, row)
    BY <1>2, SettingsSet DEF MutationOK
  <1>5. mutation'[i] = m
    BY <1>1, <1>3
  <1>6. ASSUME NEW j \in Isolates, j # i, mutation'[j] # None
        PROVE  mutation[j] # None /\ mutation'[j] = [mutation[j] EXCEPT !.alone = FALSE]
    BY <1>1, <1>6
  <1>7. ASSUME NEW x, MutationOK(x, row) PROVE MutationOK([x EXCEPT !.alone = FALSE], row)
    BY <1>7 DEF MutationOK
  <1>8. UNCHANGED <<row, kv, inStep>>
    BY DEF ReadsRow
  <1> HIDE DEF m
  <1>9. ASSUME NEW j \in Isolates, mutation'[j] # None PROVE MutationOK(mutation'[j], row)
    <2>1. CASE j = i
      BY <1>4, <1>5, <2>1
    <2>2. CASE j # i
      <3>1. mutation[j] # None /\ mutation'[j] = [mutation[j] EXCEPT !.alone = FALSE]
        BY <1>6, <1>9, <2>2
      <3>2. MutationOK(mutation[j], row)
        BY <3>1 DEF ProjectionInv, Mutations
      <3> QED BY <1>7, <3>1, <3>2
    <2> QED BY <2>1, <2>2
  <1>10. ASSUME NEW j \in Isolates, NEW k \in Isolates,
                mutation'[j] # None, mutation'[k] # None, j # k
         PROVE  ~mutation'[j].alone
    <2>1. CASE j # i
      <3>1. mutation'[j] = [mutation[j] EXCEPT !.alone = FALSE]
        BY <1>6, <1>10, <2>1
      <3>2. MutationOK(mutation[j], row)
        BY <1>6, <1>10, <2>1 DEF ProjectionInv, Mutations
      <3> QED BY <3>1
    <2>2. CASE j = i
      <3>1. mutation[k] # None
        BY <1>6, <1>10, <2>2
      <3>2. ~single
        BY <1>3, <3>1 DEF InProgress
      <3> QED BY <1>5, <2>2, <3>2 DEF m
    <2> QED BY <2>1, <2>2
  <1>11. DOMAIN mutation' = Isolates
    BY <1>1
  <1> QED BY <1>2, <1>8, <1>9, <1>10, <1>11 DEF ProjectionInv, Mutations, InStep, ProjectionInStep

LEMMA WritesRowKeeps ==
  ASSUME ProjectionInv, NEW i \in Isolates, WritesRow(i)
  PROVE  ProjectionInv'
  <1> DEFINE m == mutation[i]
             n == [m EXCEPT !.step = "project"]
  <1>1. m # None /\ m.step = "write" /\ MutationOK(m, row)
    BY DEF WritesRow, ProjectionInv, Mutations
  <1>2. row \in CustomerRecords
    BY <1>1 DEF ProjectionInv, InStep
  <1>3. row' = With(row, m.own) /\ inStep' = FALSE /\ mutation' = [mutation EXCEPT ![i] = n]
    BY DEF WritesRow
  <1>4. row' \in CustomerRecords
    BY <1>1, <1>2, <1>3, WithIsRecord DEF MutationOK
  <1>5. row' # None
    BY <1>4, ProjectionConstants
  <1>6. n.read = m.read /\ n.own = m.own /\ n.alone = m.alone /\ n.step = "project"
    BY <1>1
  <1>7. MutationOK(n, row')
    BY <1>1, <1>3, <1>6 DEF MutationOK
  <1>8. ASSUME NEW j \in Isolates, j # i, mutation[j] # None
        PROVE  ~mutation[j].alone /\ ~m.alone
    BY <1>1, <1>8 DEF ProjectionInv, Mutations
  <1>9. ASSUME NEW x, MutationOK(x, row), ~x.alone PROVE MutationOK(x, row')
    BY <1>9 DEF MutationOK
  <1> HIDE DEF n
  <1>10. ASSUME NEW j \in Isolates, mutation'[j] # None PROVE MutationOK(mutation'[j], row')
    <2>1. CASE j = i
      BY <1>3, <1>7, <2>1 DEF ProjectionInv, Mutations
    <2>2. CASE j # i
      <3>1. mutation'[j] = mutation[j] /\ mutation[j] # None
        BY <1>3, <1>10, <2>2
      <3> QED BY <1>8, <1>9, <2>2, <3>1 DEF ProjectionInv, Mutations
    <2> QED BY <2>1, <2>2
  <1>11. ASSUME NEW j \in Isolates, NEW k \in Isolates,
                mutation'[j] # None, mutation'[k] # None, j # k
         PROVE  ~mutation'[j].alone
    <2>1. mutation[j] # None /\ mutation[k] # None
      BY <1>1, <1>3, <1>11
    <2>2. ~mutation[j].alone
      BY <1>11, <2>1 DEF ProjectionInv, Mutations
    <2>3. CASE j = i
      BY <1>3, <1>6, <2>2, <2>3 DEF ProjectionInv, Mutations
    <2>4. CASE j # i
      BY <1>3, <2>2, <2>4
    <2> QED BY <2>3, <2>4
  <1>12. DOMAIN mutation' = Isolates
    BY <1>3 DEF ProjectionInv, Mutations
  <1>13. Mutations'
    BY <1>10, <1>11, <1>12 DEF Mutations
  <1> QED BY <1>3, <1>4, <1>5, <1>13 DEF ProjectionInv, InStep, ProjectionInStep

(* A mutation that ends takes nothing from the others. *)
LEMMA EndKeeps ==
  ASSUME ProjectionInv, NEW i \in Isolates, mutation[i] # None,
         mutation' = [mutation EXCEPT ![i] = None], row' = row
  PROVE  Mutations' /\ row' \in CustomerRecords /\ row' # None
  <1>1. ASSUME NEW j \in Isolates, mutation'[j] # None
        PROVE  mutation[j] # None /\ mutation'[j] = mutation[j]
    BY <1>1 DEF ProjectionInv, Mutations
  <1>2. \A j \in Isolates : mutation'[j] # None => MutationOK(mutation'[j], row')
    BY <1>1 DEF ProjectionInv, Mutations
  <1>3. \A j, k \in Isolates :
          mutation'[j] # None /\ mutation'[k] # None /\ j # k => ~mutation'[j].alone
    BY <1>1 DEF ProjectionInv, Mutations
  <1>4. row # None /\ row \in CustomerRecords
    BY DEF ProjectionInv, InStep
  <1> QED BY <1>2, <1>3, <1>4 DEF ProjectionInv, Mutations

LEMMA ProjectsRowKeeps ==
  ASSUME ProjectionInv, NEW i \in Isolates, ProjectsRow(i)
  PROVE  ProjectionInv'
  <1>1. mutation[i] # None /\ mutation[i].step = "project" /\ MutationOK(mutation[i], row)
    BY DEF ProjectsRow, ProjectionInv, Mutations
  <1>2. Mutations' /\ row' \in CustomerRecords /\ row' # None
    BY <1>1, EndKeeps DEF ProjectsRow
  <1>3. inStep' => kv' = row'
    <2>1. CASE kv' = Projected(mutation[i]) /\ inStep' = mutation[i].alone
      BY <1>1, <2>1 DEF ProjectsRow, Projected, MutationOK
    <2>2. CASE inStep' = FALSE
      BY <2>2
    <2> QED BY <2>1, <2>2 DEF ProjectsRow
  <1> QED BY <1>2, <1>3 DEF ProjectionInv, InStep, ProjectionInStep

LEMMA MutationDiesKeeps ==
  ASSUME ProjectionInv, NEW i \in Isolates, MutationDies(i)
  PROVE  ProjectionInv'
  <1>1. Mutations' /\ row' \in CustomerRecords /\ row' # None
    BY EndKeeps DEF MutationDies
  <1> QED BY <1>1 DEF ProjectionInv, InStep, ProjectionInStep, MutationDies

LEMMA ProjectionUnchanged ==
  ASSUME ProjectionInv, UNCHANGED <<row, kv, mutation, inStep>>
  PROVE  ProjectionInv'
  BY DEF ProjectionInv, Mutations, InStep, ProjectionInStep

LEMMA ProjectionNextKeeps ==
  ASSUME ProjectionInv, ProjectionNext
  PROVE  ProjectionInv'
  <1>1. PICK i \in Isolates :
          \/ Provisions(i) \/ ReadsRow(i) \/ WritesRow(i) \/ ProjectsRow(i) \/ MutationDies(i)
          \/ CacheExpires(i)
    BY DEF ProjectionNext
  <1>2. CASE CacheExpires(i)
    BY <1>2, ProjectionUnchanged DEF CacheExpires
  <1> QED BY <1>1, <1>2, ProvisionsKeeps, ReadsRowKeeps, WritesRowKeeps, ProjectsRowKeeps,
             MutationDiesKeeps

-----------------------------------------------------------------------------
(* Windows, quotas and the ledger *)

Steps == {"window", "quota", "work", "bill"}

(* A request on its way: refused for good once refused. *)
RequestOK(x) ==
  /\ x.at \in Isolates /\ x.key \in Keys /\ x.customer \in CustomerRecords
  /\ x.step \in Steps /\ x.todo \in Nat
  /\ x.route = "search" => x.key \in BrowserKeys
  /\ x.step = "quota" => x.route = "search"
  /\ x.denied = FALSE \/ (x.step = "bill" /\ x.todo = 0)

OnTheirWay ==
  /\ DOMAIN call = Calls
  /\ \A c \in Calls : call[c] # None => RequestOK(call[c])

(* Counts of windows, and within their limits. *)
WithinLimits(counts) ==
  /\ counts \in [Buckets -> Nat]
  /\ \A b \in Buckets : counts[b] <= LimitOf(b)

(* The Customer's window is what all their keys took. *)
Summed(counts) ==
  WithinLimits(counts) /\ counts["customer"] = Total(counts, Keys)

Counts ==
  /\ Summed(window)
  /\ DOMAIN local = Isolates /\ \A i \in Isolates : WithinLimits(local[i])
  /\ daily \in [BrowserKeys -> Nat] /\ \A k \in BrowserKeys : daily[k] <= DailyLimit

(* What was allowed against a fuse found the ledger below it. *)
Ledgers ==
  /\ ledger \in Nat /\ hard \in Nat /\ soft \in Nat /\ lost \in Nat /\ highest \in Nat
  /\ FuseHolds /\ LedgerAccounts

MeteringInv == ProjectionInv /\ OnTheirWay /\ Counts /\ Ledgers

LEMMA LimitsAreNat ==
  ASSUME NEW b
  PROVE  LimitOf(b) \in Nat \ {0}
  BY MeteringConstants DEF LimitOf

LEMMA BucketIsKey ==
  ASSUME NEW k \in Keys
  PROVE  BucketOf(k) \in Keys
  BY DEF BucketOf, Keys

LEMMA CountedWithin ==
  ASSUME NEW counts, WithinLimits(counts), NEW S, S \subseteq Buckets,
         \A b \in S : Room(counts, b)
  PROVE  WithinLimits(Counted(counts, S))
  <1> DEFINE g == Counted(counts, S)
  <1>1. g = [b \in Buckets |-> IF b \in S THEN counts[b] + 1 ELSE counts[b]]
    BY DEF Counted
  <1>2. counts \in [Buckets -> Nat]
    BY DEF WithinLimits
  <1>3. ASSUME NEW b \in Buckets PROVE g[b] \in Nat /\ g[b] <= LimitOf(b)
    <2>1. counts[b] \in Nat /\ counts[b] <= LimitOf(b) /\ LimitOf(b) \in Nat
      BY <1>2, LimitsAreNat DEF WithinLimits
    <2>2. b \in S => counts[b] < LimitOf(b)
      BY DEF Room
    <2> QED BY <1>1, <2>1, <2>2
  <1>4. g \in [Buckets -> Nat]
    BY <1>1, <1>3
  <1> HIDE DEF g
  <1>5. WithinLimits(g)
    BY <1>3, <1>4 DEF WithinLimits
  <1> QED BY <1>5 DEF g

(* One counted for a key, and one for the Customer. *)
LEMMA CountedSums ==
  ASSUME NEW counts, Summed(counts), NEW k \in Keys,
         \A b \in {k, "customer"} : Room(counts, b)
  PROVE  Summed(Counted(counts, {k, "customer"}))
  <1> DEFINE g == Counted(counts, {k, "customer"})
  <1>1. {k, "customer"} \subseteq Buckets /\ Keys \subseteq Buckets /\ k # "customer"
    BY MeteringConstants DEF Buckets
  <1>2. WithinLimits(g)
    BY <1>1, CountedWithin DEF Summed
  <1>3. counts \in [Buckets -> Nat] /\ g \in [Buckets -> Nat]
    BY <1>2 DEF WithinLimits, Summed
  <1>4. /\ g[k] = counts[k] + 1 /\ g["customer"] = counts["customer"] + 1
        /\ \A b \in Keys \ {k} : g[b] = counts[b]
    BY <1>1, MeteringConstants DEF Counted
  <1> HIDE DEF g
  <1>5. \A b \in Keys : counts[b] \in Nat /\ g[b] \in Nat
    BY <1>1, <1>3
  <1>6. IsFiniteSet(Keys)
    BY MeteringConstants
  <1>7. Total(g, Keys) = Total(counts, Keys) - counts[k] + g[k]
    BY <1>4, <1>5, <1>6, TotalChanges
  <1>8. Total(counts, Keys) \in Nat
    BY <1>5, <1>6, UnitsFinite
  <1>9. counts[k] \in Nat /\ counts["customer"] = Total(counts, Keys)
    BY <1>5 DEF Summed
  <1>10. g["customer"] = Total(g, Keys)
    BY <1>4, <1>7, <1>8, <1>9
  <1>11. Summed(g)
    BY <1>2, <1>10 DEF Summed
  <1> QED BY <1>11 DEF g

LEMMA ZeroSums ==
  Summed([b \in Buckets |-> 0])
  <1> DEFINE z == [b \in Buckets |-> 0]
  <1>1. z \in [Buckets -> Nat]
    OBVIOUS
  <1>2. \A b \in Buckets : z[b] <= LimitOf(b)
    BY LimitsAreNat
  <1>3. \A k \in Keys : z[k] = 0
    BY DEF Buckets
  <1>4. z["customer"] = 0
    BY DEF Buckets
  <1> HIDE DEF z
  <1>5. Units(z, Keys) = {}
    BY <1>3, UnitIs
  <1>6. Total(z, Keys) = 0
    BY <1>5, FS_EmptySet DEF Total
  <1>7. Summed(z)
    BY <1>1, <1>2, <1>4, <1>6 DEF Summed, WithinLimits
  <1> QED BY <1>7 DEF z

LEMMA MaxOfTwo ==
  ASSUME NEW m \in Nat, NEW n \in Nat
  PROVE  Max({m, n}) \in Nat /\ m <= Max({m, n}) /\ n <= Max({m, n})
  <1>1. \E x \in {m, n} : \A y \in {m, n} : x >= y
    OBVIOUS
  <1> QED BY <1>1 DEF Max

(* A request that takes a step, or is over. *)
LEMMA CallMoves ==
  ASSUME OnTheirWay, NEW c \in Calls, NEW x, x = None \/ RequestOK(x),
         call' = [call EXCEPT ![c] = x]
  PROVE  OnTheirWay'
  <1>1. DOMAIN call' = Calls
    BY DEF OnTheirWay
  <1>2. ASSUME NEW d \in Calls, call'[d] # None PROVE RequestOK(call'[d])
    BY <1>2 DEF OnTheirWay
  <1> QED BY <1>1, <1>2 DEF OnTheirWay

LEMMA MovesOn ==
  ASSUME OnTheirWay, NEW c \in Calls, call[c] # None, ~call[c].denied,
         NEW step \in Steps, step = "quota" => call[c].route = "search", GoesTo(c, step)
  PROVE  OnTheirWay'
  <1> DEFINE x == [call[c] EXCEPT !.step = step]
  <1>1. RequestOK(call[c])
    BY DEF OnTheirWay
  <1>2. RequestOK(x)
    BY <1>1 DEF RequestOK
  <1>3. call' = [call EXCEPT ![c] = x]
    BY DEF GoesTo
  <1> HIDE DEF x
  <1> QED BY <1>2, <1>3, CallMoves

LEMMA ArrivesKeeps ==
  ASSUME MeteringInv, NEW c \in Calls, NEW i \in Isolates, NEW k \in Keys, NEW route \in Routes,
         Arrives(c, i, k, route)
  PROVE  MeteringInv'
  <1>1. PICK record \in CustomerRecords \cup {None} :
          IF record = None \/ (route = "batch" /\ ~record.batch) THEN UNCHANGED call
          ELSE call' = [call EXCEPT ![c] =
                 [at |-> i, key |-> k, route |-> route, customer |-> record,
                  step |-> IF route = "batch" THEN "work" ELSE "window",
                  todo |-> 0, denied |-> FALSE]]
    BY DEF Arrives
  <1> DEFINE x == [at |-> i, key |-> k, route |-> route, customer |-> record,
                   step |-> IF route = "batch" THEN "work" ELSE "window",
                   todo |-> 0, denied |-> FALSE]
  <1>2. OnTheirWay'
    <2>1. CASE UNCHANGED call
      BY <2>1 DEF MeteringInv, OnTheirWay
    <2>2. CASE record # None /\ call' = [call EXCEPT ![c] = x]
      <3>1. route = "search" => k \in BrowserKeys
        BY DEF Arrives, Keys
      <3>2. RequestOK(x)
        BY <2>2, <3>1 DEF RequestOK, Steps, Routes
      <3> HIDE DEF x
      <3> QED BY <2>2, <3>2, CallMoves DEF MeteringInv
    <2> QED BY <1>1, <2>1, <2>2
  <1>3. ProjectionInv'
    BY ProjectionUnchanged DEF MeteringInv, Arrives
  <1>4. UNCHANGED <<window, local, daily, ledger, hard, highest, soft, uncounted, lost, torn>>
    BY DEF Arrives, counters, tally
  <1>5. Counts'
    BY <1>4 DEF MeteringInv, Counts
  <1>6. Ledgers'
    BY <1>4 DEF MeteringInv, Ledgers, FuseHolds, LedgerAccounts
  <1> QED BY <1>2, <1>3, <1>5, <1>6 DEF MeteringInv

LEMMA WindowKeeps ==
  ASSUME Summed(window), NEW k \in Keys, NEW answer, Window({k, "customer"}, answer)
  PROVE  Summed(window)'
  <1>1. CASE window' = window
    BY <1>1
  <1>2. CASE /\ \A b \in {k, "customer"} : Room(window, b)
             /\ window' = Counted(window, {k, "customer"})
    <2>1. Summed(Counted(window, {k, "customer"}))
      BY <1>2, CountedSums
    <2> QED BY <1>2, <2>1
  <1> QED BY <1>1, <1>2 DEF Window

LEMMA FallsBackKeeps ==
  ASSUME DOMAIN local = Isolates, \A i \in Isolates : WithinLimits(local[i]),
         NEW c \in Calls, RequestOK(call[c]), NEW allowed, FallsBack(c, allowed)
  PROVE  DOMAIN local' = Isolates /\ \A i \in Isolates : WithinLimits(local'[i])
  <1>1. PICK i \in Isolates : i = call[c].at
    BY DEF RequestOK
  <1>2. PICK key \in Keys : key = BucketOf(call[c].key)
    BY BucketIsKey DEF RequestOK
  <1> DEFINE counts == local[i]
             next == IF ~Room(counts, key) THEN counts
                     ELSE IF ~Room(counts, "customer") THEN Counted(counts, {key})
                     ELSE Counted(counts, {key, "customer"})
  <1>3. local' = [local EXCEPT ![i] = next]
    BY <1>1, <1>2 DEF FallsBack, Windows
  <1>4. {key} \subseteq Buckets /\ {key, "customer"} \subseteq Buckets
    BY DEF Buckets
  <1>5. WithinLimits(counts)
    OBVIOUS
  <1>6. WithinLimits(next)
    <2> HIDE DEF counts
    <2>1. CASE Room(counts, key) /\ ~Room(counts, "customer")
      <3>1. \A b \in {key} : Room(counts, b)
        BY <2>1
      <3>2. WithinLimits(Counted(counts, {key}))
        BY <1>4, <1>5, <3>1, CountedWithin
      <3> QED BY <2>1, <3>2
    <2>2. CASE Room(counts, key) /\ Room(counts, "customer")
      <3>1. \A b \in {key, "customer"} : Room(counts, b)
        BY <2>2
      <3>2. WithinLimits(Counted(counts, {key, "customer"}))
        BY <1>4, <1>5, <3>1, CountedWithin
      <3> QED BY <2>2, <3>2
    <2> QED BY <1>5, <2>1, <2>2
  <1> HIDE DEF next
  <1> QED BY <1>3, <1>6

LEMMA TakesWindowKeeps ==
  ASSUME MeteringInv, NEW c \in Calls, TakesWindow(c)
  PROVE  MeteringInv'
  <1>1. RequestOK(call[c]) /\ call[c] # None /\ call[c].step = "window" /\ ~call[c].denied
    BY DEF TakesWindow, AtStep, MeteringInv, OnTheirWay, RequestOK
  <1>2. PICK key \in Keys : key = BucketOf(call[c].key)
    BY <1>1, BucketIsKey DEF RequestOK
  <1>3. Windows(c) = {key, "customer"}
    BY <1>2 DEF Windows
  <1>4. PICK allowed \in BOOLEAN :
          /\ \/ Window(Windows(c), allowed) /\ UNCHANGED <<local, faults>>
             \/ /\ Fault /\ FallsBack(c, allowed)
                /\ (UNCHANGED window \/ \E answer \in BOOLEAN : Window(Windows(c), answer))
          /\ IF ~allowed THEN Departs(c)
             ELSE GoesTo(c, IF call[c].route = "search" THEN "quota" ELSE "work")
    BY DEF TakesWindow
  <1>5. OnTheirWay'
    <2>1. CASE Departs(c)
      BY <2>1, CallMoves DEF Departs, MeteringInv
    <2>2. CASE GoesTo(c, IF call[c].route = "search" THEN "quota" ELSE "work")
      <3>1. PICK step \in Steps : step = IF call[c].route = "search" THEN "quota" ELSE "work"
        BY DEF Steps
      <3>2. step = "quota" => call[c].route = "search"
        BY <3>1
      <3>3. GoesTo(c, step)
        BY <2>2, <3>1
      <3> QED BY <1>1, <3>2, <3>3, MovesOn DEF MeteringInv
    <2> QED BY <1>4, <2>1, <2>2
  <1>6. Summed(window)'
    <2>1. Summed(window)
      BY DEF MeteringInv, Counts
    <2> QED BY <1>3, <1>4, <2>1, WindowKeeps
  <1>7. DOMAIN local' = Isolates /\ \A i \in Isolates : WithinLimits(local'[i])
    <2>1. DOMAIN local = Isolates /\ \A i \in Isolates : WithinLimits(local[i])
      BY DEF MeteringInv, Counts
    <2>2. CASE local' = local
      BY <2>1, <2>2
    <2>3. CASE FallsBack(c, allowed)
      BY <1>1, <2>1, <2>3, FallsBackKeeps
    <2> QED BY <1>4, <2>2, <2>3
  <1>8. UNCHANGED <<row, kv, mutation, inStep, daily, ledger, hard, highest, soft, lost, torn>>
    BY DEF TakesWindow, tally
  <1>9. Counts'
    BY <1>6, <1>7, <1>8 DEF MeteringInv, Counts
  <1>10. Ledgers' /\ ProjectionInv'
    BY <1>8, ProjectionUnchanged DEF MeteringInv, Ledgers, FuseHolds, LedgerAccounts
  <1> QED BY <1>5, <1>9, <1>10 DEF MeteringInv

LEMMA NewMinuteKeeps ==
  ASSUME MeteringInv, NewMinute
  PROVE  MeteringInv'
  <1> DEFINE zero == [b \in Buckets |-> 0]
  <1>1. Summed(zero) /\ WithinLimits(zero)
    BY ZeroSums DEF Summed
  <1> HIDE DEF zero
  <1>2. \/ window' = zero /\ UNCHANGED local
        \/ \E i \in Isolates : local' = [local EXCEPT ![i] = zero] /\ UNCHANGED window
    BY DEF NewMinute, zero
  <1>3. Summed(window)'
    BY <1>1, <1>2 DEF MeteringInv, Counts
  <1>4. DOMAIN local' = Isolates /\ \A i \in Isolates : WithinLimits(local'[i])
    BY <1>1, <1>2 DEF MeteringInv, Counts
  <1>5. UNCHANGED <<row, kv, mutation, inStep, call, daily, ledger, hard, highest, soft, lost, torn>>
    BY DEF NewMinute, tally, projectionVars
  <1>6. Counts' /\ OnTheirWay'
    BY <1>3, <1>4, <1>5 DEF MeteringInv, Counts, OnTheirWay
  <1>7. Ledgers' /\ ProjectionInv'
    BY <1>5, ProjectionUnchanged DEF MeteringInv, Ledgers, FuseHolds, LedgerAccounts
  <1> QED BY <1>6, <1>7 DEF MeteringInv

LEMMA TakesQuotaKeeps ==
  ASSUME MeteringInv, NEW c \in Calls, TakesQuota(c)
  PROVE  MeteringInv'
  <1>1. RequestOK(call[c]) /\ call[c] # None /\ call[c].step = "quota" /\ ~call[c].denied
    BY DEF TakesQuota, AtStep, MeteringInv, OnTheirWay, RequestOK
  <1>2. PICK k \in BrowserKeys : k = call[c].key
    BY <1>1 DEF RequestOK
  <1> DEFINE counted == [daily EXCEPT ![k] = Consumed(daily[k], DailyLimit)]
  <1>3. daily' \in {daily, counted} /\ (Departs(c) \/ GoesTo(c, "work"))
    BY <1>2 DEF TakesQuota
  <1>4. OnTheirWay'
    <2>1. CASE Departs(c)
      BY <2>1, CallMoves DEF Departs, MeteringInv
    <2>2. CASE GoesTo(c, "work")
      BY <1>1, <2>2, MovesOn DEF MeteringInv, Steps
    <2> QED BY <1>3, <2>1, <2>2
  <1>5. daily \in [BrowserKeys -> Nat] /\ \A b \in BrowserKeys : daily[b] <= DailyLimit
    BY DEF MeteringInv, Counts
  <1>6. Consumed(daily[k], DailyLimit) \in Nat /\ Consumed(daily[k], DailyLimit) <= DailyLimit
    BY <1>5, MeteringConstants DEF Consumed, Admits
  <1>7. counted \in [BrowserKeys -> Nat] /\ \A b \in BrowserKeys : counted[b] <= DailyLimit
    BY <1>5, <1>6
  <1> HIDE DEF counted
  <1>8. UNCHANGED <<row, kv, mutation, inStep, window, local, ledger, hard, highest, soft, lost, torn>>
    BY DEF TakesQuota, tally
  <1>9. Counts'
    BY <1>3, <1>5, <1>7, <1>8 DEF MeteringInv, Counts
  <1>10. Ledgers' /\ ProjectionInv'
    BY <1>8, ProjectionUnchanged DEF MeteringInv, Ledgers, FuseHolds, LedgerAccounts
  <1> QED BY <1>4, <1>9, <1>10 DEF MeteringInv

(* The steps that counted nothing. *)
LEMMA NothingCounted ==
  ASSUME MeteringInv, OnTheirWay', UNCHANGED <<projectionVars, counters, tally>>
  PROVE  MeteringInv'
  <1>1. UNCHANGED <<row, kv, mutation, inStep, window, local, daily, ledger, hard, highest, soft,
                    lost, torn>>
    BY DEF projectionVars, counters, tally
  <1>2. Counts' /\ Ledgers' /\ ProjectionInv'
    BY <1>1, ProjectionUnchanged DEF MeteringInv, Counts, Ledgers, FuseHolds, LedgerAccounts
  <1> QED BY <1>2 DEF MeteringInv

LEMMA WorksKeeps ==
  ASSUME MeteringInv, NEW c \in Calls, Works(c)
  PROVE  MeteringInv'
  <1>1. RequestOK(call[c]) /\ call[c] # None /\ call[c].step = "work" /\ ~call[c].denied
    BY DEF Works, AtStep, MeteringInv, OnTheirWay, RequestOK
  <1>2. PICK good \in Nat :
          IF good = 0 THEN Departs(c)
          ELSE call' = [call EXCEPT ![c].step = "bill", ![c].todo = good]
    BY MeteringConstants DEF Works
  <1>3. OnTheirWay'
    <2>1. CASE Departs(c)
      BY <2>1, CallMoves DEF Departs, MeteringInv
    <2>2. CASE call' = [call EXCEPT ![c].step = "bill", ![c].todo = good]
      <3> DEFINE x == [call[c] EXCEPT !.step = "bill", !.todo = good]
      <3>1. RequestOK(x)
        BY <1>1 DEF RequestOK, Steps
      <3>2. call' = [call EXCEPT ![c] = x]
        BY <2>2 DEF MeteringInv, OnTheirWay
      <3> HIDE DEF x
      <3> QED BY <3>1, <3>2, CallMoves DEF MeteringInv
    <2> QED BY <1>2, <2>1, <2>2
  <1> QED BY <1>3, NothingCounted DEF Works

LEMMA RespondsKeeps ==
  ASSUME MeteringInv, NEW c \in Calls, Responds(c)
  PROVE  MeteringInv'
  <1>1. OnTheirWay'
    BY CallMoves DEF Responds, Departs, MeteringInv
  <1> QED BY <1>1, NothingCounted DEF Responds

LEMMA BillsKeeps ==
  ASSUME MeteringInv, NEW c \in Calls, Bills(c)
  PROVE  MeteringInv'
  <1>1. RequestOK(call[c]) /\ call[c].step = "bill" /\ call[c].todo > 0 /\ call[c].todo \in Nat
    BY DEF Bills, AtStep, MeteringInv, OnTheirWay, RequestOK
  <1>2. PICK limit \in Nat : limit = EnforcedLimit(call[c].customer)
    BY <1>1, ProjectionConstants DEF RequestOK, EnforcedLimit, CustomerRecords
  <1>3. call[c].denied = FALSE
    BY <1>1 DEF RequestOK
  <1>4. PICK counted \in Nat : counted = Consumed(ledger, limit)
    BY <1>2 DEF Consumed, MeteringInv, Ledgers
  <1> DEFINE less == [call[c] EXCEPT !.todo = call[c].todo - 1]
             none == [call[c] EXCEPT !.todo = 0, !.denied = TRUE]
  <1>5. RequestOK(less) /\ RequestOK(none)
    BY <1>1, <1>3 DEF RequestOK
  <1>6. Allows(c, limit) \/ Refuses(c)
    BY <1>2 DEF Bills
  <1>7. OnTheirWay'
    <2>1. call' = [call EXCEPT ![c] = less] \/ call' = [call EXCEPT ![c] = none]
      BY <1>6 DEF Allows, Refuses, AfterDenial, MeteringInv, OnTheirWay
    <2> HIDE DEF less, none
    <2> QED BY <1>5, <2>1, CallMoves DEF MeteringInv
  <1>8. /\ ledger \in Nat /\ hard \in Nat /\ soft \in Nat /\ lost \in Nat /\ highest \in Nat
        /\ hard <= highest /\ ledger = hard + soft + lost /\ torn = FALSE
    BY DEF MeteringInv, Ledgers, FuseHolds, LedgerAccounts, OnTheirWay
  <1>9. Ledgers'
    <2>1. Allows(c, limit) =>
            /\ torn' = FALSE /\ hard' = hard + (IF limit > 0 THEN 1 ELSE 0)
            /\ highest' \in Nat /\ highest <= highest' /\ limit <= highest'
      BY <1>3, <1>8, MaxOfTwo DEF Allows
    <2>2. Refuses(c) => torn' = FALSE /\ hard' = hard /\ highest' = highest
      BY <1>8 DEF Refuses
    <2>3. CASE /\ ledger' = Consumed(ledger, limit)
               /\ IF Admits(ledger, limit) THEN Allows(c, limit) ELSE Refuses(c)
               /\ soft' = soft + (IF limit = 0 THEN 1 ELSE 0)
               /\ UNCHANGED lost
      <3>1. CASE Admits(ledger, limit)
        BY <1>8, <2>1, <2>3, <3>1 DEF Consumed, Admits, Ledgers, FuseHolds, LedgerAccounts
      <3>2. CASE ~Admits(ledger, limit)
        BY <1>8, <2>2, <2>3, <3>2 DEF Consumed, Admits, Ledgers, FuseHolds, LedgerAccounts
      <3> QED BY <3>1, <3>2
    <2>4. CASE /\ UNCHANGED soft
               /\ ledger' \in {ledger, Consumed(ledger, limit)}
               /\ IF limit = 0 THEN Allows(c, limit) ELSE Refuses(c)
               /\ lost' = lost + (ledger' - ledger)
      <3>1. PICK n \in {0, 1} : ledger' = ledger + n
        BY <1>8, <2>4 DEF Consumed
      <3>2. lost' = lost + n /\ lost' \in Nat /\ ledger' \in Nat /\ soft' = soft
        BY <1>8, <2>4, <3>1
      <3>3. torn' = FALSE /\ hard' = hard /\ highest' \in Nat /\ highest <= highest'
        BY <1>8, <2>1, <2>2, <2>4
      <3>4. FuseHolds' /\ LedgerAccounts'
        BY <1>8, <3>1, <3>2, <3>3 DEF FuseHolds, LedgerAccounts
      <3> QED BY <1>8, <3>2, <3>3, <3>4 DEF Ledgers
    <2> QED BY <1>2, <2>3, <2>4 DEF Bills, WithoutAnswer
  <1>10. UNCHANGED <<row, kv, mutation, inStep, window, local, daily>>
    BY DEF Bills
  <1>11. Counts' /\ ProjectionInv'
    BY <1>10, ProjectionUnchanged DEF MeteringInv, Counts
  <1> QED BY <1>7, <1>9, <1>11 DEF MeteringInv

LEMMA MeteringInitially ==
  MeteringInit => MeteringInv
  <1> SUFFICES ASSUME MeteringInit PROVE MeteringInv
    OBVIOUS
  <1>1. ProjectionInv
    BY DEF MeteringInit, ProjectionInit, ProjectionInv, Mutations, InStep, ProjectionInStep
  <1>2. OnTheirWay
    BY DEF MeteringInit, OnTheirWay
  <1>3. Counts
    <2> DEFINE zero == [b \in Buckets |-> 0]
    <2>1. Summed(zero) /\ WithinLimits(zero)
      BY ZeroSums DEF Summed
    <2> HIDE DEF zero
    <2>2. window = zero /\ local = [i \in Isolates |-> zero]
      BY DEF MeteringInit, zero
    <2>3. daily = [k \in BrowserKeys |-> 0]
      BY DEF MeteringInit
    <2>4. daily \in [BrowserKeys -> Nat] /\ \A k \in BrowserKeys : daily[k] <= DailyLimit
      BY <2>3, MeteringConstants
    <2> QED BY <2>1, <2>2, <2>4 DEF Counts
  <1>4. Ledgers
    BY DEF MeteringInit, Ledgers, FuseHolds, LedgerAccounts
  <1> QED BY <1>1, <1>2, <1>3, <1>4 DEF MeteringInv

LEMMA MeteringStep ==
  MeteringInv /\ [MeteringNext]_meteringVars => MeteringInv'
  <1> SUFFICES ASSUME MeteringInv, [MeteringNext]_meteringVars PROVE MeteringInv'
    OBVIOUS
  <1>1. CASE ProjectionNext /\ UNCHANGED <<call, counters, tally>>
    <2>1. UNCHANGED <<call, window, local, daily, ledger, hard, highest, soft, lost, torn>>
      BY <1>1 DEF counters, tally
    <2>2. OnTheirWay' /\ Counts' /\ Ledgers'
      BY <2>1 DEF MeteringInv, OnTheirWay, Counts, Ledgers, FuseHolds, LedgerAccounts
    <2> QED BY <1>1, <2>2, ProjectionNextKeeps DEF MeteringInv
  <1>2. CASE \E c \in Calls : CallStep(c)
    BY <1>2, ArrivesKeeps, TakesWindowKeeps, TakesQuotaKeeps, WorksKeeps, BillsKeeps, RespondsKeeps
       DEF CallStep
  <1>3. CASE NewMinute
    BY <1>3, NewMinuteKeeps
  <1>4. CASE UNCHANGED meteringVars
    <2>1. OnTheirWay'
      BY <1>4 DEF meteringVars, MeteringInv, OnTheirWay
    <2> QED BY <1>4, <2>1, NothingCounted DEF meteringVars
  <1> QED BY <1>1, <1>2, <1>3, <1>4 DEF MeteringNext

LEMMA MeteringInvariant ==
  MeteringSpec => []MeteringInv
  BY MeteringInitially, MeteringStep, PTL DEF MeteringSpec

(* What the portal projects is what the database holds: after a mutation    *)
(* that no other one overlapped and whose put worked, the record in KV is   *)
(* the row (billing-mutations.server.ts), also while requests of the same   *)
(* Customer are served.                                                     *)
THEOREM RecordsAreInStep ==
  MeteringSpec => []ProjectionInStep
  <1>1. MeteringInv => ProjectionInStep
    BY DEF MeteringInv, ProjectionInv, InStep
  <1> QED BY <1>1, MeteringInvariant, PTL

(* No fuse is passed, the ledger is what was let through (usage-ledger.ts), *)
(* and every window is within its limit and the Customer's the sum of their *)
(* keys' (rate-limit.ts, api-key-usage-do.ts), for any number of keys,      *)
(* isolates and requests at once, and any limits.                           *)
THEOREM CountersAddUp ==
  MeteringSpec => []CountersAgree
  <1>1. MeteringInv => CountersAgree
    <2> SUFFICES ASSUME MeteringInv PROVE CountersAgree
      OBVIOUS
    <2>1. WindowsAgree
      BY DEF MeteringInv, Counts, Summed, WithinLimits, WindowsAgree
    <2> QED BY <2>1 DEF MeteringInv, Ledgers, CountersAgree
  <1> QED BY <1>1, MeteringInvariant, PTL
=============================================================================
