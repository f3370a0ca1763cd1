------------------------------ MODULE JobQueue ------------------------------
(***************************************************************************)
(* The batch job queue: the QueuePolicy class (src/src/queue-policy.ts)     *)
(* inside the QueueManager Durable Object (src/src/queue-manager.ts).       *)
(*                                                                         *)
(* A Durable Object runs one JavaScript thread, so a handler is atomic up  *)
(* to its next await of something outside the object.  The only such await *)
(* is `await this.runJob(job)` inside processJobs; a storage operation     *)
(* closes the input gate and lets no other request in.  A processJobs call *)
(* is therefore a chain of steps (take the jobs and start the first one,   *)
(* then settle one and start the next), every other handler is one step,   *)
(* and any number of handlers may run between two steps of a call.         *)
(*                                                                         *)
(* The object may be evicted or crash between any two steps: the memory    *)
(* goes, the one stored snapshot stays.                                    *)
(*                                                                         *)
(* Data that is abstracted:                                                *)
(*   - `priorityQueues`, a map from priority to FIFO list, is the single   *)
(*     sequence `backlog`: the lists laid end to end, highest priority     *)
(*     first.  The list of priority p is the block of p-jobs in it.        *)
(*   - `processingQueue` is written by retryFailed and read for its length *)
(*     only, so it is its length.                                          *)
(*   - nextRetryAt is whether the instant lies ahead or has passed.        *)
(*   - results, error texts, errorCount, tags, timestamps and the derived  *)
(*     statistics are left out.                                            *)
(***************************************************************************)
EXTENDS Integers, Sequences, FiniteSets, SequencesExt

CONSTANTS
  Batches,           \* batch ids that may be submitted
  BatchSize,         \* BatchSize[b]: number of requests in batch b
  Priorities,        \* priorities a submission or a dead-letter retry may name
  AnyPriority,       \* the `priority: null` of a processJobs call
  Calls,             \* processJobs requests that may be in flight at once
  MaxAttempts,       \* MAX_JOB_ATTEMPTS
  MaxJobs,           \* the largest maxJobs of a call (100 in handleProcessJobs)
  MaxInterventions,  \* bound: operator retries that change a job
  MaxCrashes,        \* bound: evictions or crashes of the object
  MaxLoadFailures,   \* bound: restarts whose three loads all fail
  MaxSaveFailures    \* bound: storage puts that fail and are swallowed

ASSUME QueueConstants ==
  /\ IsFiniteSet(Batches)
  /\ BatchSize \in [Batches -> Nat \ {0}]
  /\ Priorities \subseteq Int
  /\ Priorities # {}
  /\ AnyPriority \notin Int
  /\ MaxAttempts \in Nat \ {0}
  /\ MaxJobs \in Nat \ {0}
  /\ MaxInterventions \in Nat
  /\ MaxCrashes \in Nat
  /\ MaxLoadFailures \in Nat
  /\ MaxSaveFailures \in Nat

Unsubmitted == "unsubmitted"

(* A job id is `${batchId}_job_${jobIndex}`. *)
Jobs == UNION { {b} \X (1 .. BatchSize[b]) : b \in Batches }
BatchOf(j) == j[1]
JobsOf(b) == {b} \X (1 .. BatchSize[b])
Block(b) == [i \in 1 .. BatchSize[b] |-> <<b, i>>]

JobStatus == {Unsubmitted, "pending", "processing", "completed", "retrying", "dead_letter"}
BatchStatus == {Unsubmitted, "pending", "completed", "failed", "partially_completed"}
Backoff == {"none", "ahead", "passed"}

VARIABLES
  jobs,              \* the jobs map
  batches,           \* the batches map
  retryQueue,        \* ids waiting for another attempt, in failure order
  backlog,           \* the priority queues, highest priority first
  deadLetterQueue,   \* ids that used up their attempts
  processingQueue,   \* length of the list retryFailed appends to
  held,              \* held[c]: what call c took and has not settled, head running
  disk,              \* the snapshot under the key 'queueState'
  up,                \* the object is constructed and its load has ended
  interventions, crashes, loadFailures, saveFailures  \* what the bounds count

memory == <<jobs, batches, retryQueue, backlog, deadLetterQueue, processingQueue>>
bounds == <<interventions, crashes, loadFailures, saveFailures>>
vars == <<memory, held, disk, up, bounds>>

-----------------------------------------------------------------------------
(* State and its snapshot *)

Job == [status : JobStatus, attempts : Nat, priority : Int, nextRetryAt : Backoff]
Batch == [status : BatchStatus, completedJobs : Nat, failedJobs : Nat]

NewJob(p) == [status |-> "pending", attempts |-> 0, priority |-> p, nextRetryAt |-> "none"]
NoJob == [status |-> Unsubmitted, attempts |-> 0, priority |-> 0, nextRetryAt |-> "none"]
NewBatch == [status |-> "pending", completedJobs |-> 0, failedJobs |-> 0]
NoBatch == [NewBatch EXCEPT !.status = Unsubmitted]

EmptyState ==
  [jobs |-> [j \in Jobs |-> NoJob], batches |-> [b \in Batches |-> NoBatch],
   retryQueue |-> <<>>, backlog |-> <<>>, deadLetterQueue |-> <<>>, processingQueue |-> 0]

(* The policy's fields take the values of snapshot s (load, or a fresh object). *)
Become(s) ==
  /\ jobs' = s.jobs
  /\ batches' = s.batches
  /\ retryQueue' = s.retryQueue
  /\ backlog' = s.backlog
  /\ deadLetterQueue' = s.deadLetterQueue
  /\ processingQueue' = s.processingQueue

(* save(): one put of the whole state; a failing put is logged and swallowed. *)
Save ==
  \/ /\ disk' = [jobs |-> jobs', batches |-> batches', retryQueue |-> retryQueue',
                 backlog |-> backlog', deadLetterQueue |-> deadLetterQueue',
                 processingQueue |-> processingQueue']
     /\ UNCHANGED saveFailures
  \/ /\ saveFailures < MaxSaveFailures
     /\ saveFailures' = saveFailures + 1
     /\ UNCHANGED disk

Init ==
  /\ jobs = EmptyState.jobs
  /\ batches = EmptyState.batches
  /\ retryQueue = <<>>
  /\ backlog = <<>>
  /\ deadLetterQueue = <<>>
  /\ processingQueue = 0
  /\ held = [c \in Calls |-> <<>>]
  /\ disk = EmptyState
  /\ up = TRUE
  /\ interventions = 0 /\ crashes = 0 /\ loadFailures = 0 /\ saveFailures = 0

-----------------------------------------------------------------------------
(* Priority queues *)

Lesser(m, n) == IF m <= n THEN m ELSE n

(* How many queued jobs come before one of priority p (same priority is FIFO). *)
Ahead(p) == Cardinality({i \in DOMAIN backlog : jobs[backlog[i]].priority >= p})
Above(p) == Cardinality({i \in DOMAIN backlog : jobs[backlog[i]].priority > p})

(* MUTANT of Enqueued: one queue for all priorities. *)
EnqueuedLast(ids, p) == backlog \o ids

(* addToPriorityQueue for each id of the sequence ids, all of priority p. *)
Enqueued(ids, p) ==
  SubSeq(backlog, 1, Ahead(p)) \o ids \o SubSeq(backlog, Ahead(p) + 1, Len(backlog))

(* getJobsFromPriorityQueues(n, p): where its splices start in the backlog  *)
(* and how many ids they remove.                                            *)
PickFrom(p) == IF p = AnyPriority THEN 0 ELSE Above(p)
PickCount(n, p) ==
  Lesser(n, IF p = AnyPriority THEN Len(backlog) ELSE Ahead(p) - Above(p))

-----------------------------------------------------------------------------
(* Handlers *)

(* POST /queue/submit: submitBatch.  The jobs are numbered in group order,  *)
(* which is the order they are queued in.                                   *)
SubmitBatch(b, p) ==
  /\ up
  /\ batches[b].status = Unsubmitted
  /\ jobs' = [j \in Jobs |-> IF j \in JobsOf(b) THEN NewJob(p) ELSE jobs[j]]
  /\ batches' = [batches EXCEPT ![b] = NewBatch]
  /\ backlog' = Enqueued(Block(b), p)
  /\ UNCHANGED <<retryQueue, deadLetterQueue, processingQueue>>
  /\ Save
  /\ UNCHANGED <<held, up, interventions, crashes, loadFailures>>

(* The head of a call's list begins to run: status and attempts, up to the  *)
(* await of runJob.                                                         *)
Started(js, j) == [js EXCEPT ![j].status = "processing", ![j].attempts = @ + 1]

(* POST /queue/process, first step: the retry queue is taken from first,    *)
(* then the priority queues, and the first job starts.  A call that finds   *)
(* nothing saves and returns.                                               *)
ProcessJobs(c, n, p) ==
  LET r == Lesser(n, Len(retryQueue))
      from == PickFrom(p)
      k == PickCount(n - r, p)
      taken == SubSeq(retryQueue, 1, r) \o SubSeq(backlog, from + 1, from + k)
  IN /\ up
     /\ held[c] = <<>>
     /\ retryQueue' = SubSeq(retryQueue, r + 1, Len(retryQueue))
     /\ backlog' = SubSeq(backlog, 1, from) \o SubSeq(backlog, from + k + 1, Len(backlog))
     /\ held' = [held EXCEPT ![c] = taken]
     /\ UNCHANGED <<batches, deadLetterQueue, processingQueue>>
     /\ \/ /\ taken # <<>>
           /\ jobs' = Started(jobs, Head(taken))
           /\ UNCHANGED <<disk, saveFailures>>
        \/ /\ taken = <<>>
           /\ UNCHANGED jobs
           /\ Save
     /\ UNCHANGED <<up, interventions, crashes, loadFailures>>

(* MUTANT of Proceed: the call returns after the job it has settled. *)
ProceedReturns(c, js) == held' = [held EXCEPT ![c] = <<>>] /\ jobs' = js /\ Save

(* The rest of processJobs after a job of call c is settled, js being the   *)
(* jobs map by then: the next job starts, or the call saves and responds.   *)
Proceed(c, js) ==
  /\ held' = [held EXCEPT ![c] = Tail(@)]
  /\ \/ /\ Tail(held[c]) # <<>>
        /\ jobs' = Started(js, Head(Tail(held[c])))
        /\ UNCHANGED <<disk, saveFailures>>
     \/ /\ Tail(held[c]) = <<>>
        /\ jobs' = js
        /\ Save

(* MUTANTS of Counted: every run counts as completed; the verdict waits for *)
(* one run more than there are jobs.                                        *)
CountedRuns(bt, total, done, failed, verdict) ==
  [bt EXCEPT !.completedJobs = @ + done + failed]
CountedLate(bt, total, done, failed, verdict) ==
  LET counted == [bt EXCEPT !.completedJobs = @ + done, !.failedJobs = @ + failed]
  IN IF counted.completedJobs + counted.failedJobs > total
     THEN [counted EXCEPT !.status = verdict] ELSE counted

(* What both branches of processJobs do to the batch: the counters, then    *)
(* the verdict once every one of totalJobs runs is accounted for.           *)
Counted(bt, total, done, failed, verdict) ==
  LET counted == [bt EXCEPT !.completedJobs = @ + done, !.failedJobs = @ + failed]
  IN IF counted.completedJobs + counted.failedJobs >= total
     THEN [counted EXCEPT !.status = verdict] ELSE counted

(* runJob resolves. *)
RunSucceeds(c) ==
  /\ up
  /\ held[c] # <<>>
  /\ LET j == Head(held[c])
         b == BatchOf(j)
     IN /\ batches' = [batches EXCEPT ![b] =
             Counted(@, BatchSize[b], 1, 0,
                     IF @.failedJobs > 0 THEN "partially_completed" ELSE "completed")]
        /\ UNCHANGED <<retryQueue, backlog, deadLetterQueue, processingQueue>>
        /\ Proceed(c, [jobs EXCEPT ![j].status = "completed"])
  /\ UNCHANGED <<up, interventions, crashes, loadFailures>>

(* The failure of one run for its batch. *)
CountFailure(b) ==
  batches' = [batches EXCEPT ![b] =
    Counted(@, BatchSize[b], 0, 1,
            IF @.completedJobs > 0 THEN "partially_completed" ELSE "failed")]

(* Whether a failed run is followed by another. *)
MayRetry(j) == jobs[j].attempts < MaxAttempts

(* runJob rejects and attempts remain: to the back of the retry queue, with *)
(* an exponential nextRetryAt.                                              *)
RunFailsRetry(c) ==
  /\ up
  /\ held[c] # <<>>
  /\ LET j == Head(held[c])
     IN /\ MayRetry(j)
        /\ retryQueue' = Append(retryQueue, j)
        /\ CountFailure(BatchOf(j))
        /\ UNCHANGED <<backlog, deadLetterQueue, processingQueue>>
        /\ Proceed(c, [jobs EXCEPT ![j].status = "retrying", ![j].nextRetryAt = "ahead"])
  /\ UNCHANGED <<up, interventions, crashes, loadFailures>>

(* runJob rejects on the last attempt: moveToDeadLetterQueue. *)
RunFailsDead(c) ==
  /\ up
  /\ held[c] # <<>>
  /\ LET j == Head(held[c])
     IN /\ ~ MayRetry(j)
        /\ backlog' = RemoveFirst(backlog, j)
        /\ retryQueue' = RemoveFirst(retryQueue, j)
        /\ deadLetterQueue' = Append(deadLetterQueue, j)
        /\ CountFailure(BatchOf(j))
        /\ UNCHANGED processingQueue
        /\ Proceed(c, [jobs EXCEPT ![j].status = "dead_letter"])
  /\ UNCHANGED <<up, interventions, crashes, loadFailures>>

(* MUTANTS of Retryable and Revivable: a status too many. *)
RetriesRunning(j) == jobs[j].status \in {"retrying", "processing"}
RetriesCompleted(j) == jobs[j].status \in {"retrying", "completed"}
RevivesRetrying(j) == jobs[j].status \in {"dead_letter", "retrying"}

(* The statuses in which the operator's two retries accept a job.  (No code *)
(* assigns the status 'failed' that retryFailed also accepts.)              *)
Retryable(j) == jobs[j].status = "retrying"
Revivable(j) == jobs[j].status = "dead_letter"

(* POST /queue/retry: retryFailed for one id.  (A list of ids repeats this  *)
(* with no await in between.)  Ids it refuses still end in a save.          *)
RetryFailed(j) ==
  /\ up
  /\ \/ /\ Retryable(j)
        /\ interventions < MaxInterventions
        /\ interventions' = interventions + 1
        /\ jobs' = [jobs EXCEPT ![j].status = "pending", ![j].attempts = 0,
                                ![j].nextRetryAt = "none"]
        /\ processingQueue' = processingQueue + 1
     \/ /\ ~ Retryable(j)
        /\ UNCHANGED <<jobs, processingQueue, interventions>>
  /\ UNCHANGED <<batches, retryQueue, backlog, deadLetterQueue>>
  /\ Save
  /\ UNCHANGED <<held, up, crashes, loadFailures>>

(* POST /queue/retry-dead-letter: retryDeadLetter for one id that is in the *)
(* dead-letter state, with or without resetAttempts, at priority p.         *)
RetryDeadLetter(j, reset, p) ==
  /\ up
  /\ Revivable(j)
  /\ interventions < MaxInterventions
  /\ interventions' = interventions + 1
  /\ jobs' = [jobs EXCEPT ![j].status = "pending", ![j].nextRetryAt = "none",
                          ![j].attempts = IF reset THEN 0 ELSE @, ![j].priority = p]
  /\ deadLetterQueue' = RemoveFirst(deadLetterQueue, j)
  /\ backlog' = Enqueued(<<j>>, p)
  /\ UNCHANGED <<batches, retryQueue, processingQueue>>
  /\ Save
  /\ UNCHANGED <<held, up, crashes, loadFailures>>

(* The instant nextRetryAt of a job goes by, on the wall clock: in memory   *)
(* and in a stored copy of the job alike.                                   *)
Passed(js, j) ==
  [js EXCEPT ![j].nextRetryAt = IF @ = "ahead" THEN "passed" ELSE @]

BackoffElapses(j) ==
  /\ up
  /\ jobs[j].nextRetryAt = "ahead"
  /\ jobs' = Passed(jobs, j)
  /\ disk' = [disk EXCEPT !.jobs = Passed(@, j)]
  /\ UNCHANGED <<batches, retryQueue, backlog, deadLetterQueue, processingQueue>>
  /\ UNCHANGED <<held, up, bounds>>

-----------------------------------------------------------------------------
(* The life of the object *)

(* Eviction or crash: the memory and every call in flight are gone. *)
Crash ==
  /\ up
  /\ crashes < MaxCrashes
  /\ crashes' = crashes + 1
  /\ up' = FALSE
  /\ Become(EmptyState)
  /\ held' = [c \in Calls |-> <<>>]
  /\ UNCHANGED <<disk, interventions, loadFailures, saveFailures>>

(* The next request constructs the object, which loads the snapshot. *)
Restart ==
  /\ ~up
  /\ up' = TRUE
  /\ Become(disk)
  /\ UNCHANGED <<held, disk, bounds>>

(* All three attempts of loadStateWithRetry fail: the object serves from    *)
(* an empty state.                                                          *)
RestartEmpty ==
  /\ ~up
  /\ loadFailures < MaxLoadFailures
  /\ loadFailures' = loadFailures + 1
  /\ up' = TRUE
  /\ UNCHANGED <<memory, held, disk, interventions, crashes, saveFailures>>

-----------------------------------------------------------------------------

Settle(c) == RunSucceeds(c) \/ RunFailsRetry(c) \/ RunFailsDead(c)

(* What an operator posts to the Worker's queue routes (batch.ts). *)
Posted ==
  \/ \E b \in Batches, p \in Priorities : SubmitBatch(b, p)
  \/ \E c \in Calls, n \in 1 .. MaxJobs, p \in Priorities \cup {AnyPriority} :
       ProcessJobs(c, n, p)

Next ==
  \/ Posted
  \/ \E c \in Calls : RunSucceeds(c)
  \/ \E c \in Calls : RunFailsRetry(c)
  \/ \E c \in Calls : RunFailsDead(c)
  \/ \E j \in Jobs : RetryFailed(j)
  \/ \E j \in Jobs, reset \in BOOLEAN, p \in Priorities : RetryDeadLetter(j, reset, p)
  \/ \E j \in Jobs : BackoffElapses(j)
  \/ Crash
  \/ Restart
  \/ RestartEmpty

Spec == Init /\ [][Next]_vars

-----------------------------------------------------------------------------
(* Liveness.  Nothing inside the object wakes it: jobs advance because     *)
(* somebody keeps posting /queue/process without a priority filter, and    *)
(* because every lookup ends (runJob settles: its stages are all bounded   *)
(* by timeouts).  The next request restarts an evicted object.             *)

Fairness ==
  /\ \A c \in Calls : WF_vars(ProcessJobs(c, MaxJobs, AnyPriority))
  /\ \A c \in Calls : WF_vars(Settle(c))
  /\ WF_vars(Restart)

FairSpec == Spec /\ Fairness

-----------------------------------------------------------------------------
(* Properties *)

Snapshots ==
  [jobs : [Jobs -> Job], batches : [Batches -> Batch], retryQueue : Seq(Jobs),
   backlog : Seq(Jobs), deadLetterQueue : Seq(Jobs), processingQueue : Nat]

(* Every variable keeps its type: queue entries are ids of the jobs map,    *)
(* and the stored snapshot has the shape load() expects.                    *)
TypeOK ==
  /\ jobs \in [Jobs -> Job]
  /\ batches \in [Batches -> Batch]
  /\ retryQueue \in Seq(Jobs)
  /\ backlog \in Seq(Jobs)
  /\ deadLetterQueue \in Seq(Jobs)
  /\ processingQueue \in Nat
  /\ held \in [Calls -> Seq(Jobs)]
  /\ disk \in Snapshots
  /\ up \in BOOLEAN
  /\ interventions \in Nat /\ crashes \in Nat
  /\ loadFailures \in Nat /\ saveFailures \in Nat

Apart(s, t) == ToSet(s) \cap ToSet(t) = {}

(* No job is in two places: it is listed at most once in the retry queue,   *)
(* the priority queues and the lists of the calls in flight together.  So   *)
(* two overlapping processJobs calls never run the same lookup, and an      *)
(* operator's retry never queues a job that is already running.             *)
OnePlace ==
  /\ IsInjective(retryQueue) /\ IsInjective(backlog) /\ IsInjective(deadLetterQueue)
  /\ Apart(retryQueue, backlog)
  /\ \A c \in Calls : /\ IsInjective(held[c])
                      /\ Apart(held[c], retryQueue)
                      /\ Apart(held[c], backlog)
  /\ \A c, d \in Calls : c # d => Apart(held[c], held[d])

(* Where a job is agrees with its status: what is about to run was not      *)
(* finished by somebody else in between, what a call runs is 'processing',  *)
(* and the dead-letter queue lists exactly the dead-lettered jobs.          *)
PlaceMatchesStatus ==
  /\ \A j \in ToSet(retryQueue) : jobs[j].status \in {"pending", "retrying"}
  /\ \A j \in ToSet(backlog) : jobs[j].status = "pending"
  /\ \A j \in Jobs : j \in ToSet(deadLetterQueue) <=> jobs[j].status = "dead_letter"
  /\ \A c \in Calls : \A i \in DOMAIN held[c] :
       jobs[held[c][i]].status \in IF i = 1 THEN {"processing"} ELSE {"pending", "retrying"}

(* completedJobs of a batch is the number of its jobs that are completed:   *)
(* retries, dead-letter revivals and crashes never count a job twice.       *)
CompletedCountExact ==
  \A b \in Batches :
    batches[b].completedJobs = Cardinality({j \in JobsOf(b) : jobs[j].status = "completed"})

(* The verdict of a batch is true of its jobs: 'completed' only when all    *)
(* are, 'failed' only when none is, and no verdict is missing once all are. *)
BatchVerdict ==
  \A b \in Batches :
    LET done == {j \in JobsOf(b) : jobs[j].status = "completed"}
    IN /\ batches[b].status = "completed" => done = JobsOf(b)
       /\ batches[b].status = "failed" => done = {}
       /\ done = JobsOf(b) => batches[b].status \in {"completed", "partially_completed"}

(* A job is dead-lettered only when its attempts are used up, and retried   *)
(* only while some remain, also when an operator resets them mid-flight.    *)
DeadOnlyExhausted ==
  \A j \in Jobs :
    /\ jobs[j].status = "dead_letter" => jobs[j].attempts >= MaxAttempts
    /\ jobs[j].status = "retrying" => jobs[j].attempts \in 1 .. MaxAttempts - 1

(* What is final was earned: the verdict of a batch, and a dead letter.     *)
VerdictsEarned == BatchVerdict /\ DeadOnlyExhausted

(* A call that names no priority leaves no queued job behind that is more   *)
(* urgent than one it took from the priority queues, and takes none from    *)
(* them while a retry is left waiting ("Process retry queue first").        *)
PicksBestFirst ==
  [][\A c \in Calls, n \in 1 .. MaxJobs : ProcessJobs(c, n, AnyPriority) =>
       \A j \in ToSet(held'[c]) \cap ToSet(backlog) :
         /\ retryQueue' = <<>>
         /\ \A k \in ToSet(backlog') : jobs[k].priority <= jobs[j].priority]_vars

(* While the object lives, a completed job stays completed and a batch that *)
(* has a verdict keeps having one.                                          *)
CompletedIsFinal ==
  [][up /\ up' =>
       /\ \A j \in Jobs : jobs[j].status = "completed" => jobs'[j].status = "completed"
       /\ \A b \in Batches : batches[b].status \notin {Unsubmitted, "pending"} =>
                              batches'[b].status \notin {Unsubmitted, "pending"}]_vars

-----------------------------------------------------------------------------
(* The queue implements JobPool *)

Unfinished == {"pending", "processing", "retrying"}

(* What has become of job j, given a jobs map, the ids that are queued and  *)
(* those that calls have claimed.                                           *)
FateOf(j, js, queued, claimed) ==
  CASE js[j].status = Unsubmitted -> "none"
    [] js[j].status = "completed" -> "done"
    [] js[j].status = "dead_letter" -> "dead"
    [] js[j].status \in Unfinished /\ j \in claimed -> "claimed"
    [] js[j].status \in Unfinished /\ j \in queued \ claimed -> "queued"
    [] OTHER -> "lost"

Claimed == UNION {ToSet(held[c]) : c \in Calls}

saved == [j \in Jobs |->
  FateOf(j, disk.jobs, ToSet(disk.retryQueue) \cup ToSet(disk.backlog), {})]

pool == IF ~up THEN saved ELSE [j \in Jobs |->
  FateOf(j, jobs, ToSet(retryQueue) \cup ToSet(backlog), Claimed)]

Pool == INSTANCE JobPool

(* Seen from outside, the queue is a pool in which a job is claimed by one  *)
(* call at a time and leaves it only done, queued again or dead; the jobs   *)
(* a restart cannot recover are exactly those in flight at the last save.   *)
ImplementsJobPool == Pool!PoolSpec

(* A job that is queued or claimed settles, completed or dead-lettered,     *)
(* unless the object that holds it is lost first: whatever order the calls  *)
(* overlap in, however often operators step in (finitely), and also for a   *)
(* job that a restart found queued in the snapshot.                         *)
JobsSettle ==
  \A j \in Jobs : (up /\ pool[j] \in {"queued", "claimed"}) ~>
                  (jobs[j].status \in {"completed", "dead_letter"} \/ ~up)
=============================================================================
