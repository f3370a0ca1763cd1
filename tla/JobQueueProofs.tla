--------------------------- MODULE JobQueueProofs ---------------------------
(***************************************************************************)
(* Proofs about JobQueue, for any batches, priorities, calls and bounds:   *)
(* type correctness, that no job is in two places, that the place of a job *)
(* agrees with its status, that a completed job stays completed, that the  *)
(* counter and the verdict of a batch are earned, that a call takes the    *)
(* most urgent jobs first, and that the queue implements JobPool.          *)
(*                                                                         *)
(* OnePlace and PlaceMatchesStatus are inductive only together, and only   *)
(* with the same facts about the stored snapshot, which a restart turns    *)
(* into the memory.  Consistent states them for either.                    *)
(***************************************************************************)
EXTENDS JobQueue, FunctionTheorems, DataFacts

(* The claims on the queues rq, bl, dl, the lists h of the calls and the    *)
(* jobs map js that OnePlace and PlaceMatchesStatus make.                   *)
Waits(js, rq, bl) ==
  /\ \A j \in ToSet(rq) : js[j].status \in {"pending", "retrying"}
  /\ \A j \in ToSet(bl) : js[j].status = "pending"

Dead(js, dl) == \A j \in Jobs : j \in ToSet(dl) <=> js[j].status = "dead_letter"

OwnList(s, js, rq, bl) ==
  /\ IsInjective(s) /\ Disjoint(s, rq) /\ Disjoint(s, bl)
  /\ s # <<>> => /\ js[Head(s)].status = "processing"
                 /\ \A j \in ToSet(Tail(s)) : js[j].status \in {"pending", "retrying"}

(* No job of a batch exists before the batch does. *)
Fresh(js, bt) ==
  \A j \in Jobs : bt[BatchOf(j)].status = Unsubmitted => js[j].status = Unsubmitted

Queues(js, bt, rq, bl, dl) ==
  /\ IsInjective(rq) /\ IsInjective(bl) /\ IsInjective(dl) /\ Disjoint(rq, bl)
  /\ Waits(js, rq, bl)
  /\ Dead(js, dl)
  /\ Fresh(js, bt)

Consistent(js, bt, rq, bl, dl, h) ==
  /\ Queues(js, bt, rq, bl, dl)
  /\ \A c \in Calls : OwnList(h[c], js, rq, bl)
  /\ \A c, d \in Calls : c # d => Disjoint(h[c], h[d])

DiskQueues ==
  Queues(disk.jobs, disk.batches, disk.retryQueue, disk.backlog, disk.deadLetterQueue)

(* The inductive invariant. *)
IInv ==
  /\ TypeOK
  /\ Consistent(jobs, batches, retryQueue, backlog, deadLetterQueue, held)
  /\ DiskQueues
  /\ ~up => held = [c \in Calls |-> <<>>]

-----------------------------------------------------------------------------
(* Constants and positions *)

LEMMA JobFacts ==
  /\ \A j \in Jobs : BatchOf(j) \in Batches /\ j \in JobsOf(BatchOf(j))
  /\ \A b \in Batches : JobsOf(b) \subseteq Jobs
  /\ \A b \in Batches : /\ Block(b) \in Seq(Jobs) /\ IsInjective(Block(b))
                        /\ ToSet(Block(b)) = JobsOf(b)
  <1>1. \A j \in Jobs : BatchOf(j) \in Batches /\ j \in JobsOf(BatchOf(j))
    BY DEF Jobs, BatchOf, JobsOf
  <1>2. \A b \in Batches : JobsOf(b) \subseteq Jobs
    BY DEF Jobs, JobsOf
  <1>3. ASSUME NEW b \in Batches
        PROVE  /\ Block(b) \in Seq(Jobs) /\ IsInjective(Block(b))
               /\ ToSet(Block(b)) = JobsOf(b)
    <2>1. BatchSize[b] \in Nat
      BY QueueConstants
    <2>2. \A i \in 1 .. BatchSize[b] : <<b, i>> \in Jobs
      BY DEF Jobs
    <2>3. Block(b) \in Seq(Jobs)
      BY <2>1, <2>2, IsASeq DEF Block
    <2>4. IsInjective(Block(b))
      <3>1. /\ DOMAIN Block(b) = 1 .. BatchSize[b]
            /\ \A i \in 1 .. BatchSize[b] : Block(b)[i] = <<b, i>>
        BY DEF Block
      <3>2. ASSUME NEW i \in 1 .. BatchSize[b], NEW k \in 1 .. BatchSize[b],
                   Block(b)[i] = Block(b)[k]
            PROVE  i = k
        <4>1. <<b, i>> = <<b, k>>
          BY <3>1, <3>2
        <4> QED BY <4>1
      <3> DEFINE f == Block(b)
      <3>3. \A i, k \in DOMAIN f : f[i] = f[k] => i = k
        BY <3>1, <3>2
      <3> HIDE DEF f
      <3>4. IsInjective(f)
        BY <3>3 DEF IsInjective
      <3> QED BY <3>4 DEF f
    <2>5. ToSet(Block(b)) = JobsOf(b)
      <3>1. ToSet(Block(b)) = {Block(b)[i] : i \in 1 .. BatchSize[b]}
        BY DEF Block, ToSet
      <3>2. \A i \in 1 .. BatchSize[b] : Block(b)[i] = <<b, i>>
        BY DEF Block
      <3>3. ToSet(Block(b)) = {<<b, i>> : i \in 1 .. BatchSize[b]}
        BY <3>1, <3>2
      <3> QED BY <3>3 DEF JobsOf
    <2> QED BY <2>3, <2>4, <2>5
  <1> QED BY <1>1, <1>2, <1>3

(* Where a job of priority p goes in the backlog is a position of it. *)
LEMMA AheadType ==
  ASSUME TypeOK, NEW p \in Int
  PROVE  Ahead(p) \in 0 .. Len(backlog) /\ Above(p) \in 0 .. Ahead(p)
  <1> DEFINE A == {i \in DOMAIN backlog : jobs[backlog[i]].priority >= p}
             B == {i \in DOMAIN backlog : jobs[backlog[i]].priority > p}
  <1>1. backlog \in Seq(Jobs) /\ Len(backlog) \in Nat /\ DOMAIN backlog = 1 .. Len(backlog)
    BY LenProperties DEF TypeOK
  <1>2. IsFiniteSet(1 .. Len(backlog)) /\ Cardinality(1 .. Len(backlog)) = Len(backlog)
    BY <1>1, FS_Interval
  <1>3. IsFiniteSet(A) /\ Cardinality(A) <= Len(backlog)
    BY <1>1, <1>2, FS_Subset
  <1>4. \A i \in DOMAIN backlog : jobs[backlog[i]].priority \in Int
    BY <1>1 DEF TypeOK, Job
  <1>5. B \subseteq A
    BY <1>4
  <1>6. IsFiniteSet(B) /\ Cardinality(B) <= Cardinality(A)
    BY <1>3, <1>5, FS_Subset
  <1>7. Cardinality(A) \in Nat /\ Cardinality(B) \in Nat
    BY <1>3, <1>6, FS_CardinalityType
  <1> QED BY <1>1, <1>3, <1>6, <1>7 DEF Ahead, Above

(* What a call takes from the backlog is a contiguous part of it. *)
LEMMA PickType ==
  ASSUME TypeOK, NEW n \in Nat, NEW p \in Priorities \cup {AnyPriority}
  PROVE  /\ PickFrom(p) \in 0 .. Len(backlog)
         /\ PickCount(n, p) \in 0 .. Len(backlog) - PickFrom(p)
  <1>1. Len(backlog) \in Nat
    BY LenProperties DEF TypeOK
  <1>2. CASE p = AnyPriority
    BY <1>1, <1>2 DEF PickFrom, PickCount, Lesser
  <1>3. CASE p # AnyPriority
    <2>1. p \in Int
      BY <1>3, QueueConstants
    <2>2. Ahead(p) \in 0 .. Len(backlog) /\ Above(p) \in 0 .. Ahead(p)
      BY <2>1, AheadType
    <2> QED BY <1>1, <1>3, <2>2 DEF PickFrom, PickCount, Lesser
  <1> QED BY <1>2, <1>3

(* Inserting ids into the backlog. *)
LEMMA EnqueuedFacts ==
  ASSUME TypeOK, NEW p \in Int, NEW ids \in Seq(Jobs)
  PROVE  /\ Enqueued(ids, p) \in Seq(Jobs)
         /\ ToSet(Enqueued(ids, p)) = ToSet(backlog) \cup ToSet(ids)
         /\ IsInjective(backlog) /\ IsInjective(ids) /\ Disjoint(backlog, ids)
              => IsInjective(Enqueued(ids, p))
  <1>1. backlog \in Seq(Jobs) /\ Ahead(p) \in 0 .. Len(backlog)
    BY AheadType DEF TypeOK
  <1> QED BY <1>1, InsertFacts DEF Enqueued

(* Save replaces the snapshot by the new memory or leaves it. *)
LEMMA SaveFacts ==
  ASSUME Save, disk \in Snapshots, saveFailures \in Nat,
         jobs' \in [Jobs -> Job], batches' \in [Batches -> Batch],
         retryQueue' \in Seq(Jobs), backlog' \in Seq(Jobs),
         deadLetterQueue' \in Seq(Jobs), processingQueue' \in Nat,
         DiskQueues, Queues(jobs, batches, retryQueue, backlog, deadLetterQueue)'
  PROVE  disk' \in Snapshots /\ saveFailures' \in Nat /\ DiskQueues'
  <1>1. CASE /\ disk' = [jobs |-> jobs', batches |-> batches', retryQueue |-> retryQueue',
                         backlog |-> backlog', deadLetterQueue |-> deadLetterQueue',
                         processingQueue |-> processingQueue']
             /\ UNCHANGED saveFailures
    BY <1>1 DEF Snapshots, DiskQueues, Queues, Waits, Dead, Fresh
  <1>2. CASE saveFailures' = saveFailures + 1 /\ UNCHANGED disk
    BY <1>2 DEF DiskQueues, Queues, Waits, Dead, Fresh
  <1> QED BY <1>1, <1>2 DEF Save

-----------------------------------------------------------------------------
(* One job starts, one job settles *)

LEMMA StartedFacts ==
  ASSUME NEW js \in [Jobs -> Job], NEW j \in Jobs
  PROVE  /\ Started(js, j) \in [Jobs -> Job]
         /\ Started(js, j)[j].status = "processing"
         /\ \A k \in Jobs : k # j => Started(js, j)[k] = js[k]
  <1>1. js[j] \in Job /\ js[j].attempts + 1 \in Nat
    BY DEF Job
  <1>2. Started(js, j)
          = [js EXCEPT ![j] = [js[j] EXCEPT !.status = "processing", !.attempts = @ + 1]]
    BY <1>1 DEF Started
  <1>3. [js[j] EXCEPT !.status = "processing", !.attempts = @ + 1] \in Job
    BY <1>1 DEF Job, JobStatus
  <1> QED BY <1>1, <1>2, <1>3 DEF Job

(* A call whose list s waits, apart from the queues, starts its head. *)
LEMMA StartKeeps ==
  ASSUME NEW js \in [Jobs -> Job], NEW bt,
         NEW rq \in Seq(Jobs), NEW bl \in Seq(Jobs), NEW dl \in Seq(Jobs),
         Queues(js, bt, rq, bl, dl),
         NEW s \in Seq(Jobs), s # <<>>, IsInjective(s), Disjoint(s, rq), Disjoint(s, bl),
         \A j \in ToSet(s) : js[j].status \in {"pending", "retrying"}
  PROVE  /\ Queues(Started(js, Head(s)), bt, rq, bl, dl)
         /\ OwnList(s, Started(js, Head(s)), rq, bl)
         /\ \A t \in Seq(Jobs) : Disjoint(s, t) /\ OwnList(t, js, rq, bl)
              => OwnList(t, Started(js, Head(s)), rq, bl)
  <1> DEFINE h == Head(s)
             js2 == Started(js, h)
  <1>1. /\ h \in Jobs /\ Tail(s) \in Seq(Jobs) /\ ToSet(s) = {h} \cup ToSet(Tail(s))
        /\ h \notin ToSet(Tail(s))
    BY HeadTailFacts
  <1>2. js2[h].status = "processing" /\ \A k \in Jobs : k # h => js2[k] = js[k]
    BY <1>1, StartedFacts
  <1>3. /\ js[h].status \in {"pending", "retrying"} /\ h \notin ToSet(rq) /\ h \notin ToSet(bl)
    BY <1>1 DEF Disjoint
  <1>4. \A t \in Seq(Jobs) : ToSet(t) \subseteq Jobs
    BY ElementOfSeq, LenProperties DEF ToSet
  <1> HIDE DEF h, js2
  <1>5. Queues(js2, bt, rq, bl, dl)
    <2>1. Waits(js2, rq, bl)
      BY <1>2, <1>3, <1>4 DEF Queues, Waits
    <2>2. Dead(js2, dl)
      BY <1>2, <1>3 DEF Queues, Dead
    <2>3. Fresh(js2, bt)
      BY <1>1, <1>2, <1>3 DEF Queues, Fresh, Unsubmitted
    <2> QED BY <2>1, <2>2, <2>3 DEF Queues
  <1>6. OwnList(s, js2, rq, bl)
    BY <1>1, <1>2, <1>4 DEF OwnList, h
  <1>7. ASSUME NEW t \in Seq(Jobs), Disjoint(s, t), OwnList(t, js, rq, bl)
        PROVE  OwnList(t, js2, rq, bl)
    <2>1. CASE t = <<>>
      BY <1>7, <2>1 DEF OwnList
    <2>2. CASE t # <<>>
      <3>1. Head(t) \in ToSet(t) /\ ToSet(Tail(t)) \subseteq ToSet(t) /\ h \notin ToSet(t)
        BY <1>1, <1>7, <2>2, HeadTailFacts DEF Disjoint
      <3>2. \A k \in ToSet(t) : js2[k] = js[k]
        BY <3>1, <1>2, <1>4
      <3> QED BY <1>7, <2>2, <3>1, <3>2 DEF OwnList
    <2> QED BY <2>1, <2>2
  <1> QED BY <1>5, <1>6, <1>7 DEF h, js2

(* The lists of the calls stay apart when one of them is replaced by a list *)
(* apart from the others.                                                   *)
LEMMA ListsApart ==
  ASSUME NEW h, NEW h2, NEW c \in Calls, NEW s,
         h \in [Calls -> Seq(Jobs)], s \in Seq(Jobs), h2 = [h EXCEPT ![c] = s],
         \A d, e \in Calls : d # e => Disjoint(h[d], h[e]),
         \A d \in Calls : d # c => Disjoint(s, h[d])
  PROVE  /\ h2 \in [Calls -> Seq(Jobs)]
         /\ h2[c] = s /\ \A d \in Calls : d # c => h2[d] = h[d]
         /\ \A d, e \in Calls : d # e => Disjoint(h2[d], h2[e])
  <1>1. /\ h2 \in [Calls -> Seq(Jobs)]
        /\ h2[c] = s /\ \A d \in Calls : d # c => h2[d] = h[d]
    OBVIOUS
  <1>2. ASSUME NEW d \in Calls, NEW e \in Calls, d # e PROVE Disjoint(h2[d], h2[e])
    <2>1. CASE d = c
      BY <1>1, <1>2, <2>1
    <2>2. CASE e = c
      <3>1. Disjoint(h2[e], h2[d])
        BY <1>1, <1>2, <2>2
      <3> QED BY <3>1 DEF Disjoint
    <2>3. CASE d # c /\ e # c
      BY <1>1, <1>2, <2>3
    <2> QED BY <2>1, <2>2, <2>3
  <1> QED BY <1>1, <1>2


(* A call whose head job is settled goes on: js is the jobs map by then and *)
(* the primed queues hold what the settling did.                            *)
LEMMA ProceedKeeps ==
  ASSUME IInv, up, NEW c \in Calls, held[c] # <<>>,
         NEW js \in [Jobs -> Job],
         \A k \in Jobs : k # Head(held[c]) => js[k] = jobs[k],
         batches' \in [Batches -> Batch], retryQueue' \in Seq(Jobs), backlog' \in Seq(Jobs),
         deadLetterQueue' \in Seq(Jobs), UNCHANGED processingQueue,
         ToSet(retryQueue') \subseteq ToSet(retryQueue) \cup {Head(held[c])},
         ToSet(backlog') \subseteq ToSet(backlog),
         Queues(js, batches', retryQueue', backlog', deadLetterQueue'),
         Proceed(c, js), UNCHANGED <<up, interventions, crashes, loadFailures>>
  PROVE  IInv'
  <1> DEFINE h == Head(held[c])
             t == Tail(held[c])
  <1>0. /\ held \in [Calls -> Seq(Jobs)] /\ held[c] \in Seq(Jobs)
        /\ OwnList(held[c], jobs, retryQueue, backlog)
        /\ \A d \in Calls : OwnList(held[d], jobs, retryQueue, backlog)
        /\ \A d, e \in Calls : d # e => Disjoint(held[d], held[e])
    BY DEF IInv, TypeOK, Consistent
  <1>1. /\ h \in Jobs /\ t \in Seq(Jobs) /\ ToSet(held[c]) = {h} \cup ToSet(t)
        /\ IsInjective(t) /\ h \notin ToSet(t)
    BY <1>0, HeadTailFacts DEF OwnList
  <1>2. /\ Disjoint(t, retryQueue') /\ Disjoint(t, backlog')
        /\ \A j \in ToSet(t) : js[j].status \in {"pending", "retrying"}
    <2>1. ToSet(t) \subseteq Jobs
      BY <1>1, LenProperties, ElementOfSeq DEF ToSet
    <2>2. Disjoint(held[c], retryQueue) /\ Disjoint(held[c], backlog)
      BY <1>0 DEF OwnList
    <2>3. \A j \in ToSet(t) : jobs[j].status \in {"pending", "retrying"}
      BY <1>0 DEF OwnList
    <2> HIDE DEF h, t
    <2>4. \A k \in Jobs : k # h => js[k] = jobs[k]
      BY DEF h
    <2>5. ToSet(retryQueue') \subseteq ToSet(retryQueue) \cup {h}
      BY DEF h
    <2> QED BY <1>1, <2>1, <2>2, <2>3, <2>4, <2>5 DEF Disjoint
  <1>3. ASSUME NEW d \in Calls, d # c
        PROVE  OwnList(held[d], js, retryQueue', backlog') /\ Disjoint(t, held[d])
    <2>1. Disjoint(held[c], held[d]) /\ held[d] \in Seq(Jobs)
      BY <1>0, <1>3
    <2>2. h \notin ToSet(held[d]) /\ Disjoint(t, held[d])
      BY <1>1, <2>1 DEF Disjoint
    <2>3. OwnList(held[d], jobs, retryQueue, backlog)
      BY <1>0
    <2>4. ToSet(held[d]) \subseteq Jobs
      BY <2>1, LenProperties, ElementOfSeq DEF ToSet
    <2>5. \A k \in ToSet(held[d]) : js[k] = jobs[k]
      BY <2>2, <2>4
    <2>6. Disjoint(held[d], retryQueue') /\ Disjoint(held[d], backlog')
      <3> HIDE DEF h
      <3>1. ToSet(retryQueue') \subseteq ToSet(retryQueue) \cup {h}
        BY DEF h
      <3> QED BY <2>2, <2>3, <3>1 DEF Disjoint, OwnList
    <2>7. held[d] # <<>> => /\ Head(held[d]) \in ToSet(held[d])
                            /\ ToSet(Tail(held[d])) \subseteq ToSet(held[d])
      BY <2>1, HeadTailFacts
    <2>8. OwnList(held[d], js, retryQueue', backlog')
      BY <2>3, <2>5, <2>6, <2>7 DEF OwnList
    <2> QED BY <2>2, <2>8
  <1>4. /\ held' \in [Calls -> Seq(Jobs)] /\ held'[c] = t
        /\ \A d \in Calls : d # c => held'[d] = held[d]
        /\ \A d, e \in Calls : d # e => Disjoint(held'[d], held'[e])
    <2>1. held' = [held EXCEPT ![c] = t]
      BY DEF Proceed
    <2>2. t \in Seq(Jobs)
      BY <1>1
    <2> HIDE DEF t
    <2>3. held \in [Calls -> Seq(Jobs)] /\ \A d, e \in Calls : d # e => Disjoint(held[d], held[e])
      BY <1>0
    <2>4. \A d \in Calls : d # c => Disjoint(t, held[d])
      BY <1>3
    <2> DEFINE g == held'
    <2>5. g = [held EXCEPT ![c] = t]
      BY <2>1
    <2> HIDE DEF g
    <2>6. /\ g \in [Calls -> Seq(Jobs)]
          /\ g[c] = t /\ \A d \in Calls : d # c => g[d] = held[d]
          /\ \A d, e \in Calls : d # e => Disjoint(g[d], g[e])
      BY ONLY c \in Calls, <2>2, <2>3, <2>4, <2>5, ListsApart
    <2> QED BY <2>6 DEF g
  <1>5. CASE t # <<>> /\ jobs' = Started(js, Head(t)) /\ UNCHANGED <<disk, saveFailures>>
    <2>1. /\ Queues(jobs, batches, retryQueue, backlog, deadLetterQueue)'
          /\ OwnList(t, jobs', retryQueue', backlog')
          /\ \A s \in Seq(Jobs) : Disjoint(t, s) /\ OwnList(s, js, retryQueue', backlog')
               => OwnList(s, jobs', retryQueue', backlog')
      <3> HIDE DEF t
      <3>1. /\ Queues(Started(js, Head(t)), batches', retryQueue', backlog', deadLetterQueue')
            /\ OwnList(t, Started(js, Head(t)), retryQueue', backlog')
            /\ \A s \in Seq(Jobs) : Disjoint(t, s) /\ OwnList(s, js, retryQueue', backlog')
                 => OwnList(s, Started(js, Head(t)), retryQueue', backlog')
        BY <1>1, <1>2, <1>5, StartKeeps
      <3> QED BY <3>1, <1>5 DEF Queues, Waits, Dead, Fresh
    <2>2. \A d \in Calls : OwnList(held'[d], jobs', retryQueue', backlog')
      BY <2>1, <1>0, <1>3, <1>4
    <2>3. Consistent(jobs, batches, retryQueue, backlog, deadLetterQueue, held)'
      BY <2>1, <2>2, <1>4 DEF Consistent, OwnList
    <2>4. Head(t) \in Jobs
      BY <1>1, <1>5, HeadTailFacts
    <2>5. jobs' \in [Jobs -> Job]
      BY <1>5, <2>4, StartedFacts
    <2>6. TypeOK'
      BY <2>5, <1>4, <1>5 DEF IInv, TypeOK
    <2>7. DiskQueues'
      BY <1>5 DEF IInv, DiskQueues, Queues, Waits, Dead, Fresh
    <2> QED BY <2>3, <2>6, <2>7 DEF IInv
  <1>6. CASE t = <<>> /\ jobs' = js /\ Save
    <2>1. Queues(jobs, batches, retryQueue, backlog, deadLetterQueue)'
      BY <1>6 DEF Queues, Waits, Dead, Fresh
    <2>2. disk' \in Snapshots /\ saveFailures' \in Nat /\ DiskQueues'
      BY <1>6, <2>1, SaveFacts DEF IInv, TypeOK
    <2>3. OwnList(<<>>, jobs', retryQueue', backlog')
      BY DEF OwnList, Disjoint, IsInjective, ToSet
    <2>4. \A d \in Calls : OwnList(held'[d], jobs', retryQueue', backlog')
      BY <2>3, <1>3, <1>4, <1>6
    <2>5. Consistent(jobs, batches, retryQueue, backlog, deadLetterQueue, held)'
      BY <2>1, <2>4, <1>4 DEF Consistent, OwnList
    <2>6. TypeOK'
      BY <2>2, <1>4, <1>6 DEF IInv, TypeOK
    <2> QED BY <2>2, <2>5, <2>6 DEF IInv
  <1> QED BY <1>5, <1>6 DEF Proceed


-----------------------------------------------------------------------------
(* The three ends of a run *)

(* The counters and the verdict leave the batch submitted. *)
LEMMA CountedFacts ==
  ASSUME NEW bt \in Batch, bt.status # Unsubmitted, NEW total, NEW done \in Nat,
         NEW failed \in Nat, NEW verdict \in BatchStatus \ {Unsubmitted}
  PROVE  /\ Counted(bt, total, done, failed, verdict) \in Batch
         /\ Counted(bt, total, done, failed, verdict).status # Unsubmitted
  <1> DEFINE counted == [bt EXCEPT !.completedJobs = @ + done, !.failedJobs = @ + failed]
  <1>0. bt.completedJobs + done \in Nat /\ bt.failedJobs + failed \in Nat
    BY DEF Batch
  <1>1. counted \in Batch /\ counted.status = bt.status
    BY <1>0 DEF Batch
  <1>2. [counted EXCEPT !.status = verdict] \in Batch
        /\ [counted EXCEPT !.status = verdict].status = verdict
    BY <1>1 DEF Batch
  <1> HIDE DEF counted
  <1>3. Counted(bt, total, done, failed, verdict) = IF counted.completedJobs + counted.failedJobs >= total
          THEN [counted EXCEPT !.status = verdict] ELSE counted
    BY DEF Counted, counted
  <1> QED BY <1>1, <1>2, <1>3

(* The head of a call's list. *)
LEMMA HeadFacts ==
  ASSUME IInv, NEW c \in Calls, held[c] # <<>>
  PROVE  LET j == Head(held[c])
         IN /\ j \in Jobs /\ BatchOf(j) \in Batches
            /\ jobs[j] \in Job /\ jobs[j].status = "processing"
            /\ batches[BatchOf(j)] \in Batch /\ batches[BatchOf(j)].status # Unsubmitted
            /\ j \notin ToSet(retryQueue) /\ j \notin ToSet(backlog)
            /\ j \notin ToSet(deadLetterQueue)
  <1> DEFINE j == Head(held[c])
  <1>1. held[c] \in Seq(Jobs) /\ OwnList(held[c], jobs, retryQueue, backlog)
    BY DEF IInv, TypeOK, Consistent
  <1>2. j \in Jobs /\ j \in ToSet(held[c])
    BY <1>1, HeadTailFacts
  <1>3. BatchOf(j) \in Batches
    BY <1>2, JobFacts
  <1>4. jobs[j].status = "processing"
    BY <1>1 DEF OwnList
  <1>5. jobs[j] \in Job /\ batches[BatchOf(j)] \in Batch
    BY <1>2, <1>3 DEF IInv, TypeOK
  <1>6. j \notin ToSet(retryQueue) /\ j \notin ToSet(backlog)
    BY <1>1, <1>2 DEF OwnList, Disjoint
  <1>7. j \notin ToSet(deadLetterQueue)
    BY <1>2, <1>4 DEF IInv, Consistent, Queues, Dead
  <1>8. batches[BatchOf(j)].status # Unsubmitted
    BY <1>2, <1>4 DEF IInv, Consistent, Queues, Fresh, Unsubmitted
  <1> QED BY <1>2, <1>3, <1>4, <1>5, <1>6, <1>7, <1>8

(* Settling the head j of a call: the jobs map changes at j only, to a      *)
(* status that the queues which then list j ask for.                        *)
LEMMA SettleKeeps ==
  ASSUME IInv, NEW c \in Calls, held[c] # <<>>,
         NEW j \in Jobs, j = Head(held[c]),
         NEW js \in [Jobs -> Job], NEW bt \in [Batches -> Batch],
         \A k \in Jobs : k # j => js[k] = jobs[k],
         \A b \in Batches : bt[b] = batches[b] \/ bt[b].status # Unsubmitted,
         bt[BatchOf(j)].status # Unsubmitted,
         NEW rq \in Seq(Jobs), NEW bl \in Seq(Jobs), NEW dl \in Seq(Jobs),
         IsInjective(rq), IsInjective(bl), IsInjective(dl),
         ToSet(bl) = ToSet(backlog),
         \/ /\ js[j].status = "completed"
            /\ ToSet(rq) = ToSet(retryQueue) /\ ToSet(dl) = ToSet(deadLetterQueue)
         \/ /\ js[j].status = "retrying"
            /\ ToSet(rq) = ToSet(retryQueue) \cup {j} /\ ToSet(dl) = ToSet(deadLetterQueue)
         \/ /\ js[j].status = "dead_letter"
            /\ ToSet(rq) = ToSet(retryQueue) /\ ToSet(dl) = ToSet(deadLetterQueue) \cup {j}
  PROVE  Queues(js, bt, rq, bl, dl)
  <1>1. /\ jobs[j].status = "processing"
        /\ j \notin ToSet(retryQueue) /\ j \notin ToSet(backlog) /\ j \notin ToSet(deadLetterQueue)
    BY HeadFacts
  <1>2. /\ Disjoint(retryQueue, backlog) /\ Waits(jobs, retryQueue, backlog)
        /\ Dead(jobs, deadLetterQueue) /\ Fresh(jobs, batches)
    BY DEF IInv, Consistent, Queues
  <1>3. ToSet(retryQueue) \subseteq Jobs /\ ToSet(backlog) \subseteq Jobs
    BY LenProperties, ElementOfSeq DEF ToSet, IInv, TypeOK
  <1>4. Disjoint(rq, bl)
    BY <1>1, <1>2 DEF Disjoint
  <1>5. Waits(js, rq, bl)
    BY <1>1, <1>2, <1>3 DEF Waits
  <1>6. Dead(js, dl)
    BY <1>1, <1>2 DEF Dead
  <1>7. Fresh(js, bt)
    BY <1>2, JobFacts DEF Fresh
  <1> QED BY <1>4, <1>5, <1>6, <1>7 DEF Queues

LEMMA RunSucceedsKeeps ==
  ASSUME IInv, NEW c \in Calls, RunSucceeds(c) PROVE IInv'
  <1> DEFINE j == Head(held[c])
             js == [jobs EXCEPT ![j].status = "completed"]
             verdict == IF batches[BatchOf(j)].failedJobs > 0
                        THEN "partially_completed" ELSE "completed"
             cnt == Counted(batches[BatchOf(j)], BatchSize[BatchOf(j)], 1, 0, verdict)
  <1>1. /\ up /\ held[c] # <<>> /\ Proceed(c, js)
        /\ batches' = [batches EXCEPT ![BatchOf(j)] = cnt]
        /\ UNCHANGED <<retryQueue, backlog, deadLetterQueue, processingQueue>>
        /\ UNCHANGED <<up, interventions, crashes, loadFailures>>
    BY DEF RunSucceeds
  <1>2. /\ j \in Jobs /\ BatchOf(j) \in Batches /\ jobs[j] \in Job
        /\ batches[BatchOf(j)] \in Batch /\ batches[BatchOf(j)].status # Unsubmitted
    BY <1>1, HeadFacts
  <1>3. verdict \in BatchStatus \ {Unsubmitted}
    BY DEF BatchStatus, Unsubmitted
  <1> HIDE DEF verdict
  <1>4. cnt \in Batch /\ cnt.status # Unsubmitted
    BY <1>2, <1>3, CountedFacts
  <1> HIDE DEF cnt
  <1>5. /\ js \in [Jobs -> Job] /\ js[j].status = "completed"
        /\ \A k \in Jobs : k # j => js[k] = jobs[k]
    BY <1>2 DEF IInv, TypeOK, Job, JobStatus
  <1> HIDE DEF js, j
  <1>6. /\ batches' \in [Batches -> Batch] /\ batches'[BatchOf(j)].status # Unsubmitted
        /\ \A b \in Batches : batches'[b] = batches[b] \/ batches'[b].status # Unsubmitted
    BY <1>1, <1>2, <1>4 DEF IInv, TypeOK
  <1>7. /\ retryQueue \in Seq(Jobs) /\ backlog \in Seq(Jobs) /\ deadLetterQueue \in Seq(Jobs)
        /\ IsInjective(retryQueue) /\ IsInjective(backlog) /\ IsInjective(deadLetterQueue)
    BY DEF IInv, TypeOK, Consistent, Queues
  <1>8. Queues(js, batches', retryQueue, backlog, deadLetterQueue)
    BY <1>1, <1>2, <1>5, <1>6, <1>7, SettleKeeps DEF j
  <1> QED BY <1>1, <1>5, <1>6, <1>7, <1>8, ProceedKeeps DEF j

(* What the failure of a run does to the batches. *)
LEMMA CountFailureFacts ==
  ASSUME IInv, NEW b \in Batches, batches[b].status # Unsubmitted, CountFailure(b)
  PROVE  /\ batches' \in [Batches -> Batch] /\ batches'[b].status # Unsubmitted
         /\ \A a \in Batches : batches'[a] = batches[a] \/ batches'[a].status # Unsubmitted
  <1> DEFINE verdict == IF batches[b].completedJobs > 0 THEN "partially_completed" ELSE "failed"
             cnt == Counted(batches[b], BatchSize[b], 0, 1, verdict)
  <1>1. batches' = [batches EXCEPT ![b] = cnt] /\ batches \in [Batches -> Batch]
    BY DEF CountFailure, IInv, TypeOK
  <1>2. verdict \in BatchStatus \ {Unsubmitted}
    BY DEF BatchStatus, Unsubmitted
  <1> HIDE DEF verdict
  <1>3. batches[b] \in Batch
    BY <1>1
  <1>4. cnt \in Batch /\ cnt.status # Unsubmitted
    BY <1>2, <1>3, CountedFacts
  <1> HIDE DEF cnt
  <1> QED BY <1>1, <1>4

LEMMA RunFailsRetryKeeps ==
  ASSUME IInv, NEW c \in Calls, RunFailsRetry(c) PROVE IInv'
  <1> DEFINE j == Head(held[c])
             js == [jobs EXCEPT ![j].status = "retrying", ![j].nextRetryAt = "ahead"]
  <1>1. /\ up /\ held[c] # <<>> /\ Proceed(c, js)
        /\ retryQueue' = Append(retryQueue, j) /\ CountFailure(BatchOf(j))
        /\ UNCHANGED <<backlog, deadLetterQueue, processingQueue>>
        /\ UNCHANGED <<up, interventions, crashes, loadFailures>>
    BY DEF RunFailsRetry
  <1>2. /\ j \in Jobs /\ BatchOf(j) \in Batches /\ jobs[j] \in Job
        /\ batches[BatchOf(j)].status # Unsubmitted
        /\ j \notin ToSet(retryQueue)
    BY <1>1, HeadFacts
  <1>3. /\ js \in [Jobs -> Job] /\ js[j].status = "retrying"
        /\ \A k \in Jobs : k # j => js[k] = jobs[k]
    <2>1. js = [jobs EXCEPT ![j] =
                 [jobs[j] EXCEPT !.status = "retrying", !.nextRetryAt = "ahead"]]
      BY <1>2 DEF IInv, TypeOK
    <2>2. [jobs[j] EXCEPT !.status = "retrying", !.nextRetryAt = "ahead"] \in Job
      BY <1>2 DEF Job, JobStatus, Backoff
    <2> HIDE DEF js
    <2> QED BY <1>2, <2>1, <2>2 DEF IInv, TypeOK, Job
  <1> HIDE DEF js, j
  <1>4. /\ batches' \in [Batches -> Batch] /\ batches'[BatchOf(j)].status # Unsubmitted
        /\ \A b \in Batches : batches'[b] = batches[b] \/ batches'[b].status # Unsubmitted
    BY <1>1, <1>2, CountFailureFacts
  <1>5. /\ retryQueue \in Seq(Jobs) /\ backlog \in Seq(Jobs) /\ deadLetterQueue \in Seq(Jobs)
        /\ IsInjective(retryQueue) /\ IsInjective(backlog) /\ IsInjective(deadLetterQueue)
    BY DEF IInv, TypeOK, Consistent, Queues
  <1>6. /\ retryQueue' \in Seq(Jobs) /\ ToSet(retryQueue') = ToSet(retryQueue) \cup {j}
        /\ IsInjective(retryQueue')
    BY <1>1, <1>2, <1>5, AppendFacts
  <1>7. Queues(js, batches', retryQueue', backlog, deadLetterQueue)
    BY <1>1, <1>2, <1>3, <1>4, <1>5, <1>6, SettleKeeps DEF j
  <1> QED BY <1>1, <1>3, <1>4, <1>5, <1>6, <1>7, ProceedKeeps DEF j

LEMMA RunFailsDeadKeeps ==
  ASSUME IInv, NEW c \in Calls, RunFailsDead(c) PROVE IInv'
  <1> DEFINE j == Head(held[c])
             js == [jobs EXCEPT ![j].status = "dead_letter"]
  <1>1. /\ up /\ held[c] # <<>> /\ Proceed(c, js)
        /\ retryQueue' = RemoveFirst(retryQueue, j) /\ backlog' = RemoveFirst(backlog, j)
        /\ deadLetterQueue' = Append(deadLetterQueue, j) /\ CountFailure(BatchOf(j))
        /\ UNCHANGED processingQueue
        /\ UNCHANGED <<up, interventions, crashes, loadFailures>>
    BY DEF RunFailsDead
  <1>2. /\ j \in Jobs /\ BatchOf(j) \in Batches /\ jobs[j] \in Job
        /\ batches[BatchOf(j)].status # Unsubmitted
        /\ j \notin ToSet(retryQueue) /\ j \notin ToSet(backlog) /\ j \notin ToSet(deadLetterQueue)
    BY <1>1, HeadFacts
  <1>3. /\ js \in [Jobs -> Job] /\ js[j].status = "dead_letter"
        /\ \A k \in Jobs : k # j => js[k] = jobs[k]
    BY <1>2 DEF IInv, TypeOK, Job, JobStatus
  <1> HIDE DEF js, j
  <1>4. /\ batches' \in [Batches -> Batch] /\ batches'[BatchOf(j)].status # Unsubmitted
        /\ \A b \in Batches : batches'[b] = batches[b] \/ batches'[b].status # Unsubmitted
    BY <1>1, <1>2, CountFailureFacts
  <1>5. /\ retryQueue \in Seq(Jobs) /\ backlog \in Seq(Jobs) /\ deadLetterQueue \in Seq(Jobs)
        /\ IsInjective(retryQueue) /\ IsInjective(backlog) /\ IsInjective(deadLetterQueue)
    BY DEF IInv, TypeOK, Consistent, Queues
  <1>6. /\ retryQueue' \in Seq(Jobs) /\ ToSet(retryQueue') = ToSet(retryQueue) \ {j}
        /\ IsInjective(retryQueue')
    BY <1>1, <1>5, RemoveFirstFacts
  <1>7. /\ backlog' \in Seq(Jobs) /\ ToSet(backlog') = ToSet(backlog) \ {j}
        /\ IsInjective(backlog')
    BY <1>1, <1>5, RemoveFirstFacts
  <1>8. /\ deadLetterQueue' \in Seq(Jobs) /\ IsInjective(deadLetterQueue')
        /\ ToSet(deadLetterQueue') = ToSet(deadLetterQueue) \cup {j}
    BY <1>1, <1>2, <1>5, AppendFacts
  <1>9. ToSet(retryQueue') = ToSet(retryQueue) /\ ToSet(backlog') = ToSet(backlog)
    BY <1>2, <1>6, <1>7
  <1>10. Queues(js, batches', retryQueue', backlog', deadLetterQueue')
    BY <1>1, <1>2, <1>3, <1>4, <1>6, <1>7, <1>8, <1>9, SettleKeeps DEF j
  <1> QED BY <1>1, <1>3, <1>4, <1>6, <1>7, <1>8, <1>9, <1>10, ProceedKeeps DEF j

-----------------------------------------------------------------------------
(* The other handlers *)

(* A handler that touches no call's list, and changes only jobs that are in *)
(* no list, keeps the claims on the lists.                                  *)
LEMMA ListsKeep ==
  ASSUME IInv, NEW js \in [Jobs -> Job], NEW rq \in Seq(Jobs), NEW bl \in Seq(Jobs),
         \A c \in Calls : \A k \in ToSet(held[c]) :
           /\ js[k].status = jobs[k].status
                \/ /\ jobs[k].status \in {"pending", "retrying"}
                   /\ js[k].status \in {"pending", "retrying"}
           /\ k \notin ToSet(rq) /\ k \notin ToSet(bl),
         Queues(js, batches', rq, bl, deadLetterQueue'),
         jobs' = js, retryQueue' = rq, backlog' = bl, held' = held
  PROVE  Consistent(jobs, batches, retryQueue, backlog, deadLetterQueue, held)'
  <1>1. ASSUME NEW c \in Calls PROVE OwnList(held[c], js, rq, bl)
    <2>1. held[c] \in Seq(Jobs) /\ OwnList(held[c], jobs, retryQueue, backlog)
      BY DEF IInv, TypeOK, Consistent
    <2>2. Disjoint(held[c], rq) /\ Disjoint(held[c], bl)
      BY DEF Disjoint
    <2>3. held[c] # <<>> => /\ Head(held[c]) \in ToSet(held[c])
                            /\ ToSet(Tail(held[c])) \subseteq ToSet(held[c])
      BY <2>1, HeadTailFacts
    <2>4. ASSUME held[c] # <<>>
          PROVE  /\ js[Head(held[c])].status = "processing"
                 /\ \A k \in ToSet(Tail(held[c])) : js[k].status \in {"pending", "retrying"}
      BY <2>1, <2>3, <2>4 DEF OwnList
    <2> QED BY <2>1, <2>2, <2>4 DEF OwnList
  <1>2. \A c, d \in Calls : c # d => Disjoint(held[c], held[d])
    BY DEF IInv, Consistent
  <1>3. Queues(jobs, batches, retryQueue, backlog, deadLetterQueue)'
    BY DEF Queues, Waits, Dead, Fresh
  <1> QED BY <1>1, <1>2, <1>3 DEF Consistent, OwnList

LEMMA ListElements ==
  ASSUME IInv, NEW c \in Calls, NEW k \in ToSet(held[c])
  PROVE  /\ k \in Jobs /\ jobs[k].status \in {"processing", "pending", "retrying"}
         /\ k \notin ToSet(retryQueue) /\ k \notin ToSet(backlog)
  <1>1. held[c] \in Seq(Jobs) /\ OwnList(held[c], jobs, retryQueue, backlog)
    BY DEF IInv, TypeOK, Consistent
  <1>2. held[c] # <<>>
    BY EmptySeq, LenProperties DEF ToSet
  <1>3. ToSet(held[c]) = {Head(held[c])} \cup ToSet(Tail(held[c]))
    BY <1>1, <1>2, HeadTailFacts
  <1>4. k \in Jobs
    BY <1>1, LenProperties, ElementOfSeq DEF ToSet
  <1> QED BY <1>1, <1>2, <1>3, <1>4 DEF OwnList, Disjoint

(* What a handler that saves and leaves the calls alone still has to show.  *)
LEMMA SavedKeeps ==
  ASSUME IInv, up, up' = up, held' = held, Save,
         jobs' \in [Jobs -> Job], batches' \in [Batches -> Batch],
         retryQueue' \in Seq(Jobs), backlog' \in Seq(Jobs),
         deadLetterQueue' \in Seq(Jobs), processingQueue' \in Nat,
         interventions' \in Nat, UNCHANGED <<crashes, loadFailures>>,
         Consistent(jobs, batches, retryQueue, backlog, deadLetterQueue, held)'
  PROVE  IInv'
  <1>1. disk \in Snapshots /\ saveFailures \in Nat /\ DiskQueues
    BY DEF IInv, TypeOK
  <1>2. Queues(jobs, batches, retryQueue, backlog, deadLetterQueue)'
    BY DEF Consistent
  <1>3. disk' \in Snapshots /\ saveFailures' \in Nat /\ DiskQueues'
    BY <1>1, <1>2, SaveFacts
  <1>4. TypeOK'
    BY <1>3 DEF IInv, TypeOK
  <1> QED BY <1>3, <1>4 DEF IInv

(* The jobs of a batch that does not exist yet are listed nowhere.          *)
LEMMA FreshElsewhere ==
  ASSUME IInv, NEW b \in Batches, batches[b].status = Unsubmitted, NEW j \in JobsOf(b)
  PROVE  /\ j \in Jobs /\ jobs[j].status = Unsubmitted
         /\ j \notin ToSet(retryQueue) /\ j \notin ToSet(backlog)
         /\ j \notin ToSet(deadLetterQueue)
         /\ \A c \in Calls : j \notin ToSet(held[c])
  <1>1. j \in Jobs /\ BatchOf(j) = b
    BY JobFacts DEF JobsOf, BatchOf
  <1>2. jobs[j].status = Unsubmitted
    BY <1>1 DEF IInv, Consistent, Queues, Fresh
  <1>3. /\ Waits(jobs, retryQueue, backlog) /\ Dead(jobs, deadLetterQueue)
    BY DEF IInv, Consistent, Queues
  <1>4. \A c \in Calls : j \notin ToSet(held[c])
    BY <1>2, ListElements DEF Unsubmitted
  <1> QED BY <1>1, <1>2, <1>3, <1>4 DEF Waits, Dead, Unsubmitted

LEMMA SubmitBatchKeeps ==
  ASSUME IInv, NEW b \in Batches, NEW p \in Priorities, SubmitBatch(b, p) PROVE IInv'
  <1> DEFINE js == [j \in Jobs |-> IF j \in JobsOf(b) THEN NewJob(p) ELSE jobs[j]]
             bl == Enqueued(Block(b), p)
  <1>1. /\ up /\ batches[b].status = Unsubmitted /\ jobs' = js
        /\ batches' = [batches EXCEPT ![b] = NewBatch] /\ backlog' = bl
        /\ UNCHANGED <<retryQueue, deadLetterQueue, processingQueue>> /\ Save
        /\ UNCHANGED <<held, up, interventions, crashes, loadFailures>>
    BY DEF SubmitBatch
  <1>2. p \in Int /\ NewJob(p) \in Job /\ NewJob(p).status = "pending"
    BY QueueConstants DEF NewJob, Job, JobStatus, Backoff
  <1>3. /\ js \in [Jobs -> Job]
        /\ \A j \in JobsOf(b) : js[j].status = "pending"
        /\ \A j \in Jobs \ JobsOf(b) : js[j] = jobs[j]
    <2>1. jobs \in [Jobs -> Job] /\ JobsOf(b) \subseteq Jobs
      BY JobFacts DEF IInv, TypeOK
    <2> QED BY <1>2, <2>1
  <1>4. /\ batches' \in [Batches -> Batch] /\ batches'[b].status # Unsubmitted
        /\ \A a \in Batches : a # b => batches'[a] = batches[a]
    BY <1>1 DEF IInv, TypeOK, NewBatch, Batch, BatchStatus, Unsubmitted
  <1>5. \A j \in JobsOf(b) : /\ j \in Jobs /\ jobs[j].status = Unsubmitted
                             /\ j \notin ToSet(retryQueue) /\ j \notin ToSet(backlog)
                             /\ j \notin ToSet(deadLetterQueue)
                             /\ \A c \in Calls : j \notin ToSet(held[c])
    BY <1>1, FreshElsewhere
  <1>6. /\ Block(b) \in Seq(Jobs) /\ IsInjective(Block(b)) /\ ToSet(Block(b)) = JobsOf(b)
    BY JobFacts
  <1>7. TypeOK /\ IsInjective(backlog)
    BY DEF IInv, Consistent, Queues
  <1>8. Disjoint(backlog, Block(b))
    BY <1>5, <1>6 DEF Disjoint
  <1>9. bl \in Seq(Jobs) /\ ToSet(bl) = ToSet(backlog) \cup JobsOf(b) /\ IsInjective(bl)
    BY <1>2, <1>6, <1>7, <1>8, EnqueuedFacts
  <1>10. /\ retryQueue \in Seq(Jobs) /\ deadLetterQueue \in Seq(Jobs)
         /\ IsInjective(retryQueue) /\ IsInjective(deadLetterQueue)
         /\ Disjoint(retryQueue, backlog)
         /\ Waits(jobs, retryQueue, backlog) /\ Dead(jobs, deadLetterQueue)
         /\ Fresh(jobs, batches)
    BY DEF IInv, TypeOK, Consistent, Queues
  <1> HIDE DEF js, bl
  <1>11. Queues(js, batches', retryQueue, bl, deadLetterQueue)
    <2>1. Disjoint(retryQueue, bl)
      BY <1>5, <1>9, <1>10 DEF Disjoint
    <2>2. ToSet(retryQueue) \subseteq Jobs /\ ToSet(bl) \subseteq Jobs /\ ToSet(backlog) \subseteq Jobs
      BY <1>7, <1>9, <1>10, LenProperties, ElementOfSeq DEF ToSet, TypeOK
    <2>3. Waits(js, retryQueue, bl)
      BY <1>3, <1>5, <1>9, <1>10, <2>2 DEF Waits
    <2>4. Dead(js, deadLetterQueue)
      BY <1>3, <1>5, <1>10 DEF Dead, Unsubmitted
    <2>5. Fresh(js, batches')
      <3>1. \A j \in Jobs : BatchOf(j) \in Batches /\ (BatchOf(j) # b => j \notin JobsOf(b))
        BY JobFacts DEF JobsOf, BatchOf
      <3> QED BY <1>3, <1>4, <1>10, <3>1 DEF Fresh
    <2> QED BY <1>9, <1>10, <2>1, <2>3, <2>4, <2>5 DEF Queues
  <1>12. ASSUME NEW c \in Calls, NEW k \in ToSet(held[c])
         PROVE  /\ js[k].status = jobs[k].status
                /\ k \notin ToSet(retryQueue) /\ k \notin ToSet(bl)
    <2>1. k \in Jobs /\ k \notin ToSet(retryQueue) /\ k \notin ToSet(backlog)
      BY ListElements
    <2>2. k \notin JobsOf(b)
      BY <1>5
    <2>3. js[k] = jobs[k]
      BY <1>3, <2>1, <2>2
    <2>4. k \notin ToSet(bl)
      BY <1>9, <2>1, <2>2
    <2> QED BY <2>1, <2>3, <2>4
  <1>13. Consistent(jobs, batches, retryQueue, backlog, deadLetterQueue, held)'
    <2>1. /\ jobs' = js /\ retryQueue' = retryQueue /\ backlog' = bl /\ held' = held
          /\ deadLetterQueue' = deadLetterQueue
      BY <1>1
    <2>2. Queues(js, batches', retryQueue, bl, deadLetterQueue')
      BY <1>11, <2>1
    <2>3. \A c \in Calls : \A k \in ToSet(held[c]) :
            /\ js[k].status = jobs[k].status
                 \/ /\ jobs[k].status \in {"pending", "retrying"}
                    /\ js[k].status \in {"pending", "retrying"}
            /\ k \notin ToSet(retryQueue) /\ k \notin ToSet(bl)
      BY <1>12
    <2> QED BY <1>3, <1>9, <1>10, <2>1, <2>2, <2>3, ListsKeep
  <1> QED BY <1>1, <1>3, <1>4, <1>9, <1>10, <1>13, SavedKeeps DEF IInv, TypeOK

(* What a call takes and what it leaves, for a part t of the retry queue and *)
(* a part u of the backlog.                                                 *)
LEMMA TakenFacts ==
  ASSUME IInv,
         NEW t \in Seq(Jobs), NEW rq \in Seq(Jobs), NEW u \in Seq(Jobs), NEW bl \in Seq(Jobs),
         ToSet(t) \subseteq ToSet(retryQueue), ToSet(rq) \subseteq ToSet(retryQueue),
         ToSet(u) \subseteq ToSet(backlog), ToSet(bl) \subseteq ToSet(backlog),
         IsInjective(t), IsInjective(rq), IsInjective(u), IsInjective(bl),
         Disjoint(t, rq), Disjoint(u, bl)
  PROVE  /\ t \o u \in Seq(Jobs) /\ IsInjective(t \o u)
         /\ Disjoint(t \o u, rq) /\ Disjoint(t \o u, bl)
         /\ \A j \in ToSet(t \o u) : jobs[j].status \in {"pending", "retrying"}
         /\ Queues(jobs, batches, rq, bl, deadLetterQueue)
         /\ \A d \in Calls : /\ Disjoint(t \o u, held[d])
                             /\ OwnList(held[d], jobs, rq, bl)
  <1>1. /\ Queues(jobs, batches, retryQueue, backlog, deadLetterQueue)
        /\ \A d \in Calls : OwnList(held[d], jobs, retryQueue, backlog)
    BY DEF IInv, Consistent
  <1>2. Disjoint(retryQueue, backlog) /\ Waits(jobs, retryQueue, backlog)
    BY <1>1 DEF Queues
  <1>3. Disjoint(t, u) /\ Disjoint(t, bl) /\ Disjoint(u, rq) /\ Disjoint(rq, bl)
    BY <1>2 DEF Disjoint
  <1>4. /\ t \o u \in Seq(Jobs) /\ ToSet(t \o u) = ToSet(t) \cup ToSet(u)
        /\ IsInjective(t \o u)
    BY <1>3, ConcatFacts
  <1> DEFINE taken == t \o u
  <1> HIDE DEF taken
  <1>5. ToSet(taken) = ToSet(t) \cup ToSet(u)
    BY <1>4 DEF taken
  <1>6. Disjoint(taken, rq) /\ Disjoint(taken, bl)
    BY <1>3, <1>5 DEF Disjoint
  <1>7. \A j \in ToSet(taken) : jobs[j].status \in {"pending", "retrying"}
    BY <1>2, <1>5 DEF Waits
  <1>8. Queues(jobs, batches, rq, bl, deadLetterQueue)
    <2>1. Waits(jobs, rq, bl)
      BY <1>2 DEF Waits
    <2> QED BY <1>1, <1>3, <2>1 DEF Queues
  <1>9. ASSUME NEW d \in Calls
        PROVE  Disjoint(taken, held[d]) /\ OwnList(held[d], jobs, rq, bl)
    <2>1. Disjoint(held[d], retryQueue) /\ Disjoint(held[d], backlog)
      BY <1>1 DEF OwnList
    <2>2. Disjoint(taken, held[d]) /\ Disjoint(held[d], rq) /\ Disjoint(held[d], bl)
      BY <1>5, <2>1 DEF Disjoint
    <2> QED BY <1>1, <2>2 DEF OwnList
  <1> QED BY <1>4, <1>6, <1>7, <1>8, <1>9 DEF taken

(* The two cuts a call makes. *)
LEMMA ProcessTakes ==
  ASSUME IInv, NEW n \in Nat, NEW p \in Priorities \cup {AnyPriority}
  PROVE  LET r == Lesser(n, Len(retryQueue))
             from == PickFrom(p)
             k == PickCount(n - r, p)
             taken == SubSeq(retryQueue, 1, r) \o SubSeq(backlog, from + 1, from + k)
             rq == SubSeq(retryQueue, r + 1, Len(retryQueue))
             bl == SubSeq(backlog, 1, from) \o SubSeq(backlog, from + k + 1, Len(backlog))
         IN /\ rq \in Seq(Jobs) /\ bl \in Seq(Jobs)
            /\ taken \in Seq(Jobs) /\ IsInjective(taken)
            /\ Disjoint(taken, rq) /\ Disjoint(taken, bl)
            /\ \A j \in ToSet(taken) : jobs[j].status \in {"pending", "retrying"}
            /\ ToSet(taken) \cup ToSet(rq) \cup ToSet(bl) = ToSet(retryQueue) \cup ToSet(backlog)
            /\ Queues(jobs, batches, rq, bl, deadLetterQueue)
            /\ \A d \in Calls : /\ Disjoint(taken, held[d])
                                /\ OwnList(held[d], jobs, rq, bl)
  <1> DEFINE r == Lesser(n, Len(retryQueue))
             from == PickFrom(p)
             k == PickCount(n - r, p)
             t == SubSeq(retryQueue, 1, r)
             u == SubSeq(backlog, from + 1, from + k)
             rq == SubSeq(retryQueue, r + 1, Len(retryQueue))
             bl == SubSeq(backlog, 1, from) \o SubSeq(backlog, from + k + 1, Len(backlog))
             taken == t \o u
  <1>2. /\ retryQueue \in Seq(Jobs) /\ backlog \in Seq(Jobs)
        /\ Len(retryQueue) \in Nat /\ Len(backlog) \in Nat
        /\ IsInjective(retryQueue) /\ IsInjective(backlog) /\ TypeOK
    BY LenProperties DEF IInv, TypeOK, Consistent, Queues
  <1>3. r \in 0 .. Len(retryQueue) /\ n - r \in Nat
    BY <1>2 DEF Lesser
  <1> HIDE DEF r
  <1>4. /\ t \in Seq(Jobs) /\ rq \in Seq(Jobs) /\ IsInjective(t) /\ IsInjective(rq)
        /\ ToSet(t) \subseteq ToSet(retryQueue) /\ ToSet(rq) \subseteq ToSet(retryQueue)
        /\ Disjoint(t, rq)
    <2>1. /\ 1 \in 1 .. Len(retryQueue) + 1 /\ r + 1 \in 1 .. Len(retryQueue) + 1
          /\ Len(retryQueue) \in 0 .. Len(retryQueue) /\ r < r + 1
      BY <1>2, <1>3
    <2>2. /\ t \in Seq(Jobs) /\ IsInjective(t) /\ ToSet(t) \subseteq ToSet(retryQueue)
      BY <1>2, <1>3, <2>1, SubSeqFacts
    <2>3. /\ rq \in Seq(Jobs) /\ IsInjective(rq) /\ ToSet(rq) \subseteq ToSet(retryQueue)
      BY <1>2, <1>3, <2>1, SubSeqFacts
    <2>4. Disjoint(t, rq)
      BY <1>2, <1>3, <2>1, PartsDisjoint
    <2> QED BY <2>2, <2>3, <2>4
  <1>5. from \in 0 .. Len(backlog) /\ k \in 0 .. Len(backlog) - from
    BY <1>2, <1>3, PickType
  <1> HIDE DEF from, k
  <1>6. /\ u \in Seq(Jobs) /\ bl \in Seq(Jobs) /\ IsInjective(u) /\ IsInjective(bl)
        /\ ToSet(u) \subseteq ToSet(backlog) /\ ToSet(bl) \subseteq ToSet(backlog)
        /\ Disjoint(u, bl)
    BY <1>2, <1>5, CutFacts
  <1>7. /\ ToSet(retryQueue) = ToSet(t) \cup ToSet(rq)
        /\ ToSet(backlog) = ToSet(u) \cup ToSet(bl)
    <2>1. ToSet(retryQueue) = ToSet(t) \cup ToSet(rq)
      BY <1>2, <1>3, SplitCovers
    <2>2. ToSet(backlog) = ToSet(u) \cup ToSet(bl)
      BY <1>2, <1>5, CutCovers
    <2> QED BY <2>1, <2>2
  <1> HIDE DEF t, u, rq, bl
  <1>8. ToSet(taken) = ToSet(t) \cup ToSet(u)
    BY <1>4, <1>6, ConcatFacts
  <1>9. /\ taken \in Seq(Jobs) /\ IsInjective(taken)
        /\ Disjoint(taken, rq) /\ Disjoint(taken, bl)
        /\ \A j \in ToSet(taken) : jobs[j].status \in {"pending", "retrying"}
        /\ Queues(jobs, batches, rq, bl, deadLetterQueue)
        /\ \A d \in Calls : /\ Disjoint(taken, held[d])
                            /\ OwnList(held[d], jobs, rq, bl)
    BY <1>4, <1>6, TakenFacts
  <1> QED BY <1>4, <1>6, <1>7, <1>8, <1>9 DEF t, u, rq, bl, taken, r, from, k

LEMMA ProcessJobsKeeps ==
  ASSUME IInv, NEW c \in Calls, NEW n \in Nat, NEW p \in Priorities \cup {AnyPriority},
         ProcessJobs(c, n, p)
  PROVE  IInv'
  <1> DEFINE r == Lesser(n, Len(retryQueue))
             from == PickFrom(p)
             k == PickCount(n - r, p)
             taken == SubSeq(retryQueue, 1, r) \o SubSeq(backlog, from + 1, from + k)
             rq == SubSeq(retryQueue, r + 1, Len(retryQueue))
             bl == SubSeq(backlog, 1, from) \o SubSeq(backlog, from + k + 1, Len(backlog))
  <1>1. /\ up /\ held[c] = <<>> /\ retryQueue' = rq /\ backlog' = bl
        /\ held' = [held EXCEPT ![c] = taken]
        /\ UNCHANGED <<batches, deadLetterQueue, processingQueue>>
        /\ UNCHANGED <<up, interventions, crashes, loadFailures>>
        /\ \/ taken # <<>> /\ jobs' = Started(jobs, Head(taken)) /\ UNCHANGED <<disk, saveFailures>>
           \/ taken = <<>> /\ UNCHANGED jobs /\ Save
    BY DEF ProcessJobs
  <1>2. /\ retryQueue \in Seq(Jobs) /\ backlog \in Seq(Jobs) /\ held \in [Calls -> Seq(Jobs)]
        /\ \A d, e \in Calls : d # e => Disjoint(held[d], held[e])
        /\ TypeOK
    BY LenProperties DEF IInv, TypeOK, Consistent, Queues
  <1>7. /\ rq \in Seq(Jobs) /\ bl \in Seq(Jobs)
        /\ taken \in Seq(Jobs) /\ IsInjective(taken)
        /\ Disjoint(taken, rq) /\ Disjoint(taken, bl)
        /\ \A j \in ToSet(taken) : jobs[j].status \in {"pending", "retrying"}
        /\ Queues(jobs, batches, rq, bl, deadLetterQueue)
        /\ \A d \in Calls : /\ Disjoint(taken, held[d])
                            /\ OwnList(held[d], jobs, rq, bl)
    BY ProcessTakes
  <1> HIDE DEF rq, bl
  <1> HIDE DEF taken
  <1>8. /\ held' \in [Calls -> Seq(Jobs)] /\ held'[c] = taken
        /\ \A d \in Calls : d # c => held'[d] = held[d]
        /\ \A d, e \in Calls : d # e => Disjoint(held'[d], held'[e])
    BY <1>1, <1>2, <1>7, ListsApart
  <1>9. CASE taken # <<>> /\ jobs' = Started(jobs, Head(taken)) /\ UNCHANGED <<disk, saveFailures>>
    <2>1. jobs \in [Jobs -> Job] /\ deadLetterQueue \in Seq(Jobs)
      BY <1>2 DEF TypeOK
    <2>2. /\ Queues(jobs', batches, rq, bl, deadLetterQueue)
          /\ OwnList(taken, jobs', rq, bl)
          /\ \A s \in Seq(Jobs) : Disjoint(taken, s) /\ OwnList(s, jobs, rq, bl)
               => OwnList(s, jobs', rq, bl)
      BY <1>7, <1>9, <2>1, StartKeeps
    <2>3. \A d \in Calls : OwnList(held'[d], jobs', rq, bl)
      BY <1>2, <1>7, <1>8, <2>2
    <2>4. Consistent(jobs, batches, retryQueue, backlog, deadLetterQueue, held)'
      <3>1. Queues(jobs', batches', retryQueue', backlog', deadLetterQueue')
        BY <1>1, <2>2
      <3>2. \A d \in Calls : OwnList(held'[d], jobs', retryQueue', backlog')
        BY <1>1, <2>3
      <3> QED BY <1>8, <3>1, <3>2 DEF Consistent, Queues, OwnList, Waits, Dead, Fresh
    <2>5. jobs' \in [Jobs -> Job]
      BY <1>7, <1>9, <2>1, HeadTailFacts, StartedFacts
    <2>6. TypeOK' /\ DiskQueues'
      BY <1>1, <1>7, <1>8, <1>9, <2>5
         DEF IInv, TypeOK, DiskQueues, Queues, Waits, Dead, Fresh
    <2> QED BY <1>1, <2>4, <2>6 DEF IInv
  <1>10. CASE taken = <<>> /\ UNCHANGED jobs /\ Save
    <2>1. OwnList(taken, jobs, rq, bl)
      BY <1>7, <1>10 DEF OwnList
    <2>2. \A d \in Calls : OwnList(held'[d], jobs, rq, bl)
      BY <1>7, <1>8, <2>1
    <2>3. Queues(jobs, batches, retryQueue, backlog, deadLetterQueue)'
      BY <1>1, <1>7, <1>10 DEF Queues, Waits, Dead, Fresh
    <2>4. Consistent(jobs, batches, retryQueue, backlog, deadLetterQueue, held)'
      BY <1>1, <1>8, <1>10, <2>2, <2>3 DEF Consistent, OwnList
    <2>5. /\ disk \in Snapshots /\ saveFailures \in Nat /\ DiskQueues
          /\ jobs' \in [Jobs -> Job] /\ batches' \in [Batches -> Batch]
          /\ deadLetterQueue' \in Seq(Jobs) /\ processingQueue' \in Nat
          /\ retryQueue' \in Seq(Jobs) /\ backlog' \in Seq(Jobs)
      BY <1>1, <1>7, <1>10 DEF IInv, TypeOK
    <2>6. disk' \in Snapshots /\ saveFailures' \in Nat /\ DiskQueues'
      BY <1>10, <2>3, <2>5, SaveFacts
    <2>7. TypeOK'
      BY <1>1, <1>8, <2>5, <2>6 DEF IInv, TypeOK
    <2> QED BY <1>1, <2>4, <2>6, <2>7 DEF IInv
  <1> QED BY <1>1, <1>9, <1>10

LEMMA RetryFailedKeeps ==
  ASSUME IInv, NEW j \in Jobs, RetryFailed(j) PROVE IInv'
  <1>1. /\ up /\ UNCHANGED <<batches, retryQueue, backlog, deadLetterQueue>> /\ Save
        /\ UNCHANGED <<held, up, crashes, loadFailures>>
    BY DEF RetryFailed, Retryable
  <1>2. /\ jobs \in [Jobs -> Job] /\ batches \in [Batches -> Batch] /\ retryQueue \in Seq(Jobs)
        /\ backlog \in Seq(Jobs) /\ deadLetterQueue \in Seq(Jobs) /\ processingQueue \in Nat
        /\ interventions \in Nat
        /\ Queues(jobs, batches, retryQueue, backlog, deadLetterQueue)
    BY DEF IInv, TypeOK, Consistent
  <1>3. CASE /\ jobs[j].status = "retrying" /\ interventions' = interventions + 1
             /\ jobs' = [jobs EXCEPT ![j].status = "pending", ![j].attempts = 0,
                                     ![j].nextRetryAt = "none"]
             /\ processingQueue' = processingQueue + 1
    <2> DEFINE js == [jobs EXCEPT ![j].status = "pending", ![j].attempts = 0,
                                  ![j].nextRetryAt = "none"]
    <2>1. /\ js \in [Jobs -> Job] /\ js[j].status = "pending"
          /\ \A k \in Jobs : k # j => js[k] = jobs[k]
      <3>1. js = [jobs EXCEPT ![j] = [jobs[j] EXCEPT !.status = "pending", !.attempts = 0,
                                                     !.nextRetryAt = "none"]]
        BY <1>2
      <3>2. [jobs[j] EXCEPT !.status = "pending", !.attempts = 0, !.nextRetryAt = "none"] \in Job
        BY <1>2 DEF Job, JobStatus, Backoff
      <3> HIDE DEF js
      <3> QED BY <1>2, <3>1, <3>2 DEF Job
    <2>2. jobs' = js
      BY <1>3
    <2> HIDE DEF js
    <2>3. ToSet(retryQueue) \subseteq Jobs /\ ToSet(backlog) \subseteq Jobs
      BY <1>2, LenProperties, ElementOfSeq DEF ToSet
    <2>4. Queues(js, batches', retryQueue, backlog, deadLetterQueue')
      <3>1. Waits(js, retryQueue, backlog)
        BY <1>2, <2>1, <2>3 DEF Queues, Waits
      <3>2. Dead(js, deadLetterQueue)
        BY <1>2, <1>3, <2>1 DEF Queues, Dead
      <3>3. Fresh(js, batches)
        BY <1>2, <1>3, <2>1 DEF Queues, Fresh, Unsubmitted
      <3> QED BY <1>1, <1>2, <3>1, <3>2, <3>3 DEF Queues
    <2>5. \A c \in Calls : \A k \in ToSet(held[c]) :
            /\ js[k].status = jobs[k].status
                 \/ /\ jobs[k].status \in {"pending", "retrying"}
                    /\ js[k].status \in {"pending", "retrying"}
            /\ k \notin ToSet(retryQueue) /\ k \notin ToSet(backlog)
      BY <1>3, <2>1, ListElements
    <2>6. /\ retryQueue' = retryQueue /\ backlog' = backlog /\ held' = held
      BY <1>1
    <2>7. Consistent(jobs, batches, retryQueue, backlog, deadLetterQueue, held)'
      BY <1>2, <2>1, <2>2, <2>4, <2>5, <2>6, ListsKeep
    <2> QED BY <1>1, <1>2, <1>3, <2>1, <2>2, <2>7, SavedKeeps, SMTT(30)
  <1>4. CASE UNCHANGED <<jobs, processingQueue, interventions>>
    <2>1. Consistent(jobs, batches, retryQueue, backlog, deadLetterQueue, held)'
      BY <1>1, <1>4 DEF IInv, Consistent, Queues, Waits, Dead, Fresh, OwnList
    <2> QED BY <1>1, <1>2, <1>4, <2>1, SavedKeeps
  <1> QED BY <1>3, <1>4 DEF RetryFailed, Retryable

LEMMA RetryDeadLetterKeeps ==
  ASSUME IInv, NEW j \in Jobs, NEW reset \in BOOLEAN, NEW p \in Priorities,
         RetryDeadLetter(j, reset, p)
  PROVE  IInv'
  <1> DEFINE att == IF reset THEN 0 ELSE jobs[j].attempts
             js == [jobs EXCEPT ![j].status = "pending", ![j].nextRetryAt = "none",
                                ![j].attempts = att, ![j].priority = p]
             bl == Enqueued(<<j>>, p)
  <1>1. /\ jobs \in [Jobs -> Job] /\ batches \in [Batches -> Batch] /\ retryQueue \in Seq(Jobs)
        /\ backlog \in Seq(Jobs) /\ deadLetterQueue \in Seq(Jobs) /\ processingQueue \in Nat
        /\ interventions \in Nat /\ jobs[j] \in Job /\ p \in Int
        /\ Queues(jobs, batches, retryQueue, backlog, deadLetterQueue)
    BY QueueConstants DEF IInv, TypeOK, Consistent
  <1>2. /\ up /\ jobs[j].status = "dead_letter" /\ interventions' = interventions + 1
        /\ deadLetterQueue' = RemoveFirst(deadLetterQueue, j) /\ backlog' = bl
        /\ UNCHANGED <<batches, retryQueue, processingQueue>> /\ Save
        /\ UNCHANGED <<held, up, crashes, loadFailures>>
    BY DEF RetryDeadLetter, Revivable
  <1>3. att \in Nat
    BY <1>1 DEF Job
  <1>4. jobs' = js
    BY <1>1 DEF RetryDeadLetter, Revivable
  <1> HIDE DEF att
  <1>5. /\ js \in [Jobs -> Job] /\ js[j].status = "pending"
        /\ \A k \in Jobs : k # j => js[k] = jobs[k]
    <2>1. js = [jobs EXCEPT ![j] = [jobs[j] EXCEPT !.status = "pending", !.nextRetryAt = "none",
                                                   !.attempts = att, !.priority = p]]
      BY <1>1
    <2>2. [jobs[j] EXCEPT !.status = "pending", !.nextRetryAt = "none",
                          !.attempts = att, !.priority = p] \in Job
      BY <1>1, <1>3 DEF Job, JobStatus, Backoff
    <2> HIDE DEF js
    <2> QED BY <1>1, <2>1, <2>2 DEF Job
  <1>6. /\ ToSet(retryQueue) \subseteq Jobs /\ ToSet(backlog) \subseteq Jobs
        /\ j \notin ToSet(retryQueue) /\ j \notin ToSet(backlog)
        /\ \A c \in Calls : j \notin ToSet(held[c])
    <2>1. ToSet(retryQueue) \subseteq Jobs /\ ToSet(backlog) \subseteq Jobs
      BY <1>1, LenProperties, ElementOfSeq DEF ToSet
    <2>2. \A c \in Calls : j \notin ToSet(held[c])
      BY <1>2, ListElements
    <2>3. j \notin ToSet(retryQueue) /\ j \notin ToSet(backlog)
      BY <1>1, <1>2 DEF Queues, Waits
    <2> QED BY <2>1, <2>2, <2>3
  <1>7. /\ IsInjective(retryQueue) /\ IsInjective(backlog) /\ IsInjective(deadLetterQueue)
        /\ Disjoint(retryQueue, backlog)
    BY <1>1 DEF Queues
  <1>8. <<j>> \in Seq(Jobs) /\ ToSet(<<j>>) = {j} /\ IsInjective(<<j>>)
    BY DEF ToSet, IsInjective
  <1>9. Disjoint(backlog, <<j>>)
    BY <1>6, <1>8 DEF Disjoint
  <1>10. TypeOK
    BY DEF IInv
  <1>11. bl \in Seq(Jobs) /\ ToSet(bl) = ToSet(backlog) \cup {j} /\ IsInjective(bl)
    <2>1. /\ bl \in Seq(Jobs) /\ ToSet(bl) = ToSet(backlog) \cup ToSet(<<j>>)
          /\ IsInjective(backlog) /\ IsInjective(<<j>>) /\ Disjoint(backlog, <<j>>)
               => IsInjective(bl)
      BY <1>1, <1>8, <1>10, EnqueuedFacts
    <2> QED BY <1>7, <1>8, <1>9, <2>1
  <1>12. /\ deadLetterQueue' \in Seq(Jobs) /\ IsInjective(deadLetterQueue')
         /\ ToSet(deadLetterQueue') = ToSet(deadLetterQueue) \ {j}
    BY <1>1, <1>2, <1>7, RemoveFirstFacts
  <1> HIDE DEF js, bl
  <1>13. Queues(js, batches', retryQueue, bl, deadLetterQueue')
    <2>1. Disjoint(retryQueue, bl)
      BY <1>6, <1>7, <1>11 DEF Disjoint
    <2>2. Waits(js, retryQueue, bl)
      BY <1>1, <1>5, <1>6, <1>11 DEF Queues, Waits
    <2>3. Dead(js, deadLetterQueue')
      BY <1>1, <1>5, <1>12 DEF Queues, Dead
    <2>4. Fresh(js, batches')
      BY <1>1, <1>2, <1>5 DEF Queues, Fresh, Unsubmitted
    <2> QED BY <1>7, <1>11, <1>12, <2>1, <2>2, <2>3, <2>4 DEF Queues
  <1>14. ASSUME NEW c \in Calls, NEW k \in ToSet(held[c])
         PROVE  /\ js[k].status = jobs[k].status
                /\ k \notin ToSet(retryQueue) /\ k \notin ToSet(bl)
    <2>1. k \in Jobs /\ k \notin ToSet(retryQueue) /\ k \notin ToSet(backlog)
      BY ListElements
    <2>2. k # j
      BY <1>6
    <2> QED BY <1>5, <1>11, <2>1, <2>2
  <1>15. Consistent(jobs, batches, retryQueue, backlog, deadLetterQueue, held)'
    <2>1. retryQueue' = retryQueue /\ held' = held
      BY <1>2
    <2>2. \A c \in Calls : \A k \in ToSet(held[c]) :
            /\ js[k].status = jobs[k].status
                 \/ /\ jobs[k].status \in {"pending", "retrying"}
                    /\ js[k].status \in {"pending", "retrying"}
            /\ k \notin ToSet(retryQueue) /\ k \notin ToSet(bl)
      BY <1>14
    <2> QED BY <1>1, <1>2, <1>4, <1>5, <1>11, <1>13, <2>1, <2>2, ListsKeep
  <1>16. /\ jobs' \in [Jobs -> Job] /\ batches' \in [Batches -> Batch]
         /\ retryQueue' \in Seq(Jobs) /\ backlog' \in Seq(Jobs)
         /\ processingQueue' \in Nat /\ interventions' \in Nat
    BY <1>1, <1>2, <1>4, <1>5, <1>11
  <1> QED BY <1>2, <1>12, <1>15, <1>16, SavedKeeps

(* A change of nextRetryAt alone. *)
LEMMA PassedFacts ==
  ASSUME NEW js \in [Jobs -> Job], NEW j \in Jobs
  PROVE  /\ Passed(js, j) \in [Jobs -> Job]
         /\ \A k \in Jobs : Passed(js, j)[k].status = js[k].status
  <1> DEFINE nx == IF js[j].nextRetryAt = "ahead" THEN "passed" ELSE js[j].nextRetryAt
  <1>1. js[j] \in Job /\ nx \in Backoff
    BY DEF Job, Backoff
  <1>2. Passed(js, j) = [js EXCEPT ![j] = [js[j] EXCEPT !.nextRetryAt = nx]]
    BY DEF Passed
  <1> HIDE DEF nx
  <1>3. [js[j] EXCEPT !.nextRetryAt = nx] \in Job
    BY <1>1 DEF Job
  <1> QED BY <1>1, <1>2, <1>3 DEF Job

LEMMA SameStatus ==
  ASSUME NEW js, NEW ks, \A k \in Jobs : ks[k].status = js[k].status,
         NEW bt, NEW rq \in Seq(Jobs), NEW bl \in Seq(Jobs), NEW dl \in Seq(Jobs),
         Queues(js, bt, rq, bl, dl)
  PROVE  /\ Queues(ks, bt, rq, bl, dl)
         /\ \A s \in Seq(Jobs) : OwnList(s, js, rq, bl) => OwnList(s, ks, rq, bl)
  <1>1. \A s \in Seq(Jobs) : ToSet(s) \subseteq Jobs
    BY LenProperties, ElementOfSeq DEF ToSet
  <1>2. Queues(ks, bt, rq, bl, dl)
    BY <1>1 DEF Queues, Waits, Dead, Fresh
  <1>3. ASSUME NEW s \in Seq(Jobs), OwnList(s, js, rq, bl) PROVE OwnList(s, ks, rq, bl)
    <2>1. CASE s = <<>>
      BY <1>3, <2>1 DEF OwnList
    <2>2. CASE s # <<>>
      <3>1. Head(s) \in Jobs /\ Tail(s) \in Seq(Jobs)
        BY <2>2, HeadTailFacts
      <3>2. ToSet(Tail(s)) \subseteq Jobs
        BY <1>1, <3>1
      <3> QED BY <1>3, <3>1, <3>2 DEF OwnList
    <2> QED BY <2>1, <2>2
  <1> QED BY <1>2, <1>3

LEMMA BackoffElapsesKeeps ==
  ASSUME IInv, NEW j \in Jobs, BackoffElapses(j) PROVE IInv'
  <1> DEFINE dj == Passed(disk.jobs, j)
  <1>1. /\ up /\ jobs' = Passed(jobs, j)
        /\ UNCHANGED <<batches, retryQueue, backlog, deadLetterQueue, processingQueue>>
        /\ UNCHANGED <<held, up, interventions, crashes, loadFailures, saveFailures>>
    BY DEF BackoffElapses, bounds
  <1>2. /\ jobs \in [Jobs -> Job] /\ retryQueue \in Seq(Jobs) /\ backlog \in Seq(Jobs)
        /\ deadLetterQueue \in Seq(Jobs) /\ held \in [Calls -> Seq(Jobs)]
        /\ disk \in Snapshots /\ disk.jobs \in [Jobs -> Job]
        /\ Consistent(jobs, batches, retryQueue, backlog, deadLetterQueue, held)
    BY DEF IInv, TypeOK, Snapshots
  <1>3. disk' = [disk EXCEPT !.jobs = dj]
    BY DEF BackoffElapses
  <1>4. /\ jobs' \in [Jobs -> Job] /\ \A k \in Jobs : jobs'[k].status = jobs[k].status
    BY <1>1, <1>2, PassedFacts
  <1>5. /\ dj \in [Jobs -> Job] /\ \A k \in Jobs : dj[k].status = disk.jobs[k].status
    BY <1>2, PassedFacts
  <1> HIDE DEF dj
  <1>6. /\ Queues(jobs', batches, retryQueue, backlog, deadLetterQueue)
        /\ \A c \in Calls : OwnList(held[c], jobs', retryQueue, backlog)
    <2>1. Queues(jobs, batches, retryQueue, backlog, deadLetterQueue)
      BY <1>2 DEF Consistent
    <2>2. /\ Queues(jobs', batches, retryQueue, backlog, deadLetterQueue)
          /\ \A s \in Seq(Jobs) : OwnList(s, jobs, retryQueue, backlog)
                                    => OwnList(s, jobs', retryQueue, backlog)
      BY <1>2, <1>4, <2>1, SameStatus
    <2> QED BY <1>2, <2>2 DEF Consistent
  <1>7. Consistent(jobs, batches, retryQueue, backlog, deadLetterQueue, held)'
    BY <1>1, <1>2, <1>6 DEF Consistent, Queues, OwnList, Waits, Dead, Fresh
  <1>8. /\ disk' \in Snapshots /\ disk'.jobs = dj /\ disk'.batches = disk.batches
        /\ disk'.retryQueue = disk.retryQueue /\ disk'.backlog = disk.backlog
        /\ disk'.deadLetterQueue = disk.deadLetterQueue
    BY <1>2, <1>3, <1>5 DEF Snapshots
  <1>9. DiskQueues'
    <2>1. /\ Queues(disk.jobs, disk.batches, disk.retryQueue, disk.backlog, disk.deadLetterQueue)
          /\ disk.retryQueue \in Seq(Jobs) /\ disk.backlog \in Seq(Jobs)
          /\ disk.deadLetterQueue \in Seq(Jobs)
      BY <1>2 DEF IInv, DiskQueues, Snapshots
    <2>2. Queues(dj, disk.batches, disk.retryQueue, disk.backlog, disk.deadLetterQueue)
      BY <1>5, <2>1, SameStatus
    <2> QED BY <1>8, <2>2 DEF DiskQueues, Queues, Waits, Dead, Fresh
  <1> QED BY <1>1, <1>4, <1>7, <1>8, <1>9 DEF IInv, TypeOK

-----------------------------------------------------------------------------
(* Crashes and restarts *)

(* The lists of a dead object's calls are empty. *)
LEMMA NoCalls ==
  ASSUME NEW js, NEW bt, NEW rq, NEW bl, NEW dl, Queues(js, bt, rq, bl, dl)
  PROVE  Consistent(js, bt, rq, bl, dl, [c \in Calls |-> <<>>])
  BY DEF Consistent, OwnList, Disjoint, ToSet, IsInjective

LEMMA EmptyFacts ==
  /\ EmptyState \in Snapshots
  /\ Queues(EmptyState.jobs, EmptyState.batches, <<>>, <<>>, <<>>)
  <1>1. NoJob \in Job /\ NoBatch \in Batch
    BY DEF NoJob, Job, NoBatch, NewBatch, Batch, JobStatus, BatchStatus, Backoff, Unsubmitted
  <1>2. EmptyState \in Snapshots
    BY <1>1 DEF EmptyState, Snapshots
  <1>3. \A j \in Jobs : EmptyState.jobs[j].status = Unsubmitted
    BY DEF EmptyState, NoJob
  <1>4. ToSet(<<>>) = {} /\ IsInjective(<<>>)
    BY DEF ToSet, IsInjective
  <1> QED BY <1>2, <1>3, <1>4 DEF Queues, Waits, Dead, Fresh, Disjoint, Unsubmitted

LEMMA CrashKeeps ==
  ASSUME IInv, Crash PROVE IInv'
  <1>1. /\ up' = FALSE /\ held' = [c \in Calls |-> <<>>] /\ crashes' = crashes + 1
        /\ UNCHANGED <<disk, interventions, loadFailures, saveFailures>>
        /\ jobs' = EmptyState.jobs /\ batches' = EmptyState.batches
        /\ retryQueue' = <<>> /\ backlog' = <<>> /\ deadLetterQueue' = <<>>
        /\ processingQueue' = 0
    BY DEF Crash, Become, EmptyState
  <1>2. TypeOK'
    <2>1. held' \in [Calls -> Seq(Jobs)]
      BY <1>1
    <2>2. jobs' \in [Jobs -> Job] /\ batches' \in [Batches -> Batch]
      BY <1>1, EmptyFacts DEF Snapshots
    <2>3. /\ retryQueue' \in Seq(Jobs) /\ backlog' \in Seq(Jobs)
          /\ deadLetterQueue' \in Seq(Jobs)
      BY <1>1
    <2>4. crashes' \in Nat /\ disk' \in Snapshots
      BY <1>1 DEF IInv, TypeOK
    <2> QED BY <1>1, <2>1, <2>2, <2>3, <2>4 DEF IInv, TypeOK
  <1>3. Consistent(jobs', batches', retryQueue', backlog', deadLetterQueue', held')
    BY <1>1, EmptyFacts, NoCalls
  <1>4. DiskQueues'
    BY <1>1 DEF IInv, DiskQueues, Queues, Waits, Dead, Fresh
  <1> QED BY <1>1, <1>2, <1>3, <1>4 DEF IInv, Consistent, Queues, OwnList, Waits, Dead, Fresh

LEMMA RestartKeeps ==
  ASSUME IInv, Restart PROVE IInv'
  <1>1. /\ ~up /\ up' = TRUE
        /\ UNCHANGED <<held, disk, interventions, crashes, loadFailures, saveFailures>>
        /\ jobs' = disk.jobs /\ batches' = disk.batches /\ retryQueue' = disk.retryQueue
        /\ backlog' = disk.backlog /\ deadLetterQueue' = disk.deadLetterQueue
        /\ processingQueue' = disk.processingQueue
    BY DEF Restart, Become, bounds
  <1>2. TypeOK'
    BY <1>1 DEF IInv, TypeOK, Snapshots
  <1>3. held' = [c \in Calls |-> <<>>] /\ DiskQueues
    BY <1>1 DEF IInv
  <1>4. Consistent(jobs', batches', retryQueue', backlog', deadLetterQueue', held')
    BY <1>1, <1>3, NoCalls DEF DiskQueues
  <1>5. DiskQueues'
    BY <1>1, <1>3 DEF DiskQueues, Queues, Waits, Dead, Fresh
  <1> QED BY <1>1, <1>2, <1>4, <1>5 DEF IInv, Consistent, Queues, OwnList, Waits, Dead, Fresh

LEMMA RestartEmptyKeeps ==
  ASSUME IInv, RestartEmpty PROVE IInv'
  <1>1. /\ up' = TRUE /\ loadFailures' = loadFailures + 1
        /\ UNCHANGED <<jobs, batches, retryQueue, backlog, deadLetterQueue, processingQueue>>
        /\ UNCHANGED <<held, disk, interventions, crashes, saveFailures>>
    BY DEF RestartEmpty, memory
  <1>2. TypeOK'
    BY <1>1 DEF IInv, TypeOK
  <1>3. Consistent(jobs, batches, retryQueue, backlog, deadLetterQueue, held)'
    BY <1>1 DEF IInv, Consistent, Queues, OwnList, Waits, Dead, Fresh
  <1>4. DiskQueues'
    BY <1>1 DEF IInv, DiskQueues, Queues, Waits, Dead, Fresh
  <1> QED BY <1>1, <1>2, <1>3, <1>4 DEF IInv

-----------------------------------------------------------------------------
(* The invariant *)

LEMMA InitInv ==
  ASSUME Init PROVE IInv
  <1>1. /\ jobs = EmptyState.jobs /\ batches = EmptyState.batches
        /\ retryQueue = <<>> /\ backlog = <<>> /\ deadLetterQueue = <<>>
        /\ processingQueue = 0 /\ held = [c \in Calls |-> <<>>] /\ disk = EmptyState
        /\ up = TRUE /\ interventions = 0 /\ crashes = 0
        /\ loadFailures = 0 /\ saveFailures = 0
    BY DEF Init
  <1>2. /\ EmptyState.retryQueue = <<>> /\ EmptyState.backlog = <<>>
        /\ EmptyState.deadLetterQueue = <<>>
    BY DEF EmptyState
  <1>3. TypeOK
    <2>1. <<>> \in Seq(Jobs) /\ held \in [Calls -> Seq(Jobs)]
      BY <1>1
    <2>2. jobs \in [Jobs -> Job] /\ batches \in [Batches -> Batch] /\ disk \in Snapshots
      BY <1>1, EmptyFacts DEF Snapshots
    <2> QED BY <1>1, <2>1, <2>2 DEF TypeOK
  <1>4. DiskQueues
    BY <1>1, <1>2, EmptyFacts DEF DiskQueues
  <1>5. Consistent(jobs, batches, retryQueue, backlog, deadLetterQueue, held)
    BY <1>1, EmptyFacts, NoCalls
  <1> QED BY <1>1, <1>3, <1>4, <1>5 DEF IInv

LEMMA StutterKeeps ==
  ASSUME IInv, UNCHANGED vars PROVE IInv'
  <1>1. /\ UNCHANGED <<jobs, batches, retryQueue, backlog, deadLetterQueue, processingQueue>>
        /\ UNCHANGED <<held, disk, up, interventions, crashes, loadFailures, saveFailures>>
    BY DEF vars, memory, bounds
  <1>2. TypeOK' /\ (~up' => held' = [c \in Calls |-> <<>>])
    BY <1>1 DEF IInv, TypeOK
  <1>3. Consistent(jobs, batches, retryQueue, backlog, deadLetterQueue, held)'
    BY <1>1 DEF IInv, Consistent, Queues, OwnList, Waits, Dead, Fresh
  <1>4. DiskQueues'
    BY <1>1 DEF IInv, DiskQueues, Queues, Waits, Dead, Fresh
  <1> QED BY <1>2, <1>3, <1>4 DEF IInv

LEMMA NextKeeps ==
  ASSUME IInv, [Next]_vars PROVE IInv'
  <1>1. CASE \E b \in Batches, p \in Priorities : SubmitBatch(b, p)
    BY <1>1, SubmitBatchKeeps
  <1>2. CASE \E c \in Calls, n \in 1 .. MaxJobs, p \in Priorities \cup {AnyPriority} :
               ProcessJobs(c, n, p)
    <2>1. 1 .. MaxJobs \subseteq Nat
      BY QueueConstants
    <2> QED BY <1>2, <2>1, ProcessJobsKeeps
  <1>3. CASE \E c \in Calls : RunSucceeds(c)
    BY <1>3, RunSucceedsKeeps
  <1>4. CASE \E c \in Calls : RunFailsRetry(c)
    BY <1>4, RunFailsRetryKeeps
  <1>5. CASE \E c \in Calls : RunFailsDead(c)
    BY <1>5, RunFailsDeadKeeps
  <1>6. CASE \E j \in Jobs : RetryFailed(j)
    BY <1>6, RetryFailedKeeps
  <1>7. CASE \E j \in Jobs, reset \in BOOLEAN, p \in Priorities : RetryDeadLetter(j, reset, p)
    BY <1>7, RetryDeadLetterKeeps
  <1>8. CASE \E j \in Jobs : BackoffElapses(j)
    BY <1>8, BackoffElapsesKeeps
  <1>9. CASE Crash
    BY <1>9, CrashKeeps
  <1>10. CASE Restart
    BY <1>10, RestartKeeps
  <1>11. CASE RestartEmpty
    BY <1>11, RestartEmptyKeeps
  <1>12. CASE UNCHANGED vars
    BY <1>12, StutterKeeps
  <1> QED BY <1>1, <1>2, <1>3, <1>4, <1>5, <1>6, <1>7, <1>8, <1>9, <1>10, <1>11, <1>12 DEF Next, Posted

(* The queues, the lists of the calls in flight and the stored snapshot     *)
(* stay consistent with the jobs map (submitBatch, processJobs, retryFailed, *)
(* retryDeadLetter, save and load), whatever the overlap and the crashes.   *)
THEOREM Consistency == Spec => []IInv
  <1>1. Init => IInv
    BY InitInv
  <1>2. IInv /\ [Next]_vars => IInv'
    BY NextKeeps
  <1> QED BY <1>1, <1>2, PTL DEF Spec

(* Type correctness: the jobs, the queues, the lists of the calls and the   *)
(* stored snapshot keep their types.                                        *)
THEOREM TypeCorrect == Spec => []TypeOK
  <1>1. IInv => TypeOK
    BY DEF IInv
  <1> QED BY <1>1, Consistency, PTL

(* Overlapping processJobs calls never run one lookup twice at a time, and   *)
(* no operator's retry queues a job that is queued or running.              *)
THEOREM EveryJobInOnePlace == Spec => []OnePlace
  <1>1. IInv => OnePlace
    <2> SUFFICES ASSUME IInv PROVE OnePlace
      OBVIOUS
    <2>1. /\ Queues(jobs, batches, retryQueue, backlog, deadLetterQueue)
          /\ \A c \in Calls : OwnList(held[c], jobs, retryQueue, backlog)
          /\ \A c, d \in Calls : c # d => Disjoint(held[c], held[d])
      BY DEF IInv, Consistent
    <2> QED BY <2>1 DEF OnePlace, Apart, Disjoint, Queues, OwnList
  <1> QED BY <1>1, Consistency, PTL

(* What is about to run was not finished by another handler in between,     *)
(* what a call runs is 'processing', and the dead-letter queue lists        *)
(* exactly the dead-lettered jobs.                                          *)
THEOREM PlaceAgreesWithStatus == Spec => []PlaceMatchesStatus
  <1>1. IInv => PlaceMatchesStatus
    <2> SUFFICES ASSUME IInv PROVE PlaceMatchesStatus
      OBVIOUS
    <2>1. Waits(jobs, retryQueue, backlog) /\ Dead(jobs, deadLetterQueue)
      BY DEF IInv, Consistent, Queues
    <2>2. ASSUME NEW c \in Calls, NEW i \in DOMAIN held[c]
          PROVE  jobs[held[c][i]].status
                   \in IF i = 1 THEN {"processing"} ELSE {"pending", "retrying"}
      <3> DEFINE s == held[c]
      <3>1. s \in Seq(Jobs) /\ OwnList(s, jobs, retryQueue, backlog)
        BY DEF IInv, TypeOK, Consistent
      <3> HIDE DEF s
      <3>2. i \in 1 .. Len(s) /\ Len(s) \in Nat
        BY <3>1, LenProperties DEF s
      <3>3. s # <<>>
        BY <3>1, <3>2, EmptySeq
      <3>4. Head(s) = s[1] /\ Tail(s) \in Seq(Jobs) /\ Len(Tail(s)) = Len(s) - 1
            /\ \A k \in 1 .. Len(Tail(s)) : Tail(s)[k] = s[k + 1]
        BY <3>1, <3>3, HeadTailFacts, HeadTailProperties
      <3>5. CASE i = 1
        BY <3>1, <3>3, <3>4, <3>5 DEF OwnList, s
      <3>6. CASE i # 1
        <4>1. i - 1 \in 1 .. Len(Tail(s)) /\ i - 1 + 1 = i
          BY <3>2, <3>4, <3>6
        <4>2. Tail(s)[i - 1] = s[i]
          BY <3>4, <4>1
        <4>3. DOMAIN Tail(s) = 1 .. Len(Tail(s))
          BY <3>4, LenProperties
        <4>4. s[i] \in ToSet(Tail(s))
          BY <4>1, <4>2, <4>3 DEF ToSet
        <4> QED BY <3>1, <3>3, <3>6, <4>4 DEF OwnList, s
      <3> QED BY <3>5, <3>6
    <2> QED BY <2>1, <2>2 DEF PlaceMatchesStatus, Waits, Dead
  <1> QED BY <1>1, Consistency, PTL

-----------------------------------------------------------------------------
(* Completion *)

IsDone(js, j) == js[j].status = "completed"

SameDone(js, ks) == \A j \in Jobs : IsDone(ks, j) <=> IsDone(js, j)
SameTally(bt, ct, B) == \A b \in B : ct[b].completedJobs = bt[b].completedJobs

HasVerdict(bt, b) == bt[b].status \notin {Unsubmitted, "pending"}
KeepsVerdicts(bt, ct) == \A b \in Batches : HasVerdict(bt, b) => HasVerdict(ct, b)

(* What a step of the living object may do to completed jobs and counters:   *)
(* nothing, complete one job and count it, or create a batch with none.     *)
Quiet(js, ks, bt, ct) == SameDone(js, ks) /\ SameTally(bt, ct, Batches)

Completes(js, ks, bt, ct, j) ==
  /\ ~ IsDone(js, j)
  /\ \A k \in Jobs : IsDone(ks, k) <=> (IsDone(js, k) \/ k = j)
  /\ ct[BatchOf(j)].completedJobs = bt[BatchOf(j)].completedJobs + 1
  /\ SameTally(bt, ct, Batches \ {BatchOf(j)})

Creates(js, ks, bt, ct, b) ==
  /\ SameDone(js, ks)
  /\ \A j \in JobsOf(b) : ~ IsDone(js, j)
  /\ ct[b].completedJobs = 0
  /\ SameTally(bt, ct, Batches \ {b})

(* Starting a job that waits completes nothing. *)
LEMMA StartsNone ==
  ASSUME NEW js \in [Jobs -> Job], NEW j \in Jobs, js[j].status \in {"pending", "retrying"}
  PROVE  SameDone(js, Started(js, j))
  <1>1. /\ Started(js, j)[j].status = "processing"
        /\ \A k \in Jobs : k # j => Started(js, j)[k] = js[k]
    BY StartedFacts
  <1> QED BY <1>1 DEF SameDone, IsDone

(* Nor does a call that goes on after js.                                   *)
LEMMA ProceedsNone ==
  ASSUME IInv, NEW c \in Calls, held[c] # <<>>,
         NEW js \in [Jobs -> Job],
         \A k \in Jobs : k # Head(held[c]) => js[k] = jobs[k],
         Proceed(c, js)
  PROVE  SameDone(js, jobs')
  <1> DEFINE t == Tail(held[c])
  <1>1. held[c] \in Seq(Jobs) /\ OwnList(held[c], jobs, retryQueue, backlog)
    BY DEF IInv, TypeOK, Consistent
  <1>2. /\ t \in Seq(Jobs) /\ Head(held[c]) \notin ToSet(t)
        /\ \A j \in ToSet(t) : jobs[j].status \in {"pending", "retrying"}
    BY <1>1, HeadTailFacts DEF OwnList
  <1>3. CASE t # <<>> /\ jobs' = Started(js, Head(t))
    <2>1. Head(t) \in Jobs /\ Head(t) \in ToSet(t)
      <3> HIDE DEF t
      <3> QED BY <1>2, <1>3, HeadTailFacts
    <2>2. Head(t) # Head(held[c])
      BY <1>2, <2>1
    <2>3. js[Head(t)].status \in {"pending", "retrying"}
      BY <1>2, <2>1, <2>2
    <2> QED BY <1>3, <2>1, <2>3, StartsNone
  <1>4. CASE jobs' = js
    BY <1>4 DEF SameDone, IsDone
  <1> QED BY <1>3, <1>4 DEF Proceed

(* What counting a run does to the tally and the verdict of its batch.      *)
LEMMA CountedTally ==
  ASSUME NEW bt \in Batch, NEW total, NEW done \in Nat, NEW failed \in Nat,
         NEW verdict \in BatchStatus \ {Unsubmitted, "pending"}
  PROVE  /\ Counted(bt, total, done, failed, verdict).completedJobs = bt.completedJobs + done
         /\ \/ Counted(bt, total, done, failed, verdict).status = verdict
            \/ Counted(bt, total, done, failed, verdict).status = bt.status
  BY DEF Counted, Batch

LEMMA SucceedsEffect ==
  ASSUME IInv, NEW c \in Calls, RunSucceeds(c)
  PROVE  /\ \E j \in Jobs : Completes(jobs, jobs', batches, batches', j)
         /\ KeepsVerdicts(batches, batches')
  <1> DEFINE j == Head(held[c])
             b == BatchOf(j)
             js == [jobs EXCEPT ![j].status = "completed"]
             verdict == IF batches[b].failedJobs > 0 THEN "partially_completed" ELSE "completed"
             cnt == Counted(batches[b], BatchSize[b], 1, 0, verdict)
  <1>1. held[c] # <<>> /\ Proceed(c, js) /\ batches \in [Batches -> Batch]
    BY DEF RunSucceeds, IInv, TypeOK
  <1>2. j \in Jobs /\ b \in Batches /\ jobs[j].status = "processing"
    BY <1>1, HeadFacts DEF RunSucceeds
  <1>3. /\ js \in [Jobs -> Job] /\ js[j].status = "completed"
        /\ \A k \in Jobs : k # j => js[k] = jobs[k]
    BY <1>2 DEF IInv, TypeOK, Job, JobStatus
  <1>4. batches' = [batches EXCEPT ![b] = cnt]
    BY <1>1, <1>2 DEF RunSucceeds
  <1>5. /\ cnt.completedJobs = batches[b].completedJobs + 1
        /\ cnt.status = verdict \/ cnt.status = batches[b].status
    <2>1. verdict \in BatchStatus \ {Unsubmitted, "pending"} /\ batches[b] \in Batch
      BY <1>1, <1>2 DEF BatchStatus, Unsubmitted
    <2> HIDE DEF verdict
    <2> QED BY <2>1, CountedTally
  <1>6. verdict \notin {Unsubmitted, "pending"}
    BY DEF Unsubmitted
  <1> HIDE DEF cnt, verdict
  <1>7. SameDone(js, jobs')
    BY <1>1, <1>3, ProceedsNone
  <1> HIDE DEF js
  <1>8. Completes(jobs, jobs', batches, batches', j)
    <2>1. ~ IsDone(jobs, j) /\ \A k \in Jobs : IsDone(js, k) <=> (IsDone(jobs, k) \/ k = j)
      BY <1>2, <1>3 DEF IsDone
    <2>2. \A k \in Jobs : IsDone(jobs', k) <=> (IsDone(jobs, k) \/ k = j)
      BY <1>7, <2>1 DEF SameDone
    <2>3. /\ batches'[b].completedJobs = batches[b].completedJobs + 1
          /\ SameTally(batches, batches', Batches \ {b})
      BY <1>1, <1>2, <1>4, <1>5 DEF SameTally
    <2> QED BY <2>1, <2>2, <2>3 DEF Completes
  <1>9. KeepsVerdicts(batches, batches')
    BY <1>1, <1>2, <1>4, <1>5, <1>6 DEF KeepsVerdicts, HasVerdict
  <1> QED BY <1>2, <1>8, <1>9

LEMMA FailsEffect ==
  ASSUME IInv, NEW c \in Calls, RunFailsRetry(c) \/ RunFailsDead(c)
  PROVE  Quiet(jobs, jobs', batches, batches') /\ KeepsVerdicts(batches, batches')
  <1> DEFINE j == Head(held[c])
             b == BatchOf(j)
             ra == [jobs EXCEPT ![j].status = "retrying", ![j].nextRetryAt = "ahead"]
             da == [jobs EXCEPT ![j].status = "dead_letter"]
             verdict == IF batches[b].completedJobs > 0 THEN "partially_completed" ELSE "failed"
             cnt == Counted(batches[b], BatchSize[b], 0, 1, verdict)
  <1>1. /\ up /\ held[c] # <<>> /\ CountFailure(b) /\ batches \in [Batches -> Batch]
        /\ Proceed(c, ra) \/ Proceed(c, da)
    BY DEF RunFailsRetry, RunFailsDead, IInv, TypeOK
  <1>2. j \in Jobs /\ b \in Batches /\ jobs[j].status = "processing" /\ jobs[j] \in Job
    BY <1>1, HeadFacts
  <1>3. PICK js \in [Jobs -> Job] : /\ Proceed(c, js) /\ js[j].status \in {"retrying", "dead_letter"}
                                   /\ \A k \in Jobs : k # j => js[k] = jobs[k]
    <2>1. /\ ra \in [Jobs -> Job] /\ ra[j].status = "retrying"
          /\ \A k \in Jobs : k # j => ra[k] = jobs[k]
      <3>1. ra = [jobs EXCEPT ![j] =
                   [jobs[j] EXCEPT !.status = "retrying", !.nextRetryAt = "ahead"]]
        BY <1>2 DEF IInv, TypeOK
      <3>2. [jobs[j] EXCEPT !.status = "retrying", !.nextRetryAt = "ahead"] \in Job
        BY <1>2 DEF Job, JobStatus, Backoff
      <3> HIDE DEF ra
      <3> QED BY <1>2, <3>1, <3>2 DEF IInv, TypeOK, Job
    <2>2. /\ da \in [Jobs -> Job] /\ da[j].status = "dead_letter"
          /\ \A k \in Jobs : k # j => da[k] = jobs[k]
      BY <1>2 DEF IInv, TypeOK, Job, JobStatus
    <2> HIDE DEF ra, da
    <2> QED BY <1>1, <2>1, <2>2
  <1>4. batches' = [batches EXCEPT ![b] = cnt]
    BY <1>1, <1>2 DEF CountFailure
  <1>5. /\ cnt.completedJobs = batches[b].completedJobs
        /\ cnt.status = verdict \/ cnt.status = batches[b].status
    <2>1. /\ verdict \in BatchStatus \ {Unsubmitted, "pending"} /\ batches[b] \in Batch
          /\ batches[b].completedJobs + 0 = batches[b].completedJobs
      BY <1>1, <1>2 DEF BatchStatus, Unsubmitted, Batch
    <2> HIDE DEF verdict
    <2> QED BY <2>1, CountedTally
  <1>6. verdict \notin {Unsubmitted, "pending"}
    BY DEF Unsubmitted
  <1> HIDE DEF cnt, verdict
  <1>7. SameDone(js, jobs')
    BY <1>1, <1>3, ProceedsNone
  <1>8. SameDone(jobs, jobs')
    BY <1>2, <1>3, <1>7 DEF SameDone, IsDone
  <1>9. SameTally(batches, batches', Batches)
    BY <1>1, <1>2, <1>4, <1>5 DEF SameTally
  <1>10. KeepsVerdicts(batches, batches')
    BY <1>1, <1>2, <1>4, <1>5, <1>6 DEF KeepsVerdicts, HasVerdict
  <1> QED BY <1>8, <1>9, <1>10 DEF Quiet

LEMMA SubmitEffect ==
  ASSUME IInv, NEW b \in Batches, NEW p \in Priorities, SubmitBatch(b, p)
  PROVE  Creates(jobs, jobs', batches, batches', b) /\ KeepsVerdicts(batches, batches')
  <1>1. /\ batches[b].status = Unsubmitted /\ batches' = [batches EXCEPT ![b] = NewBatch]
        /\ jobs' = [j \in Jobs |-> IF j \in JobsOf(b) THEN NewJob(p) ELSE jobs[j]]
        /\ batches \in [Batches -> Batch]
    BY DEF SubmitBatch, IInv, TypeOK
  <1>2. \A j \in JobsOf(b) : ~ IsDone(jobs, j) /\ ~ IsDone(jobs', j)
    <2>1. \A j \in JobsOf(b) : j \in Jobs /\ jobs[j].status = Unsubmitted
      BY <1>1, FreshElsewhere
    <2> QED BY <1>1, <2>1 DEF IsDone, NewJob, Unsubmitted
  <1>3. SameDone(jobs, jobs')
    BY <1>1, <1>2 DEF SameDone, IsDone
  <1>4. batches'[b].completedJobs = 0 /\ SameTally(batches, batches', Batches \ {b})
    BY <1>1 DEF SameTally, NewBatch
  <1>5. KeepsVerdicts(batches, batches')
    BY <1>1 DEF KeepsVerdicts, HasVerdict
  <1> QED BY <1>2, <1>3, <1>4, <1>5 DEF Creates

LEMMA ProcessEffect ==
  ASSUME IInv, NEW c \in Calls, NEW n \in Nat, NEW p \in Priorities \cup {AnyPriority},
         ProcessJobs(c, n, p)
  PROVE  Quiet(jobs, jobs', batches, batches') /\ batches' = batches
  <1> DEFINE r == Lesser(n, Len(retryQueue))
             from == PickFrom(p)
             k == PickCount(n - r, p)
             taken == SubSeq(retryQueue, 1, r) \o SubSeq(backlog, from + 1, from + k)
  <1>1. /\ batches' = batches
        /\ \/ taken # <<>> /\ jobs' = Started(jobs, Head(taken))
           \/ jobs' = jobs
    BY DEF ProcessJobs
  <1>2. /\ taken \in Seq(Jobs)
        /\ \A j \in ToSet(taken) : jobs[j].status \in {"pending", "retrying"}
    BY ProcessTakes
  <1> HIDE DEF taken
  <1>3. CASE taken # <<>> /\ jobs' = Started(jobs, Head(taken))
    <2>1. Head(taken) \in Jobs /\ Head(taken) \in ToSet(taken)
      BY <1>2, <1>3, HeadTailFacts
    <2>2. SameDone(jobs, jobs')
      BY <1>2, <1>3, <2>1, StartsNone DEF IInv, TypeOK
    <2> QED BY <1>1, <2>2 DEF Quiet, SameTally
  <1>4. CASE jobs' = jobs
    BY <1>1, <1>4 DEF Quiet, SameDone, IsDone, SameTally
  <1> QED BY <1>1, <1>3, <1>4

LEMMA OthersEffect ==
  ASSUME IInv,
         \/ \E j \in Jobs : RetryFailed(j)
         \/ \E j \in Jobs, reset \in BOOLEAN, p \in Priorities : RetryDeadLetter(j, reset, p)
         \/ \E j \in Jobs : BackoffElapses(j)
  PROVE  Quiet(jobs, jobs', batches, batches') /\ batches' = batches
  <1>1. jobs \in [Jobs -> Job]
    BY DEF IInv, TypeOK
  <1>2. ASSUME NEW j \in Jobs, RetryFailed(j)
        PROVE  SameDone(jobs, jobs') /\ batches' = batches
    BY <1>1, <1>2 DEF RetryFailed, Retryable, SameDone, IsDone, Job
  <1>3. ASSUME NEW j \in Jobs, NEW reset \in BOOLEAN, NEW p \in Priorities,
               RetryDeadLetter(j, reset, p)
        PROVE  SameDone(jobs, jobs') /\ batches' = batches
    <2>1. /\ jobs[j].status = "dead_letter" /\ jobs'[j].status = "pending"
          /\ \A k \in Jobs : k # j => jobs'[k] = jobs[k]
      BY <1>1, <1>3 DEF RetryDeadLetter, Revivable, Job
    <2> QED BY <1>3, <2>1 DEF RetryDeadLetter, Revivable, SameDone, IsDone
  <1>4. ASSUME NEW j \in Jobs, BackoffElapses(j)
        PROVE  SameDone(jobs, jobs') /\ batches' = batches
    BY <1>1, <1>4, PassedFacts DEF BackoffElapses, SameDone, IsDone
  <1>5. SameDone(jobs, jobs') /\ batches' = batches
    BY <1>2, <1>3, <1>4
  <1> QED BY <1>5 DEF Quiet, SameTally

(* Every step of the living object. *)
LEMMA StepEffect ==
  ASSUME IInv, [Next]_vars, up, up'
  PROVE  /\ \/ Quiet(jobs, jobs', batches, batches')
            \/ \E j \in Jobs : Completes(jobs, jobs', batches, batches', j)
            \/ \E b \in Batches : Creates(jobs, jobs', batches, batches', b)
         /\ KeepsVerdicts(batches, batches')
  <1>1. CASE \E b \in Batches, p \in Priorities : SubmitBatch(b, p)
    BY <1>1, SubmitEffect
  <1>2. CASE \E c \in Calls, n \in 1 .. MaxJobs, p \in Priorities \cup {AnyPriority} :
               ProcessJobs(c, n, p)
    <2>1. 1 .. MaxJobs \subseteq Nat
      BY QueueConstants
    <2>2. Quiet(jobs, jobs', batches, batches') /\ batches' = batches
      BY <1>2, <2>1, ProcessEffect
    <2> QED BY <2>2 DEF KeepsVerdicts, HasVerdict
  <1>3. CASE \E c \in Calls : RunSucceeds(c)
    BY <1>3, SucceedsEffect
  <1>4. CASE \E c \in Calls : RunFailsRetry(c) \/ RunFailsDead(c)
    BY <1>4, FailsEffect
  <1>5. CASE \/ \E j \in Jobs : RetryFailed(j)
             \/ \E j \in Jobs, reset \in BOOLEAN, p \in Priorities : RetryDeadLetter(j, reset, p)
             \/ \E j \in Jobs : BackoffElapses(j)
    <2>1. Quiet(jobs, jobs', batches, batches') /\ batches' = batches
      BY <1>5, OthersEffect
    <2> QED BY <2>1 DEF KeepsVerdicts, HasVerdict
  <1>6. CASE Crash \/ Restart \/ RestartEmpty
    BY <1>6 DEF Crash, Restart, RestartEmpty
  <1>7. CASE UNCHANGED vars
    <2>1. jobs' = jobs /\ batches' = batches
      BY <1>7 DEF vars, memory
    <2> QED BY <2>1 DEF Quiet, SameDone, IsDone, SameTally, KeepsVerdicts, HasVerdict
  <1> QED BY <1>1, <1>2, <1>3, <1>4, <1>5, <1>6, <1>7 DEF Next, Posted

(* While the object lives, no handler takes a completed job back and no      *)
(* batch loses its verdict (processJobs, retryFailed, retryDeadLetter).     *)
THEOREM CompletedStaysCompleted == Spec => CompletedIsFinal
  <1> DEFINE Keeps == up /\ up' =>
               /\ \A j \in Jobs : jobs[j].status = "completed" => jobs'[j].status = "completed"
               /\ \A b \in Batches : batches[b].status \notin {Unsubmitted, "pending"} =>
                                      batches'[b].status \notin {Unsubmitted, "pending"}
  <1>1. ASSUME IInv, [Next]_vars PROVE Keeps
    <2> SUFFICES ASSUME up, up' PROVE Keeps
      OBVIOUS
    <2>1. /\ \/ Quiet(jobs, jobs', batches, batches')
             \/ \E j \in Jobs : Completes(jobs, jobs', batches, batches', j)
             \/ \E b \in Batches : Creates(jobs, jobs', batches, batches', b)
          /\ KeepsVerdicts(batches, batches')
      BY <1>1, StepEffect
    <2>2. \A j \in Jobs : IsDone(jobs, j) => IsDone(jobs', j)
      BY <2>1 DEF Quiet, Completes, Creates, SameDone
    <2> QED BY <2>1, <2>2 DEF IsDone, KeepsVerdicts, HasVerdict
  <1>2. IInv /\ [Next]_vars => [Keeps]_vars
    BY <1>1
  <1>3. Spec => [][Keeps]_vars
    BY <1>2, Consistency, PTL DEF Spec
  <1> QED BY <1>3 DEF CompletedIsFinal

-----------------------------------------------------------------------------
(* The counter of completed jobs *)

DoneIn(js, b) == {j \in JobsOf(b) : IsDone(js, j)}
Exact(js, bt) == \A b \in Batches : bt[b].completedJobs = Cardinality(DoneIn(js, b))

(* Inductive only together with the stored snapshot's counters.             *)
CountInv == IInv /\ Exact(jobs, batches) /\ Exact(disk.jobs, disk.batches)

LEMMA DoneFinite ==
  ASSUME NEW b \in Batches, NEW js
  PROVE  IsFiniteSet(DoneIn(js, b)) /\ Cardinality(DoneIn(js, b)) \in Nat
  <1>1. BatchSize[b] \in Nat
    BY QueueConstants
  <1>2. IsFiniteSet(1 .. BatchSize[b])
    BY <1>1, FS_Interval
  <1>3. JobsOf(b) = {<<b, i>> : i \in 1 .. BatchSize[b]}
    BY DEF JobsOf
  <1> DEFINE f == [i \in 1 .. BatchSize[b] |-> <<b, i>>]
  <1>4. IsFiniteSet({f[i] : i \in 1 .. BatchSize[b]})
    <2>1. f \in Surjection(1 .. BatchSize[b], {f[i] : i \in 1 .. BatchSize[b]})
      BY DEF Surjection
    <2> HIDE DEF f
    <2> QED BY <1>2, <2>1, FS_Surjection
  <1>5. IsFiniteSet(JobsOf(b))
    BY <1>3, <1>4
  <1>6. DoneIn(js, b) \subseteq JobsOf(b)
    BY DEF DoneIn
  <1> QED BY <1>5, <1>6, FS_Subset, FS_CardinalityType

LEMMA SameDoneExact ==
  ASSUME NEW js, NEW ks, NEW bt, NEW ct, SameDone(js, ks),
         SameTally(bt, ct, Batches), Exact(js, bt)
  PROVE  Exact(ks, ct)
  <1>1. ASSUME NEW b \in Batches PROVE DoneIn(ks, b) = DoneIn(js, b)
    BY JobFacts DEF DoneIn, SameDone
  <1> QED BY <1>1 DEF Exact, SameTally

LEMMA CompletesExact ==
  ASSUME NEW js, NEW ks, NEW bt, NEW ct, NEW j \in Jobs,
         Completes(js, ks, bt, ct, j), Exact(js, bt)
  PROVE  Exact(ks, ct)
  <1> SUFFICES ASSUME NEW b \in Batches
               PROVE  ct[b].completedJobs = Cardinality(DoneIn(ks, b))
    BY DEF Exact
  <1>1. /\ \A k \in JobsOf(b) : k \in Jobs /\ BatchOf(k) = b
        /\ j \in JobsOf(BatchOf(j))
    BY JobFacts DEF JobsOf, BatchOf
  <1>2. bt[b].completedJobs = Cardinality(DoneIn(js, b))
    BY DEF Exact
  <1>3. CASE b = BatchOf(j)
    <2>1. DoneIn(ks, b) = DoneIn(js, b) \cup {j} /\ j \notin DoneIn(js, b)
      BY <1>1, <1>3 DEF DoneIn, Completes
    <2>2. Cardinality(DoneIn(ks, b)) = Cardinality(DoneIn(js, b)) + 1
      BY <2>1, DoneFinite, FS_AddElement
    <2> QED BY <1>2, <1>3, <2>2 DEF Completes
  <1>4. CASE b # BatchOf(j)
    <2>1. DoneIn(ks, b) = DoneIn(js, b)
      BY <1>1, <1>4 DEF DoneIn, Completes
    <2> QED BY <1>2, <1>4, <2>1 DEF Completes, SameTally
  <1> QED BY <1>3, <1>4

LEMMA CreatesExact ==
  ASSUME NEW js, NEW ks, NEW bt, NEW ct, NEW a \in Batches,
         Creates(js, ks, bt, ct, a), Exact(js, bt)
  PROVE  Exact(ks, ct)
  <1> SUFFICES ASSUME NEW b \in Batches
               PROVE  ct[b].completedJobs = Cardinality(DoneIn(ks, b))
    BY DEF Exact
  <1>1. DoneIn(ks, b) = DoneIn(js, b)
    BY JobFacts DEF DoneIn, Creates, SameDone
  <1>2. CASE b = a
    <2>1. DoneIn(ks, b) = {}
      BY <1>1, <1>2 DEF DoneIn, Creates
    <2> QED BY <1>2, <2>1, FS_EmptySet DEF Creates
  <1>3. CASE b # a
    BY <1>1, <1>3 DEF Exact, Creates, SameTally
  <1> QED BY <1>2, <1>3

(* The steps of the handlers. *)
Handler ==
  \/ \E b \in Batches, p \in Priorities : SubmitBatch(b, p)
  \/ \E c \in Calls, n \in 1 .. MaxJobs, p \in Priorities \cup {AnyPriority} :
       ProcessJobs(c, n, p)
  \/ \E c \in Calls : RunSucceeds(c) \/ RunFailsRetry(c) \/ RunFailsDead(c)
  \/ \E j \in Jobs : RetryFailed(j)
  \/ \E j \in Jobs, reset \in BOOLEAN, p \in Priorities : RetryDeadLetter(j, reset, p)

LEMMA HandlerLives ==
  ASSUME Handler PROVE (Save \/ UNCHANGED disk) /\ up /\ up'
  <1>1. CASE \E b \in Batches, p \in Priorities : SubmitBatch(b, p)
    BY <1>1 DEF SubmitBatch
  <1>2. CASE \E c \in Calls, n \in 1 .. MaxJobs, p \in Priorities \cup {AnyPriority} :
               ProcessJobs(c, n, p)
    BY <1>2 DEF ProcessJobs
  <1>3. CASE \E c \in Calls : RunSucceeds(c) \/ RunFailsRetry(c) \/ RunFailsDead(c)
    <2>1. ASSUME NEW c, NEW js, Proceed(c, js) PROVE Save \/ UNCHANGED disk
      BY <2>1 DEF Proceed
    <2>2. PICK c \in Calls : RunSucceeds(c) \/ RunFailsRetry(c) \/ RunFailsDead(c)
      BY <1>3
    <2>3. CASE RunSucceeds(c)
      BY <2>1, <2>3 DEF RunSucceeds
    <2>4. CASE RunFailsRetry(c)
      BY <2>1, <2>4 DEF RunFailsRetry
    <2>5. CASE RunFailsDead(c)
      BY <2>1, <2>5 DEF RunFailsDead
    <2> QED BY <2>2, <2>3, <2>4, <2>5
  <1>4. CASE \E j \in Jobs : RetryFailed(j)
    BY <1>4 DEF RetryFailed, Retryable
  <1>5. CASE \E j \in Jobs, reset \in BOOLEAN, p \in Priorities : RetryDeadLetter(j, reset, p)
    BY <1>5 DEF RetryDeadLetter, Revivable
  <1> QED BY <1>1, <1>2, <1>3, <1>4, <1>5 DEF Handler

LEMMA StepKinds ==
  ASSUME [Next]_vars
  PROVE  \/ Handler
         \/ \E j \in Jobs : BackoffElapses(j)
         \/ Crash \/ Restart \/ RestartEmpty \/ UNCHANGED vars
  BY DEF Next, Posted, Handler

(* A step stores the memory as it is after the step, or stores nothing that  *)
(* matters to the count.                                                    *)
LEMMA DiskEffect ==
  ASSUME IInv, [Next]_vars
  PROVE  \/ disk'.jobs = jobs' /\ disk'.batches = batches' /\ up /\ up'
         \/ SameDone(disk.jobs, disk'.jobs) /\ disk'.batches = disk.batches
  <1>1. CASE Handler
    <2>1. (Save \/ UNCHANGED disk) /\ up /\ up'
      BY <1>1, HandlerLives
    <2>2. \/ disk'.jobs = jobs' /\ disk'.batches = batches'
          \/ disk' = disk
      BY <2>1 DEF Save
    <2> QED BY <2>1, <2>2 DEF SameDone, IsDone
  <1>2. CASE \E j \in Jobs : BackoffElapses(j)
    <2>1. PICK j \in Jobs : disk' = [disk EXCEPT !.jobs = Passed(disk.jobs, j)]
      BY <1>2 DEF BackoffElapses
    <2>2. disk \in Snapshots /\ disk.jobs \in [Jobs -> Job]
      BY DEF IInv, TypeOK, Snapshots
    <2>3. disk'.jobs = Passed(disk.jobs, j) /\ disk'.batches = disk.batches
      BY <2>1, <2>2 DEF Snapshots
    <2> QED BY <2>2, <2>3, PassedFacts DEF SameDone, IsDone
  <1>3. CASE Crash \/ Restart \/ RestartEmpty \/ UNCHANGED vars
    <2>1. disk' = disk
      BY <1>3 DEF Crash, Restart, RestartEmpty, vars
    <2> QED BY <2>1 DEF SameDone, IsDone
  <1> QED BY <1>1, <1>2, <1>3, StepKinds

LEMMA EmptyExact == Exact(EmptyState.jobs, EmptyState.batches)
  <1>1. ASSUME NEW b \in Batches
        PROVE  EmptyState.batches[b].completedJobs = Cardinality(DoneIn(EmptyState.jobs, b))
    <2>1. EmptyState.batches[b].completedJobs = 0
      BY DEF EmptyState, NoBatch, NewBatch
    <2>2. \A j \in JobsOf(b) : ~ IsDone(EmptyState.jobs, j)
      BY JobFacts DEF EmptyState, NoJob, IsDone, Unsubmitted
    <2>3. DoneIn(EmptyState.jobs, b) = {}
      BY <2>2 DEF DoneIn
    <2> QED BY <2>1, <2>3, FS_EmptySet
  <1> QED BY <1>1 DEF Exact

LEMMA CountInvKept ==
  ASSUME CountInv, [Next]_vars PROVE CountInv'
  <1>1. IInv'
    BY NextKeeps DEF CountInv
  <1>2. Exact(jobs', batches')
    <2>1. CASE up /\ up'
      <3>1. \/ Quiet(jobs, jobs', batches, batches')
            \/ \E j \in Jobs : Completes(jobs, jobs', batches, batches', j)
            \/ \E b \in Batches : Creates(jobs, jobs', batches, batches', b)
        BY <2>1, StepEffect DEF CountInv
      <3>2. Exact(jobs, batches)
        BY DEF CountInv
      <3> QED BY <3>1, <3>2, SameDoneExact, CompletesExact, CreatesExact DEF Quiet
    <2>2. CASE ~ (up /\ up')
      <3>1. Crash \/ Restart \/ RestartEmpty \/ UNCHANGED vars
        BY <2>2, StepKinds, HandlerLives DEF BackoffElapses
      <3>2. \/ jobs' = EmptyState.jobs /\ batches' = EmptyState.batches
            \/ jobs' = disk.jobs /\ batches' = disk.batches
            \/ jobs' = jobs /\ batches' = batches
        BY <3>1 DEF Crash, Restart, RestartEmpty, Become, vars, memory
      <3> QED BY <3>2, EmptyExact DEF CountInv
    <2> QED BY <2>1, <2>2
  <1>3. Exact(disk'.jobs, disk'.batches)
    <2>1. CASE disk'.jobs = jobs' /\ disk'.batches = batches'
      BY <1>2, <2>1
    <2>2. CASE SameDone(disk.jobs, disk'.jobs) /\ disk'.batches = disk.batches
      BY <2>2, SameDoneExact DEF CountInv, SameTally
    <2> QED BY <2>1, <2>2, DiskEffect DEF CountInv
  <1> QED BY <1>1, <1>2, <1>3 DEF CountInv, Exact, DoneIn, IsDone

(* completedJobs of a batch is the number of its completed jobs, through     *)
(* retries, revivals from the dead-letter queue, crashes and failed saves.  *)
THEOREM CompletedCountIsExact == Spec => []CompletedCountExact
  <1>1. Init => CountInv
    <2> SUFFICES ASSUME Init PROVE CountInv
      OBVIOUS
    <2>1. IInv
      BY InitInv
    <2>2. jobs = EmptyState.jobs /\ batches = EmptyState.batches /\ disk = EmptyState
      BY DEF Init
    <2> QED BY <2>1, <2>2, EmptyExact DEF CountInv
  <1>2. CountInv /\ [Next]_vars => CountInv'
    BY CountInvKept
  <1>3. CountInv => CompletedCountExact
    BY DEF CountInv, Exact, DoneIn, IsDone, CompletedCountExact
  <1> QED BY <1>1, <1>2, <1>3, PTL DEF Spec

-----------------------------------------------------------------------------
(* Verdicts *)

(* What the counters of a batch of `total` jobs say of its verdict.         *)
Earned(x, total) ==
  /\ x.status = "completed" => x.completedJobs >= total
  /\ x.status = "failed" => /\ x.completedJobs = 0 /\ x.failedJobs > 0
                            /\ x.failedJobs >= total
  /\ x.completedJobs >= total => x.status \in {"completed", "partially_completed"}

AllEarned(bt) == \A b \in Batches : Earned(bt[b], BatchSize[b])

(* What the status of a job says of its attempts. *)
Spent(x) ==
  /\ x.status = "dead_letter" => x.attempts >= MaxAttempts
  /\ x.status = "retrying" => x.attempts \in 1 .. MaxAttempts - 1
  /\ x.status = "processing" => x.attempts >= 1

AllSpent(js) == \A j \in Jobs : Spent(js[j])

(* Inductive only together with the stored snapshot. *)
VerdictInv ==
  /\ CountInv
  /\ AllEarned(batches) /\ AllEarned(disk.batches)
  /\ AllSpent(jobs) /\ AllSpent(disk.jobs)

LEMMA UpTo ==
  ASSUME NEW n \in Nat PROVE IsFiniteSet(1 .. n) /\ Cardinality(1 .. n) = n
  BY FS_Interval

(* A batch has as many jobs as its size says. *)
LEMMA JobsCounted ==
  ASSUME NEW b \in Batches
  PROVE  IsFiniteSet(JobsOf(b)) /\ Cardinality(JobsOf(b)) = BatchSize[b]
  <1> DEFINE f == [i \in 1 .. BatchSize[b] |-> <<b, i>>]
  <1>1. BatchSize[b] \in Nat
    BY QueueConstants
  <1>2. IsFiniteSet(1 .. BatchSize[b]) /\ Cardinality(1 .. BatchSize[b]) = BatchSize[b]
    BY <1>1, UpTo
  <1>3. f \in Bijection(1 .. BatchSize[b], JobsOf(b))
    <2>1. /\ DOMAIN f = 1 .. BatchSize[b]
          /\ \A i \in 1 .. BatchSize[b] : f[i] = <<b, i>>
      OBVIOUS
    <2>2. JobsOf(b) = {<<b, i>> : i \in 1 .. BatchSize[b]}
      BY DEF JobsOf
    <2>3. \A i, k \in 1 .. BatchSize[b] : <<b, i>> = <<b, k>> => i = k
      OBVIOUS
    <2>4. f \in [1 .. BatchSize[b] -> JobsOf(b)]
      BY <2>2
    <2>5. \A i, k \in 1 .. BatchSize[b] : f[i] = f[k] => i = k
      BY <2>1, <2>3
    <2>6. \A j \in JobsOf(b) : \E i \in 1 .. BatchSize[b] : f[i] = j
      BY <2>1, <2>2
    <2> HIDE DEF f
    <2> QED BY <2>4, <2>5, <2>6, Fun_IsBij
  <1> HIDE DEF f
  <1>4. ExistsBijection(1 .. BatchSize[b], JobsOf(b))
    BY <1>3 DEF ExistsBijection
  <1> QED BY <1>2, <1>4, FS_Bijection

(* Counting a run that succeeded, and one that failed. *)
LEMMA SuccessEarned ==
  ASSUME NEW x \in Batch, NEW total \in Nat \ {0}, Earned(x, total)
  PROVE  Earned(Counted(x, total, 1, 0,
                        IF x.failedJobs > 0 THEN "partially_completed" ELSE "completed"), total)
  <1> DEFINE verdict == IF x.failedJobs > 0 THEN "partially_completed" ELSE "completed"
             counted == [x EXCEPT !.completedJobs = @ + 1, !.failedJobs = @ + 0]
             y == Counted(x, total, 1, 0, verdict)
  <1>1. /\ counted.completedJobs = x.completedJobs + 1 /\ counted.failedJobs = x.failedJobs
        /\ counted.status = x.status
        /\ x.completedJobs \in Nat /\ x.failedJobs \in Nat /\ x.status \in BatchStatus
    BY DEF Batch
  <1>2. y = IF counted.completedJobs + counted.failedJobs >= total
            THEN [counted EXCEPT !.status = verdict] ELSE counted
    BY DEF Counted
  <1>3. /\ [counted EXCEPT !.status = verdict].completedJobs = x.completedJobs + 1
        /\ [counted EXCEPT !.status = verdict].failedJobs = x.failedJobs
        /\ [counted EXCEPT !.status = verdict].status = verdict
    BY DEF Batch
  <1> SUFFICES Earned(y, total)
    BY DEF y
  <1> HIDE DEF counted, y
  <1>4. CASE x.completedJobs + 1 + x.failedJobs >= total
    <2>1. /\ y.completedJobs = x.completedJobs + 1 /\ y.failedJobs = x.failedJobs
          /\ y.status = verdict
      BY <1>1, <1>2, <1>3, <1>4
    <2> QED BY <1>1, <1>4, <2>1 DEF Earned
  <1>5. CASE ~ (x.completedJobs + 1 + x.failedJobs >= total)
    <2>1. y = counted
      BY <1>1, <1>2, <1>5
    <2> QED BY <1>1, <1>5, <2>1 DEF Earned
  <1> QED BY <1>4, <1>5

LEMMA FailureEarned ==
  ASSUME NEW x \in Batch, NEW total \in Nat \ {0}, Earned(x, total)
  PROVE  Earned(Counted(x, total, 0, 1,
                        IF x.completedJobs > 0 THEN "partially_completed" ELSE "failed"), total)
  <1> DEFINE verdict == IF x.completedJobs > 0 THEN "partially_completed" ELSE "failed"
             counted == [x EXCEPT !.completedJobs = @ + 0, !.failedJobs = @ + 1]
             y == Counted(x, total, 0, 1, verdict)
  <1>1. /\ counted.completedJobs = x.completedJobs /\ counted.failedJobs = x.failedJobs + 1
        /\ counted.status = x.status
        /\ x.completedJobs \in Nat /\ x.failedJobs \in Nat /\ x.status \in BatchStatus
    BY DEF Batch
  <1>2. y = IF counted.completedJobs + counted.failedJobs >= total
            THEN [counted EXCEPT !.status = verdict] ELSE counted
    BY DEF Counted
  <1>3. /\ [counted EXCEPT !.status = verdict].completedJobs = x.completedJobs
        /\ [counted EXCEPT !.status = verdict].failedJobs = x.failedJobs + 1
        /\ [counted EXCEPT !.status = verdict].status = verdict
    BY <1>1 DEF Batch
  <1> SUFFICES Earned(y, total)
    BY DEF y
  <1> HIDE DEF counted, y
  <1>4. CASE x.completedJobs + x.failedJobs + 1 >= total
    <2>1. /\ y.completedJobs = x.completedJobs /\ y.failedJobs = x.failedJobs + 1
          /\ y.status = verdict
      BY <1>1, <1>2, <1>3, <1>4
    <2> QED BY <1>1, <1>4, <2>1 DEF Earned
  <1>5. CASE ~ (x.completedJobs + x.failedJobs + 1 >= total)
    <2>1. y = counted
      BY <1>1, <1>2, <1>5
    <2> QED BY <1>1, <1>5, <2>1 DEF Earned
  <1> QED BY <1>4, <1>5

(* A handler creates a batch, counts a run of one, or leaves the batches.   *)
LEMMA HandlerEarns ==
  ASSUME IInv, Handler, AllEarned(batches) PROVE AllEarned(batches')
  <1>0. batches \in [Batches -> Batch] /\ \A b \in Batches : BatchSize[b] \in Nat \ {0}
    BY QueueConstants DEF IInv, TypeOK
  <1>1. ASSUME NEW b \in Batches, NEW p \in Priorities, SubmitBatch(b, p)
        PROVE  AllEarned(batches')
    <2>1. batches' = [batches EXCEPT ![b] = NewBatch]
      BY <1>1 DEF SubmitBatch
    <2>2. Earned(NewBatch, BatchSize[b])
      BY <1>0 DEF Earned, NewBatch
    <2> QED BY <1>0, <2>1, <2>2 DEF AllEarned
  <1>2. ASSUME NEW c \in Calls, RunSucceeds(c) PROVE AllEarned(batches')
    <2> DEFINE j == Head(held[c])
               b == BatchOf(j)
               cnt == Counted(batches[b], BatchSize[b], 1, 0,
                 IF batches[b].failedJobs > 0 THEN "partially_completed" ELSE "completed")
    <2>1. b \in Batches
      BY <1>2, HeadFacts DEF RunSucceeds
    <2>2. batches' = [batches EXCEPT ![b] = cnt]
      BY <1>0, <1>2, <2>1 DEF RunSucceeds
    <2>3. Earned(cnt, BatchSize[b])
      BY <1>0, <2>1, SuccessEarned DEF AllEarned
    <2> HIDE DEF cnt
    <2> QED BY <1>0, <2>1, <2>2, <2>3 DEF AllEarned
  <1>3. ASSUME NEW c \in Calls, RunFailsRetry(c) \/ RunFailsDead(c) PROVE AllEarned(batches')
    <2> DEFINE j == Head(held[c])
               b == BatchOf(j)
               cnt == Counted(batches[b], BatchSize[b], 0, 1,
                 IF batches[b].completedJobs > 0 THEN "partially_completed" ELSE "failed")
    <2>1. b \in Batches /\ CountFailure(b)
      BY <1>3, HeadFacts DEF RunFailsRetry, RunFailsDead
    <2>2. batches' = [batches EXCEPT ![b] = cnt]
      BY <1>0, <2>1 DEF CountFailure
    <2>3. Earned(cnt, BatchSize[b])
      BY <1>0, <2>1, FailureEarned DEF AllEarned
    <2> HIDE DEF cnt
    <2> QED BY <1>0, <2>1, <2>2, <2>3 DEF AllEarned
  <1>4. ASSUME \/ \E c \in Calls, n \in 1 .. MaxJobs, p \in Priorities \cup {AnyPriority} :
                    ProcessJobs(c, n, p)
               \/ \E j \in Jobs : RetryFailed(j)
               \/ \E j \in Jobs, reset \in BOOLEAN, p \in Priorities : RetryDeadLetter(j, reset, p)
        PROVE  AllEarned(batches')
    BY <1>4 DEF ProcessJobs, RetryFailed, RetryDeadLetter, AllEarned
  <1> QED BY <1>1, <1>2, <1>3, <1>4 DEF Handler

(* Starting a job, whatever it was, is an attempt. *)
LEMMA StartedSpent ==
  ASSUME NEW js \in [Jobs -> Job], NEW j \in Jobs, AllSpent(js)
  PROVE  AllSpent(Started(js, j))
  <1>1. /\ js[j].attempts \in Nat
        /\ Started(js, j) = [js EXCEPT ![j] =
              [js[j] EXCEPT !.status = "processing", !.attempts = js[j].attempts + 1]]
    BY DEF Job, Started
  <1>2. Spent([js[j] EXCEPT !.status = "processing", !.attempts = js[j].attempts + 1])
    BY <1>1 DEF Spent, Job
  <1> QED BY <1>1, <1>2 DEF AllSpent

LEMMA ProceedSpent ==
  ASSUME IInv, NEW c \in Calls, held[c] # <<>>,
         NEW js \in [Jobs -> Job], AllSpent(js), Proceed(c, js)
  PROVE  AllSpent(jobs')
  <1> DEFINE t == Tail(held[c])
  <1>1. held[c] \in Seq(Jobs)
    BY DEF IInv, TypeOK
  <1>2. t \in Seq(Jobs)
    BY <1>1, HeadTailFacts
  <1>3. CASE t # <<>> /\ jobs' = Started(js, Head(t))
    <2>1. Head(t) \in Jobs
      <3> HIDE DEF t
      <3> QED BY <1>2, <1>3, HeadTailFacts
    <2> QED BY <1>3, <2>1, StartedSpent
  <1> QED BY <1>3 DEF Proceed

LEMMA HandlerSpends ==
  ASSUME IInv, Handler, AllSpent(jobs) PROVE AllSpent(jobs')
  <1>0. jobs \in [Jobs -> Job] /\ \A j \in Jobs : jobs[j] \in Job
    BY DEF IInv, TypeOK
  <1>1. ASSUME NEW b \in Batches, NEW p \in Priorities, SubmitBatch(b, p)
        PROVE  AllSpent(jobs')
    <2>1. jobs' = [j \in Jobs |-> IF j \in JobsOf(b) THEN NewJob(p) ELSE jobs[j]]
      BY <1>1 DEF SubmitBatch
    <2>2. Spent(NewJob(p))
      BY DEF Spent, NewJob
    <2> QED BY <2>1, <2>2 DEF AllSpent
  <1>2. ASSUME NEW c \in Calls, NEW n \in 1 .. MaxJobs, NEW p \in Priorities \cup {AnyPriority},
               ProcessJobs(c, n, p)
        PROVE  AllSpent(jobs')
    <2> DEFINE r == Lesser(n, Len(retryQueue))
               from == PickFrom(p)
               k == PickCount(n - r, p)
               taken == SubSeq(retryQueue, 1, r) \o SubSeq(backlog, from + 1, from + k)
    <2>1. \/ taken # <<>> /\ jobs' = Started(jobs, Head(taken))
          \/ jobs' = jobs
      BY <1>2 DEF ProcessJobs
    <2>2. taken \in Seq(Jobs)
      <3>1. n \in Nat
        BY QueueConstants
      <3> QED BY <1>2, <3>1, ProcessTakes
    <2> HIDE DEF taken
    <2>3. CASE taken # <<>> /\ jobs' = Started(jobs, Head(taken))
      BY <1>0, <2>2, <2>3, HeadTailFacts, StartedSpent
    <2> QED BY <2>1, <2>3
  <1>3. ASSUME NEW c \in Calls, RunSucceeds(c) PROVE AllSpent(jobs')
    <2> DEFINE j == Head(held[c])
               js == [jobs EXCEPT ![j].status = "completed"]
    <2>1. held[c] # <<>> /\ j \in Jobs /\ Proceed(c, js)
      BY <1>3, HeadFacts DEF RunSucceeds
    <2>2. js \in [Jobs -> Job] /\ AllSpent(js)
      BY <1>0, <2>1 DEF AllSpent, Spent, Job, JobStatus
    <2> HIDE DEF js
    <2> QED BY <2>1, <2>2, ProceedSpent
  <1>4. ASSUME NEW c \in Calls, RunFailsRetry(c) PROVE AllSpent(jobs')
    <2> DEFINE j == Head(held[c])
               x == [jobs[j] EXCEPT !.status = "retrying", !.nextRetryAt = "ahead"]
               js == [jobs EXCEPT ![j].status = "retrying", ![j].nextRetryAt = "ahead"]
    <2>1. /\ held[c] # <<>> /\ j \in Jobs /\ jobs[j].status = "processing"
          /\ jobs[j].attempts < MaxAttempts /\ Proceed(c, js)
      BY <1>4, HeadFacts DEF RunFailsRetry, MayRetry
    <2>2. js = [jobs EXCEPT ![j] = x]
      BY <1>0, <2>1
    <2>3. x \in Job /\ Spent(x)
      <3>1. jobs[j].attempts \in 1 .. MaxAttempts - 1
        BY <1>0, <2>1, QueueConstants DEF AllSpent, Spent, Job
      <3> QED BY <1>0, <2>1, <3>1 DEF Spent, Job, JobStatus, Backoff
    <2> HIDE DEF js, x
    <2>4. js \in [Jobs -> Job] /\ AllSpent(js)
      BY <1>0, <2>1, <2>2, <2>3 DEF AllSpent
    <2> QED BY <2>1, <2>4, ProceedSpent
  <1>5. ASSUME NEW c \in Calls, RunFailsDead(c) PROVE AllSpent(jobs')
    <2> DEFINE j == Head(held[c])
               js == [jobs EXCEPT ![j].status = "dead_letter"]
    <2>1. /\ held[c] # <<>> /\ j \in Jobs
          /\ ~ (jobs[j].attempts < MaxAttempts) /\ Proceed(c, js)
      BY <1>5, HeadFacts DEF RunFailsDead, MayRetry
    <2>2. jobs[j].attempts >= MaxAttempts
      BY <1>0, <2>1, QueueConstants DEF Job
    <2>3. js \in [Jobs -> Job] /\ AllSpent(js)
      BY <1>0, <2>1, <2>2 DEF AllSpent, Spent, Job, JobStatus
    <2> HIDE DEF js
    <2> QED BY <2>1, <2>3, ProceedSpent
  <1>6. ASSUME NEW j \in Jobs, RetryFailed(j) PROVE AllSpent(jobs')
    BY <1>0, <1>6 DEF RetryFailed, AllSpent, Spent, Job
  <1>7. ASSUME NEW j \in Jobs, NEW reset \in BOOLEAN, NEW p \in Priorities,
               RetryDeadLetter(j, reset, p)
        PROVE  AllSpent(jobs')
    <2>1. /\ jobs'[j].status = "pending"
          /\ \A k \in Jobs : k # j => jobs'[k] = jobs[k]
      BY <1>0, <1>7 DEF RetryDeadLetter, Job
    <2> QED BY <2>1 DEF AllSpent, Spent
  <1> QED BY <1>1, <1>2, <1>3, <1>4, <1>5, <1>6, <1>7 DEF Handler

(* A passing instant changes neither status nor attempts. *)
LEMMA PassedSpent ==
  ASSUME NEW js \in [Jobs -> Job], NEW j \in Jobs, AllSpent(js)
  PROVE  AllSpent(Passed(js, j))
  BY DEF Passed, AllSpent, Spent, Job

LEMMA EmptyEarned == AllEarned(EmptyState.batches) /\ AllSpent(EmptyState.jobs)
  <1>1. \A b \in Batches : EmptyState.batches[b] = NoBatch /\ BatchSize[b] \in Nat \ {0}
    BY QueueConstants DEF EmptyState
  <1>2. \A b \in Batches : Earned(NoBatch, BatchSize[b])
    BY <1>1 DEF Earned, NoBatch, NewBatch, Unsubmitted
  <1>3. Spent(NoJob)
    BY DEF Spent, NoJob, Unsubmitted
  <1>4. \A j \in Jobs : EmptyState.jobs[j] = NoJob
    BY DEF EmptyState
  <1> QED BY <1>1, <1>2, <1>3, <1>4 DEF AllEarned, AllSpent

LEMMA VerdictInvKept ==
  ASSUME VerdictInv, [Next]_vars PROVE VerdictInv'
  <1>0. CountInv' /\ IInv
    BY CountInvKept DEF VerdictInv, CountInv
  <1> DEFINE Fine(js, bt) == AllEarned(bt) /\ AllSpent(js)
  <1>a. Fine(jobs, batches) /\ Fine(disk.jobs, disk.batches)
    BY DEF VerdictInv
  <1>b. SUFFICES Fine(jobs', batches') /\ Fine(disk'.jobs, disk'.batches)
    BY <1>0 DEF VerdictInv, AllEarned, AllSpent, Earned, Spent
  <1>1. CASE Handler
    <2>1. AllEarned(batches') /\ AllSpent(jobs')
      BY <1>0, <1>1, HandlerEarns, HandlerSpends DEF VerdictInv
    <2>2. \/ disk'.jobs = jobs' /\ disk'.batches = batches'
          \/ disk' = disk
      BY <1>1, HandlerLives DEF Save
    <2> QED BY <1>a, <2>1, <2>2
  <1>2. CASE \E j \in Jobs : BackoffElapses(j)
    <2>1. PICK j \in Jobs : BackoffElapses(j)
      BY <1>2
    <2>2. /\ jobs \in [Jobs -> Job] /\ disk.jobs \in [Jobs -> Job] /\ disk \in Snapshots
      BY <1>0 DEF IInv, TypeOK, Snapshots
    <2>3. /\ jobs' = Passed(jobs, j) /\ batches' = batches
          /\ disk'.jobs = Passed(disk.jobs, j) /\ disk'.batches = disk.batches
      BY <2>1, <2>2 DEF BackoffElapses, Snapshots
    <2> QED BY <1>a, <2>2, <2>3, PassedSpent
  <1>3. CASE Crash \/ Restart \/ RestartEmpty \/ UNCHANGED vars
    <2>1. /\ disk' = disk
          /\ \/ jobs' = EmptyState.jobs /\ batches' = EmptyState.batches
             \/ jobs' = disk.jobs /\ batches' = disk.batches
             \/ jobs' = jobs /\ batches' = batches
      BY <1>3 DEF Crash, Restart, RestartEmpty, Become, vars, memory
    <2> QED BY <1>a, <2>1, EmptyEarned
  <1> QED BY <1>1, <1>2, <1>3, StepKinds

(* The verdict of a batch is true of its jobs, and a dead letter has used   *)
(* up its attempts (the counters of processJobs, moveToDeadLetterQueue),    *)
(* through retries, revivals, overlapping calls, crashes and lost saves.    *)
THEOREM VerdictsAreEarned == Spec => []VerdictsEarned
  <1>1. Init => VerdictInv
    <2> SUFFICES ASSUME Init PROVE VerdictInv
      OBVIOUS
    <2>1. IInv
      BY InitInv
    <2>2. jobs = EmptyState.jobs /\ batches = EmptyState.batches /\ disk = EmptyState
      BY DEF Init
    <2> QED BY <2>1, <2>2, EmptyExact, EmptyEarned DEF VerdictInv, CountInv
  <1>2. VerdictInv /\ [Next]_vars => VerdictInv'
    BY VerdictInvKept
  <1>3. VerdictInv => VerdictsEarned
    <2> SUFFICES ASSUME VerdictInv PROVE VerdictsEarned
      OBVIOUS
    <2>1. DeadOnlyExhausted
      BY DEF VerdictInv, AllSpent, Spent, DeadOnlyExhausted
    <2>2. ASSUME NEW b \in Batches
          PROVE  LET done == {j \in JobsOf(b) : jobs[j].status = "completed"}
                 IN /\ batches[b].status = "completed" => done = JobsOf(b)
                    /\ batches[b].status = "failed" => done = {}
                    /\ done = JobsOf(b) =>
                         batches[b].status \in {"completed", "partially_completed"}
      <3>1. /\ batches[b].completedJobs = Cardinality(DoneIn(jobs, b))
            /\ Earned(batches[b], BatchSize[b]) /\ BatchSize[b] \in Nat
        BY QueueConstants DEF VerdictInv, CountInv, Exact, AllEarned
      <3>2. IsFiniteSet(JobsOf(b)) /\ Cardinality(JobsOf(b)) = BatchSize[b]
        BY JobsCounted
      <3>3. /\ IsFiniteSet(DoneIn(jobs, b)) /\ Cardinality(DoneIn(jobs, b)) \in Nat
            /\ DoneIn(jobs, b) \in SUBSET JobsOf(b)
        BY DoneFinite DEF DoneIn
      <3>4. /\ Cardinality(DoneIn(jobs, b)) <= BatchSize[b]
            /\ Cardinality(DoneIn(jobs, b)) = BatchSize[b] => DoneIn(jobs, b) = JobsOf(b)
        BY <3>2, <3>3, FS_Subset
      <3>5. Cardinality(DoneIn(jobs, b)) = 0 => DoneIn(jobs, b) = {}
        BY <3>3, FS_EmptySet
      <3>6. /\ batches[b].status = "completed" => DoneIn(jobs, b) = JobsOf(b)
            /\ batches[b].status = "failed" => DoneIn(jobs, b) = {}
            /\ DoneIn(jobs, b) = JobsOf(b) =>
                 batches[b].status \in {"completed", "partially_completed"}
        BY <3>1, <3>2, <3>3, <3>4, <3>5 DEF Earned
      <3> QED BY <3>6 DEF DoneIn, IsDone
    <2>3. BatchVerdict
      BY <2>2 DEF BatchVerdict
    <2> QED BY <2>1, <2>3 DEF VerdictsEarned
  <1> QED BY <1>1, <1>2, <1>3, PTL DEF Spec

-----------------------------------------------------------------------------
(* The most urgent first *)

(* The backlog q holds the more urgent jobs first. *)
Sorted(js, q) ==
  \A i, k \in 1 .. Len(q) : i < k => js[q[k]].priority <= js[q[i]].priority

(* Every job of q is at least as urgent as every job of r. *)
Leads(js, q, r) ==
  \A j \in ToSet(q), k \in ToSet(r) : js[k].priority <= js[j].priority

SamePriority(js, ks) == \A j \in Jobs : ks[j].priority = js[j].priority

(* The inductive invariant behind the order in which jobs are taken. *)
SortedInv == IInv /\ Sorted(jobs, backlog) /\ Sorted(disk.jobs, disk.backlog)

LEMMA SameSorted ==
  ASSUME NEW js, NEW ks, NEW q \in Seq(Jobs), Sorted(js, q), SamePriority(js, ks)
  PROVE  Sorted(ks, q)
  <1>1. \A i \in 1 .. Len(q) : q[i] \in Jobs
    BY ElementOfSeq
  <1> QED BY <1>1 DEF Sorted, SamePriority

(* Parts of a sorted backlog are sorted, and the earlier leads the later. *)
LEMMA SortedParts ==
  ASSUME NEW js, NEW q \in Seq(Jobs), Sorted(js, q),
         NEW m \in 1 .. Len(q) + 1, NEW n \in 0 .. Len(q)
  PROVE  Sorted(js, SubSeq(q, m, n))
  <1> DEFINE u == SubSeq(q, m, n)
  <1>1. /\ u \in Seq(Jobs) /\ Len(u) = IF m <= n THEN n - m + 1 ELSE 0
        /\ \A i \in 1 .. Len(u) : u[i] = q[m + i - 1]
    BY SubSeqFacts
  <1> HIDE DEF u
  <1>2. ASSUME NEW i \in 1 .. Len(u), NEW k \in 1 .. Len(u), i < k
        PROVE  js[u[k]].priority <= js[u[i]].priority
    <2>1. /\ m + i - 1 \in 1 .. Len(q) /\ m + k - 1 \in 1 .. Len(q)
          /\ m + i - 1 < m + k - 1
      BY <1>1, <1>2
    <2>2. js[q[m + k - 1]].priority <= js[q[m + i - 1]].priority
      BY <2>1 DEF Sorted
    <2> QED BY <1>1, <2>2
  <1>3. Sorted(js, u)
    BY <1>2 DEF Sorted
  <1> QED BY <1>3 DEF u

LEMMA PartsLead ==
  ASSUME NEW js, NEW q \in Seq(Jobs), Sorted(js, q),
         NEW m1 \in 1 .. Len(q) + 1, NEW n1 \in 0 .. Len(q),
         NEW m2 \in 1 .. Len(q) + 1, NEW n2 \in 0 .. Len(q), n1 < m2
  PROVE  Leads(js, SubSeq(q, m1, n1), SubSeq(q, m2, n2))
  <1> DEFINE u == SubSeq(q, m1, n1)
             v == SubSeq(q, m2, n2)
  <1>1. /\ u \in Seq(Jobs) /\ Len(u) = IF m1 <= n1 THEN n1 - m1 + 1 ELSE 0
        /\ \A i \in 1 .. Len(u) : u[i] = q[m1 + i - 1]
        /\ v \in Seq(Jobs) /\ Len(v) = IF m2 <= n2 THEN n2 - m2 + 1 ELSE 0
        /\ \A i \in 1 .. Len(v) : v[i] = q[m2 + i - 1]
    BY SubSeqFacts
  <1>2. DOMAIN u = 1 .. Len(u) /\ DOMAIN v = 1 .. Len(v)
    BY <1>1, LenProperties
  <1> HIDE DEF u, v
  <1>3. ASSUME NEW i \in 1 .. Len(u), NEW k \in 1 .. Len(v)
        PROVE  js[v[k]].priority <= js[u[i]].priority
    <2>1. /\ m1 + i - 1 \in 1 .. Len(q) /\ m2 + k - 1 \in 1 .. Len(q)
          /\ m1 + i - 1 < m2 + k - 1
      BY <1>1
    <2>2. js[q[m2 + k - 1]].priority <= js[q[m1 + i - 1]].priority
      BY <2>1 DEF Sorted
    <2> QED BY <1>1, <2>2
  <1>4. Leads(js, u, v)
    BY <1>2, <1>3 DEF Leads, ToSet
  <1> QED BY <1>4 DEF u, v

LEMMA SortedJoin ==
  ASSUME NEW js, NEW q \in Seq(Jobs), NEW r \in Seq(Jobs),
         Sorted(js, q), Sorted(js, r), Leads(js, q, r)
  PROVE  Sorted(js, q \o r)
  <1> DEFINE s == q \o r
  <1>1. /\ Len(s) = Len(q) + Len(r) /\ Len(q) \in Nat /\ Len(r) \in Nat
        /\ DOMAIN q = 1 .. Len(q) /\ DOMAIN r = 1 .. Len(r)
        /\ \A i \in 1 .. Len(s) : s[i] = IF i <= Len(q) THEN q[i] ELSE r[i - Len(q)]
    BY ConcatProperties, LenProperties
  <1> HIDE DEF s
  <1>2. ASSUME NEW i \in 1 .. Len(s), NEW k \in 1 .. Len(s), i < k
        PROVE  js[s[k]].priority <= js[s[i]].priority
    <2>1. CASE k <= Len(q)
      <3>1. i \in 1 .. Len(q) /\ k \in 1 .. Len(q) /\ s[i] = q[i] /\ s[k] = q[k]
        BY <1>1, <1>2, <2>1
      <3> QED BY <1>2, <3>1 DEF Sorted
    <2>2. CASE i <= Len(q) /\ ~ (k <= Len(q))
      <3>1. /\ i \in 1 .. Len(q) /\ k - Len(q) \in 1 .. Len(r)
            /\ s[i] = q[i] /\ s[k] = r[k - Len(q)]
        BY <1>1, <2>2
      <3>2. q[i] \in ToSet(q) /\ r[k - Len(q)] \in ToSet(r)
        BY <1>1, <3>1 DEF ToSet
      <3> QED BY <3>1, <3>2 DEF Leads
    <2>3. CASE ~ (i <= Len(q))
      <3>1. /\ i - Len(q) \in 1 .. Len(r) /\ k - Len(q) \in 1 .. Len(r)
            /\ i - Len(q) < k - Len(q)
            /\ s[i] = r[i - Len(q)] /\ s[k] = r[k - Len(q)]
        BY <1>1, <1>2, <2>3
      <3>2. js[r[k - Len(q)]].priority <= js[r[i - Len(q)]].priority
        BY <3>1 DEF Sorted
      <3> QED BY <3>1, <3>2
    <2> QED BY <1>1, <1>2, <2>1, <2>2, <2>3
  <1>3. Sorted(js, s)
    BY <1>2 DEF Sorted
  <1> QED BY <1>3 DEF s

LEMMA CutSorted ==
  ASSUME NEW js, NEW q \in Seq(Jobs), Sorted(js, q),
         NEW from \in 0 .. Len(q), NEW k \in 0 .. Len(q) - from
  PROVE  Sorted(js, SubSeq(q, 1, from) \o SubSeq(q, from + k + 1, Len(q)))
  <1>1. /\ 1 \in 1 .. Len(q) + 1 /\ from + k + 1 \in 1 .. Len(q) + 1
        /\ Len(q) \in 0 .. Len(q) /\ from < from + k + 1
    BY LenProperties
  <1> DEFINE a == SubSeq(q, 1, from)
             b == SubSeq(q, from + k + 1, Len(q))
  <1>2. a \in Seq(Jobs) /\ b \in Seq(Jobs)
    BY <1>1, SubSeqFacts
  <1>3. Sorted(js, a) /\ Sorted(js, b)
    BY <1>1, SortedParts
  <1>4. Leads(js, a, b)
    BY <1>1, PartsLead
  <1> HIDE DEF a, b
  <1>5. Sorted(js, a \o b)
    BY <1>2, <1>3, <1>4, SortedJoin
  <1> QED BY <1>5 DEF a, b

(* In a sorted backlog the jobs ahead of priority p are the first ones. *)
LEMMA AheadComesFirst ==
  ASSUME TypeOK, Sorted(jobs, backlog), NEW p \in Int, NEW i \in 1 .. Len(backlog)
  PROVE  jobs[backlog[i]].priority >= p <=> i <= Ahead(p)
  <1> DEFINE A == {k \in DOMAIN backlog : jobs[backlog[k]].priority >= p}
  <1>1. /\ Len(backlog) \in Nat /\ DOMAIN backlog = 1 .. Len(backlog)
        /\ \A k \in 1 .. Len(backlog) : jobs[backlog[k]].priority \in Int
    BY LenProperties, ElementOfSeq DEF TypeOK, Job
  <1>2. Ahead(p) = Cardinality(A) /\ A \subseteq 1 .. Len(backlog)
    BY <1>1 DEF Ahead
  <1>3. IsFiniteSet(A) /\ Cardinality(A) \in Nat
    <2>1. IsFiniteSet(1 .. Len(backlog))
      BY <1>1, FS_Interval
    <2> QED BY <1>2, <2>1, FS_Subset, FS_CardinalityType
  <1>4. \A k, l \in 1 .. Len(backlog) : k < l /\ l \in A => k \in A
    BY <1>1 DEF Sorted
  <1>5. i \in A <=> jobs[backlog[i]].priority >= p
    BY <1>1
  <1> HIDE DEF A
  <1>6. ASSUME i \in A PROVE i <= Cardinality(A)
    <2>1. 1 .. i \subseteq A
      BY <1>1, <1>4, <1>6
    <2>2. IsFiniteSet(1 .. i) /\ Cardinality(1 .. i) = i
      BY <1>1, FS_Interval
    <2> QED BY <1>3, <2>1, <2>2, FS_Subset
  <1>7. ASSUME i \notin A PROVE Cardinality(A) < i
    <2>1. A \subseteq 1 .. i - 1
      BY <1>1, <1>2, <1>4, <1>7
    <2>2. IsFiniteSet(1 .. i - 1) /\ Cardinality(1 .. i - 1) = i - 1
      <3>1. i - 1 \in Nat /\ i - 1 \in Int /\ 1 \in Int
        BY <1>1
      <3> DEFINE m == i - 1
      <3>2. m \in Nat /\ m \in Int
        BY <3>1
      <3> HIDE DEF m
      <3>3. IsFiniteSet(1 .. m) /\ Cardinality(1 .. m) = m
        BY <3>1, <3>2, FS_Interval
      <3> QED BY <3>3 DEF m
    <2>3. Cardinality(A) <= i - 1
      BY <2>1, <2>2, FS_Subset
    <2> QED BY <1>1, <1>3, <2>3
  <1> QED BY <1>1, <1>2, <1>3, <1>5, <1>6, <1>7

(* A sorted backlog stays so when jobs of one priority are queued. *)
LEMMA EnqueuedSorted ==
  ASSUME TypeOK, Sorted(jobs, backlog), NEW p \in Int, NEW ids \in Seq(Jobs),
         NEW js \in [Jobs -> Job],
         \A j \in ToSet(backlog) : js[j].priority = jobs[j].priority,
         \A j \in ToSet(ids) : js[j].priority = p
  PROVE  Sorted(js, Enqueued(ids, p))
  <1> DEFINE n == Ahead(p)
             a == SubSeq(backlog, 1, n)
             b == SubSeq(backlog, n + 1, Len(backlog))
  <1>1. /\ backlog \in Seq(Jobs) /\ n \in 0 .. Len(backlog) /\ Len(backlog) \in Nat
        /\ DOMAIN backlog = 1 .. Len(backlog)
    BY AheadType, LenProperties DEF TypeOK
  <1>2. /\ 1 \in 1 .. Len(backlog) + 1 /\ n + 1 \in 1 .. Len(backlog) + 1
        /\ Len(backlog) \in 0 .. Len(backlog) /\ n < n + 1
    BY <1>1
  <1>3. \A i \in 1 .. Len(backlog) :
          /\ backlog[i] \in Jobs /\ js[backlog[i]].priority \in Int
          /\ js[backlog[i]].priority >= p <=> i <= n
    <2>1. ASSUME NEW i \in 1 .. Len(backlog)
          PROVE  /\ backlog[i] \in Jobs /\ js[backlog[i]].priority \in Int
                 /\ js[backlog[i]].priority >= p <=> i <= n
      <3>1. backlog[i] \in Jobs /\ backlog[i] \in ToSet(backlog)
        BY <1>1, ElementOfSeq DEF ToSet
      <3>2. jobs[backlog[i]].priority >= p <=> i <= n
        BY AheadComesFirst
      <3>3. js[backlog[i]] \in Job
        BY <3>1
      <3> QED BY <3>1, <3>2, <3>3 DEF Job
    <2> QED BY <2>1
  <1>4. Sorted(js, backlog)
    <2>1. \A i \in 1 .. Len(backlog) : js[backlog[i]].priority = jobs[backlog[i]].priority
      BY <1>1 DEF ToSet
    <2> QED BY <2>1 DEF Sorted
  <1> HIDE DEF n
  <1>5. /\ a \in Seq(Jobs) /\ Len(a) = n /\ \A i \in 1 .. Len(a) : a[i] = backlog[i]
        /\ b \in Seq(Jobs) /\ Len(b) = Len(backlog) - n
        /\ \A i \in 1 .. Len(b) : b[i] = backlog[n + i]
    <2>1. /\ a \in Seq(Jobs) /\ Len(a) = (IF 1 <= n THEN n - 1 + 1 ELSE 0)
          /\ \A i \in 1 .. Len(a) : a[i] = backlog[1 + i - 1]
      BY <1>1, <1>2, SubSeqFacts
    <2>2. /\ b \in Seq(Jobs)
          /\ Len(b) = IF n + 1 <= Len(backlog) THEN Len(backlog) - (n + 1) + 1 ELSE 0
          /\ \A i \in 1 .. Len(b) : b[i] = backlog[(n + 1) + i - 1]
      BY <1>1, <1>2, SubSeqFacts
    <2> HIDE DEF a, b
    <2>3. n \in Nat /\ \A i \in Nat : (n + 1) + i - 1 = n + i /\ 1 + i - 1 = i
      BY <1>1
    <2>4. 1 .. Len(a) \subseteq Nat /\ 1 .. Len(b) \subseteq Nat
      OBVIOUS
    <2>5. \A i \in 1 .. Len(a) : a[i] = backlog[i]
      BY <2>1, <2>3, <2>4
    <2>6. \A i \in 1 .. Len(b) : b[i] = backlog[n + i]
      BY <2>2, <2>3, <2>4
    <2>7. Len(a) = n
      BY <2>1, <2>3
    <2>8. Len(b) = Len(backlog) - n
      <3>1. n \in Nat /\ Len(backlog) \in Nat /\ n <= Len(backlog)
        BY <1>1
      <3> QED BY <2>2, <3>1
    <2> QED BY <2>1, <2>2, <2>5, <2>6, <2>7, <2>8
  <1>6. Sorted(js, a) /\ Sorted(js, b) /\ Leads(js, a, b)
    BY <1>1, <1>2, <1>4, SortedParts, PartsLead
  <1> HIDE DEF a, b
  <1>7. DOMAIN a = 1 .. Len(a) /\ DOMAIN b = 1 .. Len(b)
    BY <1>5, LenProperties
  <1>8. \A j \in ToSet(a) : js[j].priority \in Int /\ js[j].priority >= p
    BY <1>1, <1>3, <1>5, <1>7 DEF ToSet
  <1>9. \A j \in ToSet(b) : js[j].priority \in Int /\ js[j].priority <= p
    <2>1. ASSUME NEW i \in 1 .. Len(b)
          PROVE  js[b[i]].priority \in Int /\ js[b[i]].priority <= p
      <3>1. n + i \in 1 .. Len(backlog) /\ ~ (n + i <= n) /\ b[i] = backlog[n + i]
        BY <1>1, <1>5
      <3>2. js[backlog[n + i]].priority \in Int /\ ~ (js[backlog[n + i]].priority >= p)
        BY <1>3, <3>1
      <3> QED BY <3>1, <3>2
    <2> QED BY <1>7, <2>1 DEF ToSet
  <1>10. Sorted(js, ids)
    <2>1. \A i \in 1 .. Len(ids) : js[ids[i]].priority = p
      BY LenProperties DEF ToSet
    <2> QED BY <2>1 DEF Sorted
  <1>11. Leads(js, a, ids)
    BY <1>8 DEF Leads
  <1>12. /\ Sorted(js, a \o ids) /\ a \o ids \in Seq(Jobs)
         /\ ToSet(a \o ids) = ToSet(a) \cup ToSet(ids)
    BY <1>5, <1>6, <1>10, <1>11, SortedJoin, ConcatFacts
  <1>13. Leads(js, a \o ids, b)
    BY <1>6, <1>9, <1>12 DEF Leads
  <1>14. Sorted(js, (a \o ids) \o b)
    BY <1>5, <1>6, <1>12, <1>13, SortedJoin
  <1> QED BY <1>14 DEF Enqueued, a, b, n

(* Priorities change only where a job is submitted or revived. *)
LEMMA StartedPriority ==
  ASSUME NEW js \in [Jobs -> Job], NEW j \in Jobs
  PROVE  SamePriority(js, Started(js, j))
  BY DEF SamePriority, Started, Job

LEMMA ProceedPriority ==
  ASSUME IInv, NEW c \in Calls, held[c] # <<>>,
         NEW js \in [Jobs -> Job], SamePriority(jobs, js), Proceed(c, js)
  PROVE  SamePriority(jobs, jobs')
  <1> DEFINE t == Tail(held[c])
  <1>1. held[c] \in Seq(Jobs)
    BY DEF IInv, TypeOK
  <1>2. t \in Seq(Jobs)
    BY <1>1, HeadTailFacts
  <1>3. CASE t # <<>> /\ jobs' = Started(js, Head(t))
    <2>1. Head(t) \in Jobs
      <3> HIDE DEF t
      <3> QED BY <1>2, <1>3, HeadTailFacts
    <2>2. SamePriority(js, Started(js, Head(t)))
      BY <2>1, StartedPriority
    <2> QED BY <1>3, <2>2 DEF SamePriority
  <1> QED BY <1>3 DEF Proceed

LEMMA HandlerSorts ==
  ASSUME IInv, Handler, Sorted(jobs, backlog) PROVE Sorted(jobs', backlog')
  <1>0. /\ jobs \in [Jobs -> Job] /\ \A j \in Jobs : jobs[j] \in Job
        /\ backlog \in Seq(Jobs) /\ ToSet(backlog) \subseteq Jobs /\ TypeOK
    BY LenProperties, ElementOfSeq DEF IInv, TypeOK, ToSet
  <1>1. ASSUME NEW b \in Batches, NEW p \in Priorities, SubmitBatch(b, p)
        PROVE  Sorted(jobs', backlog')
    <2> DEFINE js == [j \in Jobs |-> IF j \in JobsOf(b) THEN NewJob(p) ELSE jobs[j]]
    <2>1. jobs' = js /\ backlog' = Enqueued(Block(b), p) /\ batches[b].status = Unsubmitted
      BY <1>1 DEF SubmitBatch
    <2>2. p \in Int /\ NewJob(p) \in Job /\ NewJob(p).priority = p
      BY QueueConstants DEF NewJob, Job, JobStatus, Backoff
    <2>3. Block(b) \in Seq(Jobs) /\ ToSet(Block(b)) = JobsOf(b) /\ JobsOf(b) \subseteq Jobs
      BY JobFacts
    <2>4. \A j \in JobsOf(b) : j \notin ToSet(backlog)
      BY <2>1, FreshElsewhere
    <2>5. js \in [Jobs -> Job]
      BY <1>0, <2>2
    <2>6. \A j \in ToSet(backlog) : js[j].priority = jobs[j].priority
      BY <1>0, <2>4
    <2>7. \A j \in ToSet(Block(b)) : js[j].priority = p
      BY <2>2, <2>3
    <2> HIDE DEF js
    <2> QED BY <1>0, <2>1, <2>2, <2>3, <2>5, <2>6, <2>7, EnqueuedSorted
  <1>2. ASSUME NEW c \in Calls, NEW n \in 1 .. MaxJobs, NEW p \in Priorities \cup {AnyPriority},
               ProcessJobs(c, n, p)
        PROVE  Sorted(jobs', backlog')
    <2> DEFINE r == Lesser(n, Len(retryQueue))
               from == PickFrom(p)
               k == PickCount(n - r, p)
               taken == SubSeq(retryQueue, 1, r) \o SubSeq(backlog, from + 1, from + k)
               bl == SubSeq(backlog, 1, from) \o SubSeq(backlog, from + k + 1, Len(backlog))
    <2>1. /\ backlog' = bl
          /\ \/ taken # <<>> /\ jobs' = Started(jobs, Head(taken))
             \/ jobs' = jobs
      BY <1>2 DEF ProcessJobs
    <2>2. n \in Nat /\ Len(retryQueue) \in Nat
      BY <1>0, LenProperties, QueueConstants DEF TypeOK
    <2>3. taken \in Seq(Jobs) /\ bl \in Seq(Jobs)
      BY <1>2, <2>2, ProcessTakes
    <2>4. n - r \in Nat
      BY <2>2 DEF Lesser
    <2> HIDE DEF r
    <2>5. from \in 0 .. Len(backlog) /\ k \in 0 .. Len(backlog) - from
      BY <1>0, <2>4, PickType
    <2> HIDE DEF from, k
    <2>6. Sorted(jobs, bl)
      BY <1>0, <2>5, CutSorted
    <2>7. SamePriority(jobs, jobs')
      <3> HIDE DEF taken
      <3>1. CASE taken # <<>> /\ jobs' = Started(jobs, Head(taken))
        BY <1>0, <2>3, <3>1, HeadTailFacts, StartedPriority
      <3> QED BY <2>1, <3>1 DEF SamePriority
    <2> HIDE DEF bl
    <2> QED BY <2>1, <2>3, <2>6, <2>7, SameSorted
  <1>3. ASSUME backlog' = backlog, SamePriority(jobs, jobs') PROVE Sorted(jobs', backlog')
    BY <1>0, <1>3, SameSorted
  <1>4. ASSUME NEW c \in Calls, RunSucceeds(c) PROVE Sorted(jobs', backlog')
    <2> DEFINE js == [jobs EXCEPT ![Head(held[c])].status = "completed"]
    <2>1. /\ held[c] # <<>> /\ Head(held[c]) \in Jobs /\ Proceed(c, js) /\ backlog' = backlog
      BY <1>4, HeadFacts DEF RunSucceeds
    <2>2. js \in [Jobs -> Job] /\ SamePriority(jobs, js)
      BY <1>0, <2>1 DEF SamePriority, Job, JobStatus
    <2> HIDE DEF js
    <2> QED BY <1>3, <2>1, <2>2, ProceedPriority
  <1>5. ASSUME NEW c \in Calls, RunFailsRetry(c) PROVE Sorted(jobs', backlog')
    <2> DEFINE j == Head(held[c])
               x == [jobs[j] EXCEPT !.status = "retrying", !.nextRetryAt = "ahead"]
               js == [jobs EXCEPT ![j].status = "retrying", ![j].nextRetryAt = "ahead"]
    <2>1. /\ held[c] # <<>> /\ j \in Jobs /\ Proceed(c, js) /\ backlog' = backlog
      BY <1>5, HeadFacts DEF RunFailsRetry
    <2>2. js = [jobs EXCEPT ![j] = x]
      BY <1>0, <2>1
    <2>3. x \in Job /\ x.priority = jobs[j].priority
      BY <1>0, <2>1 DEF Job, JobStatus, Backoff
    <2> HIDE DEF js, x
    <2>4. js \in [Jobs -> Job] /\ SamePriority(jobs, js)
      BY <1>0, <2>1, <2>2, <2>3 DEF SamePriority
    <2> QED BY <1>3, <2>1, <2>4, ProceedPriority
  <1>6. ASSUME NEW c \in Calls, RunFailsDead(c) PROVE Sorted(jobs', backlog')
    <2> DEFINE j == Head(held[c])
               js == [jobs EXCEPT ![j].status = "dead_letter"]
    <2>1. /\ held[c] # <<>> /\ j \in Jobs /\ j \notin ToSet(backlog) /\ Proceed(c, js)
          /\ backlog' = RemoveFirst(backlog, j)
      BY <1>6, HeadFacts DEF RunFailsDead
    <2>2. js \in [Jobs -> Job] /\ SamePriority(jobs, js)
      BY <1>0, <2>1 DEF SamePriority, Job, JobStatus
    <2> HIDE DEF js, j
    <2>3. ~ \E i \in 1 .. Len(backlog) : backlog[i] = j
      BY <1>0, <2>1, LenProperties DEF ToSet
    <2>4. backlog' = backlog
      BY <2>1, <2>3 DEF RemoveFirst
    <2> QED BY <1>3, <2>1, <2>2, <2>4, ProceedPriority
  <1>7. ASSUME NEW j \in Jobs, RetryFailed(j) PROVE Sorted(jobs', backlog')
    <2> DEFINE x == [jobs[j] EXCEPT !.status = "pending", !.attempts = 0,
                                    !.nextRetryAt = "none"]
    <2>1. \/ jobs' = jobs
          \/ jobs' = [jobs EXCEPT ![j].status = "pending", ![j].attempts = 0,
                                  ![j].nextRetryAt = "none"]
      BY <1>7 DEF RetryFailed
    <2>2. jobs' = jobs \/ jobs' = [jobs EXCEPT ![j] = x]
      BY <1>0, <2>1
    <2>3. x.priority = jobs[j].priority
      BY <1>0 DEF Job
    <2> HIDE DEF x
    <2>4. SamePriority(jobs, jobs')
      BY <1>0, <2>2, <2>3 DEF SamePriority
    <2>5. backlog' = backlog
      BY <1>7 DEF RetryFailed
    <2> QED BY <1>3, <2>4, <2>5
  <1>8. ASSUME NEW j \in Jobs, NEW reset \in BOOLEAN, NEW p \in Priorities,
               RetryDeadLetter(j, reset, p)
        PROVE  Sorted(jobs', backlog')
    <2>1. /\ jobs[j].status = "dead_letter" /\ backlog' = Enqueued(<<j>>, p) /\ p \in Int
          /\ jobs' \in [Jobs -> Job]
      BY <1>8, RetryDeadLetterKeeps, QueueConstants DEF RetryDeadLetter, Revivable, IInv, TypeOK
    <2>2. jobs'[j].priority = p /\ \A k \in Jobs : k # j => jobs'[k] = jobs[k]
      BY <1>0, <1>8 DEF RetryDeadLetter, Job
    <2>3. j \notin ToSet(backlog)
      BY <2>1 DEF IInv, Consistent, Queues, Waits
    <2>4. <<j>> \in Seq(Jobs) /\ ToSet(<<j>>) = {j}
      BY DEF ToSet
    <2>5. /\ \A k \in ToSet(backlog) : jobs'[k].priority = jobs[k].priority
          /\ \A k \in ToSet(<<j>>) : jobs'[k].priority = p
      BY <1>0, <2>2, <2>3, <2>4
    <2> QED BY <1>0, <2>1, <2>4, <2>5, EnqueuedSorted
  <1> QED BY <1>1, <1>2, <1>4, <1>5, <1>6, <1>7, <1>8 DEF Handler

LEMMA PassedPriority ==
  ASSUME NEW js \in [Jobs -> Job], NEW j \in Jobs
  PROVE  SamePriority(js, Passed(js, j))
  BY DEF SamePriority, Passed, Job

LEMMA SortedInvKept ==
  ASSUME SortedInv, [Next]_vars PROVE SortedInv'
  <1>0. /\ IInv /\ IInv' /\ Sorted(jobs, backlog) /\ Sorted(disk.jobs, disk.backlog)
        /\ disk \in Snapshots /\ disk.jobs \in [Jobs -> Job] /\ disk.backlog \in Seq(Jobs)
        /\ jobs \in [Jobs -> Job] /\ backlog \in Seq(Jobs)
    BY NextKeeps DEF SortedInv, IInv, TypeOK, Snapshots
  <1>b. SUFFICES Sorted(jobs', backlog') /\ Sorted(disk'.jobs, disk'.backlog)
    BY <1>0 DEF SortedInv, Sorted
  <1>1. CASE Handler
    <2>1. Sorted(jobs', backlog')
      BY <1>0, <1>1, HandlerSorts
    <2>2. \/ disk'.jobs = jobs' /\ disk'.backlog = backlog'
          \/ disk' = disk
      BY <1>1, HandlerLives DEF Save
    <2> QED BY <1>0, <2>1, <2>2
  <1>2. CASE \E j \in Jobs : BackoffElapses(j)
    <2>1. PICK j \in Jobs : BackoffElapses(j)
      BY <1>2
    <2>2. /\ jobs' = Passed(jobs, j) /\ backlog' = backlog
          /\ disk'.jobs = Passed(disk.jobs, j) /\ disk'.backlog = disk.backlog
      BY <1>0, <2>1 DEF BackoffElapses, Snapshots
    <2>3. /\ SamePriority(jobs, Passed(jobs, j))
          /\ SamePriority(disk.jobs, Passed(disk.jobs, j))
      BY <1>0, PassedPriority
    <2>4. /\ Sorted(Passed(jobs, j), backlog)
          /\ Sorted(Passed(disk.jobs, j), disk.backlog)
      BY <1>0, <2>3, SameSorted
    <2> QED BY <2>2, <2>4
  <1>3. CASE Crash \/ Restart \/ RestartEmpty \/ UNCHANGED vars
    <2>1. /\ disk' = disk
          /\ \/ jobs' = EmptyState.jobs /\ backlog' = <<>>
             \/ jobs' = disk.jobs /\ backlog' = disk.backlog
             \/ jobs' = jobs /\ backlog' = backlog
      BY <1>3 DEF Crash, Restart, RestartEmpty, Become, EmptyState, vars, memory
    <2>2. Sorted(EmptyState.jobs, <<>>)
      BY DEF Sorted
    <2> QED BY <1>0, <2>1, <2>2
  <1> QED BY <1>1, <1>2, <1>3, StepKinds

(* What a call without a priority takes from a sorted backlog. *)
LEMMA CallPicks ==
  ASSUME SortedInv, NEW c \in Calls, NEW n \in 1 .. MaxJobs, ProcessJobs(c, n, AnyPriority),
         NEW j \in ToSet(held'[c]) \cap ToSet(backlog)
  PROVE  /\ retryQueue' = <<>>
         /\ \A k \in ToSet(backlog') : jobs[k].priority <= jobs[j].priority
  <1> DEFINE r == Lesser(n, Len(retryQueue))
             k == PickCount(n - r, AnyPriority)
             t == SubSeq(retryQueue, 1, r)
             u == SubSeq(backlog, 1, k)
             bl == SubSeq(backlog, k + 1, Len(backlog))
  <1>1. /\ retryQueue \in Seq(Jobs) /\ backlog \in Seq(Jobs) /\ held \in [Calls -> Seq(Jobs)]
        /\ Len(retryQueue) \in Nat /\ Len(backlog) \in Nat /\ n \in Nat /\ TypeOK
        /\ Disjoint(retryQueue, backlog) /\ Sorted(jobs, backlog)
    BY LenProperties, QueueConstants DEF SortedInv, IInv, TypeOK, Consistent, Queues
  <1>2. r \in 0 .. Len(retryQueue) /\ n - r \in Nat /\ (n - r > 0 => r = Len(retryQueue))
    BY <1>1 DEF Lesser
  <1>3. /\ PickFrom(AnyPriority) = 0 /\ k = Lesser(n - r, Len(backlog))
    BY DEF PickFrom, PickCount
  <1>4. k \in 0 .. Len(backlog) /\ (k > 0 => n - r > 0)
    BY <1>1, <1>2, <1>3 DEF Lesser
  <1>5. /\ held' = [held EXCEPT ![c] = t \o SubSeq(backlog, 0 + 1, 0 + k)]
        /\ retryQueue' = SubSeq(retryQueue, r + 1, Len(retryQueue))
        /\ backlog' = SubSeq(backlog, 1, 0) \o SubSeq(backlog, 0 + k + 1, Len(backlog))
    BY <1>3 DEF ProcessJobs
  <1> HIDE DEF r, k
  <1>6. 1 \in 1 .. Len(backlog) + 1 /\ 0 \in 0 .. Len(backlog) /\ k + 1 \in 1 .. Len(backlog) + 1
        /\ Len(backlog) \in 0 .. Len(backlog) /\ k < k + 1
        /\ 1 \in 1 .. Len(retryQueue) + 1 /\ r + 1 \in 1 .. Len(retryQueue) + 1
        /\ Len(retryQueue) \in 0 .. Len(retryQueue)
        /\ 0 + 1 = 1 /\ 0 + k = k /\ 0 + k + 1 = k + 1
    BY <1>1, <1>2, <1>4
  <1>7. /\ t \in Seq(Jobs) /\ ToSet(t) \subseteq ToSet(retryQueue)
        /\ u \in Seq(Jobs) /\ bl \in Seq(Jobs)
        /\ Len(u) = IF 1 <= k THEN k - 1 + 1 ELSE 0
    BY <1>1, <1>2, <1>4, <1>6, SubSeqFacts
  <1>8. Leads(jobs, u, bl)
    BY <1>1, <1>4, <1>6, PartsLead
  <1>9. backlog' = bl
    <2>1. SubSeq(backlog, 1, 0) \o bl = bl
      <3>1. SubSeq(backlog, 1, 0) \in Seq(Jobs) /\ Len(SubSeq(backlog, 1, 0)) = 0
        BY <1>1, <1>6, SubSeqFacts
      <3>2. SubSeq(backlog, 1, 0) = <<>>
        BY <3>1, EmptySeq
      <3> QED BY <1>7, <3>2, ConcatEmptySeq
    <2> QED BY <1>5, <1>6, <2>1
  <1>10. held'[c] = t \o u
    BY <1>1, <1>5, <1>6
  <1> HIDE DEF t, u, bl
  <1>11. j \in ToSet(u)
    <2>1. ToSet(t \o u) = ToSet(t) \cup ToSet(u)
      BY <1>7, ConcatFacts
    <2> QED BY <1>1, <1>7, <1>10, <2>1 DEF Disjoint
  <1>12. retryQueue' = <<>>
    <2>1. Len(u) # 0
      BY <1>11, <1>7, LenProperties DEF ToSet
    <2>2. r = Len(retryQueue)
      BY <1>2, <1>4, <1>7, <2>1
    <2> DEFINE rest == SubSeq(retryQueue, r + 1, Len(retryQueue))
    <2>3. rest \in Seq(Jobs)
          /\ Len(rest) = IF r + 1 <= Len(retryQueue) THEN Len(retryQueue) - (r + 1) + 1 ELSE 0
      BY <1>1, <1>2, <1>6, SubSeqFacts
    <2> HIDE DEF rest
    <2>4. Len(rest) = 0
      BY <1>1, <2>2, <2>3
    <2>5. rest = <<>>
      BY <2>3, <2>4, EmptySeq
    <2> QED BY <1>5, <2>5 DEF rest
  <1>13. \A l \in ToSet(backlog') : jobs[l].priority <= jobs[j].priority
    BY <1>8, <1>9, <1>11 DEF Leads
  <1> QED BY <1>12, <1>13

(* A processJobs call that names no priority takes the retries first, and   *)
(* from the priority queues (getJobsFromPriorityQueues over what            *)
(* addToPriorityQueue built) nothing less urgent than what it leaves.       *)
THEOREM CallsPickTheBest == Spec => PicksBestFirst
  <1>1. Init => SortedInv
    <2> SUFFICES ASSUME Init PROVE SortedInv
      OBVIOUS
    <2>1. IInv
      BY InitInv
    <2>2. backlog = <<>> /\ disk.backlog = <<>>
      BY DEF Init, EmptyState
    <2> QED BY <2>1, <2>2 DEF SortedInv, Sorted
  <1>2. SortedInv /\ [Next]_vars => SortedInv'
    BY SortedInvKept
  <1>3. SortedInv /\ [Next]_vars =>
          [\A c \in Calls, n \in 1 .. MaxJobs : ProcessJobs(c, n, AnyPriority) =>
             \A j \in ToSet(held'[c]) \cap ToSet(backlog) :
               /\ retryQueue' = <<>>
               /\ \A k \in ToSet(backlog') : jobs[k].priority <= jobs[j].priority]_vars
    BY CallPicks
  <1> QED BY <1>1, <1>2, <1>3, PTL DEF Spec, PicksBestFirst

-----------------------------------------------------------------------------
(* The queue implements JobPool *)

(* FateOf without its CASE: what a status, a queue and the claims say.      *)
Fate(j, status, queued, claimed) ==
  IF status = Unsubmitted THEN "none"
  ELSE IF status = "completed" THEN "done"
  ELSE IF status = "dead_letter" THEN "dead"
  ELSE IF j \in claimed THEN "claimed"
  ELSE IF j \in queued THEN "queued" ELSE "lost"

LEMMA FateIs ==
  ASSUME NEW js \in [Jobs -> Job], NEW j \in Jobs, NEW queued, NEW claimed
  PROVE  FateOf(j, js, queued, claimed) = Fate(j, js[j].status, queued, claimed)
  <1>1. js[j].status \in JobStatus
    BY DEF Job
  <1> QED BY <1>1 DEF FateOf, Fate, Unfinished, JobStatus, Unsubmitted

Queued == ToSet(retryQueue) \cup ToSet(backlog)
DiskQueued == ToSet(disk.retryQueue) \cup ToSet(disk.backlog)

(* While the queue holds its jobs in two queues, the pool is one function.  *)
LEMMA PoolIs ==
  ASSUME IInv, up
  PROVE  pool = [j \in Jobs |-> Fate(j, jobs[j].status, Queued, Claimed)]
  <1>0. jobs \in [Jobs -> Job]
    BY DEF IInv, TypeOK
  <1>1. \A j \in Jobs : FateOf(j, jobs, Queued, Claimed) = Fate(j, jobs[j].status, Queued, Claimed)
    BY <1>0, FateIs
  <1>2. pool = [j \in Jobs |-> FateOf(j, jobs, Queued, Claimed)]
    BY DEF pool, Queued
  <1> QED BY <1>1, <1>2

LEMMA SavedIs ==
  ASSUME IInv
  PROVE  saved = [j \in Jobs |-> Fate(j, disk.jobs[j].status, DiskQueued, {})]
  <1>1. disk.jobs \in [Jobs -> Job]
    BY DEF IInv, TypeOK, Snapshots
  <1>2. \A j \in Jobs : FateOf(j, disk.jobs, DiskQueued, {}) = Fate(j, disk.jobs[j].status, DiskQueued, {})
    BY <1>1, FateIs
  <1>3. saved = [j \in Jobs |-> FateOf(j, disk.jobs, DiskQueued, {})]
    BY DEF saved, DiskQueued
  <1> QED BY <1>2, <1>3

(* The same, of the next state. *)
LEMMA PoolBecomes ==
  ASSUME IInv', up'
  PROVE  pool' = [j \in Jobs |-> Fate(j, jobs'[j].status, Queued', Claimed')]
  <1>0. jobs' \in [Jobs -> Job]
    BY DEF IInv, TypeOK
  <1>1. \A j \in Jobs :
          FateOf(j, jobs', Queued', Claimed') = Fate(j, jobs'[j].status, Queued', Claimed')
    BY <1>0, FateIs
  <1>2. pool' = [j \in Jobs |-> FateOf(j, jobs', Queued', Claimed')]
    BY DEF pool, Queued
  <1> QED BY <1>1, <1>2

LEMMA SavedBecomes ==
  ASSUME IInv'
  PROVE  saved' = [j \in Jobs |-> Fate(j, disk'.jobs[j].status, DiskQueued', {})]
  <1>1. disk'.jobs \in [Jobs -> Job]
    BY DEF IInv, TypeOK, Snapshots
  <1>2. \A j \in Jobs :
          FateOf(j, disk'.jobs, DiskQueued', {}) = Fate(j, disk'.jobs[j].status, DiskQueued', {})
    BY <1>1, FateIs
  <1>3. saved' = [j \in Jobs |-> FateOf(j, disk'.jobs, DiskQueued', {})]
    BY DEF saved, DiskQueued
  <1> QED BY <1>2, <1>3

(* A job of a call is in neither queue. *)
LEMMA ClaimedApart ==
  ASSUME IInv
  PROVE  \A j \in Claimed : /\ j \in Jobs /\ j \notin Queued
                            /\ jobs[j].status \in {"processing", "pending", "retrying"}
  BY ListElements DEF Claimed, Queued

LEMMA ClaimedBecomesApart ==
  ASSUME IInv' PROVE \A j \in Claimed' : j \notin Queued'
  <1> SUFFICES ASSUME NEW c \in Calls, NEW j \in ToSet(held'[c])
               PROVE  j \notin ToSet(retryQueue') /\ j \notin ToSet(backlog')
    BY DEF Claimed, Queued
  <1>1. Disjoint(held'[c], retryQueue') /\ Disjoint(held'[c], backlog')
    BY DEF IInv, Consistent, OwnList
  <1> QED BY <1>1 DEF Disjoint

(* What a handler saves is the pool with the claims forgotten. *)
LEMMA SaveIsCheckpoint ==
  ASSUME IInv', up', Save \/ UNCHANGED disk
  PROVE  Pool!Checkpoint \/ (UNCHANGED disk /\ UNCHANGED saved)
  <1>1. CASE UNCHANGED disk
    BY <1>1 DEF saved
  <1>2. CASE ~ UNCHANGED disk
    <2>1. /\ disk'.jobs = jobs' /\ disk'.retryQueue = retryQueue' /\ disk'.backlog = backlog'
      BY <1>2 DEF Save
    <2>2. DiskQueued' = Queued'
      BY <2>1 DEF DiskQueued, Queued
    <2>3. saved' = [j \in Jobs |-> Fate(j, jobs'[j].status, Queued', {})]
      BY <2>1, <2>2, SavedBecomes
    <2>4. \A j \in Jobs : Fate(j, jobs'[j].status, Queued', {})
            = IF Fate(j, jobs'[j].status, Queued', Claimed') = "claimed" THEN "lost"
              ELSE Fate(j, jobs'[j].status, Queued', Claimed')
      BY ClaimedBecomesApart DEF Fate
    <2>5. saved' = [j \in Jobs |-> IF pool'[j] = "claimed" THEN "lost" ELSE pool'[j]]
      BY <2>3, <2>4, PoolBecomes
    <2> QED BY <2>5 DEF Pool!Checkpoint
  <1> QED BY <1>1, <1>2

(* The claims after call c's list became t. *)
LEMMA ClaimedBecomes ==
  ASSUME NEW c \in Calls, NEW t, held \in [Calls -> Seq(Jobs)], held' = [held EXCEPT ![c] = t]
  PROVE  \E others :
           /\ Claimed = ToSet(held[c]) \cup others
           /\ Claimed' = ToSet(t) \cup others
           /\ \A j \in others : \E d \in Calls \ {c} : j \in ToSet(held[d])
  <1> DEFINE others == UNION {ToSet(held[d]) : d \in Calls \ {c}}
  <1>1. Claimed = ToSet(held[c]) \cup others
    BY DEF Claimed
  <1>2. held'[c] = t /\ \A d \in Calls \ {c} : held'[d] = held[d]
    OBVIOUS
  <1>3. Claimed' = ToSet(t) \cup others
    BY <1>2 DEF Claimed
  <1>4. \A j \in others : \E d \in Calls \ {c} : j \in ToSet(held[d])
    OBVIOUS
  <1> HIDE DEF others
  <1> QED BY <1>1, <1>3, <1>4

LEMMA SubmitBatchPool ==
  ASSUME IInv, IInv', NEW b \in Batches, NEW p \in Priorities, SubmitBatch(b, p)
  PROVE  Pool!Submit
  <1>1. /\ up /\ up' /\ Save /\ batches[b].status = Unsubmitted
        /\ jobs' = [j \in Jobs |-> IF j \in JobsOf(b) THEN NewJob(p) ELSE jobs[j]]
        /\ backlog' = Enqueued(Block(b), p) /\ retryQueue' = retryQueue /\ held' = held
    BY DEF SubmitBatch
  <1>2. Claimed' = Claimed
    BY <1>1 DEF Claimed
  <1>3. Queued' = Queued \cup JobsOf(b)
    <2>1. /\ Block(b) \in Seq(Jobs) /\ ToSet(Block(b)) = JobsOf(b) /\ p \in Int
      BY JobFacts, QueueConstants
    <2>2. ToSet(backlog') = ToSet(backlog) \cup JobsOf(b)
      BY <1>1, <2>1, EnqueuedFacts DEF IInv
    <2> QED BY <1>1, <2>2 DEF Queued
  <1>4. \A j \in JobsOf(b) : /\ j \in Jobs /\ jobs[j].status = Unsubmitted
                             /\ j \notin Claimed /\ jobs'[j].status = "pending"
    BY <1>1, FreshElsewhere DEF Claimed, NewJob
  <1>5. \A j \in JobsOf(b) : pool[j] = "none" /\ pool'[j] = "queued"
    BY <1>1, <1>2, <1>3, <1>4, PoolIs, PoolBecomes DEF Fate, Unsubmitted
  <1>6. \A j \in Jobs \ JobsOf(b) : pool'[j] = pool[j]
    <2>1. \A j \in Jobs \ JobsOf(b) : jobs'[j] = jobs[j] /\ (j \in Queued' <=> j \in Queued)
      BY <1>1, <1>3
    <2> QED BY <1>1, <1>2, <2>1, PoolIs, PoolBecomes DEF Fate
  <1>7. pool' = [j \in Jobs |-> pool'[j]]
    BY <1>1, PoolBecomes
  <1>8. Pool!Move(JobsOf(b), {"none"}, [j \in JobsOf(b) |-> "queued"])
    BY <1>5, <1>6, <1>7 DEF Pool!Move
  <1>9. JobsOf(b) \in SUBSET Jobs
    BY JobFacts
  <1> QED BY <1>1, <1>8, <1>9, SaveIsCheckpoint DEF Pool!Submit, Pool!MaybeCheckpoint

LEMMA ProcessJobsPool ==
  ASSUME IInv, IInv', NEW c \in Calls, NEW n \in Nat, NEW p \in Priorities \cup {AnyPriority},
         ProcessJobs(c, n, p)
  PROVE  Pool!Claim
  <1> DEFINE r == Lesser(n, Len(retryQueue))
             from == PickFrom(p)
             k == PickCount(n - r, p)
             taken == SubSeq(retryQueue, 1, r) \o SubSeq(backlog, from + 1, from + k)
             rq == SubSeq(retryQueue, r + 1, Len(retryQueue))
             bl == SubSeq(backlog, 1, from) \o SubSeq(backlog, from + k + 1, Len(backlog))
  <1>1. /\ up /\ up' /\ held[c] = <<>> /\ retryQueue' = rq /\ backlog' = bl
        /\ held' = [held EXCEPT ![c] = taken]
        /\ \/ taken # <<>> /\ jobs' = Started(jobs, Head(taken)) /\ UNCHANGED disk
           \/ taken = <<>> /\ UNCHANGED jobs /\ Save
    BY DEF ProcessJobs
  <1>2. /\ taken \in Seq(Jobs) /\ Disjoint(taken, rq) /\ Disjoint(taken, bl)
        /\ \A j \in ToSet(taken) : jobs[j].status \in {"pending", "retrying"}
        /\ ToSet(taken) \cup ToSet(rq) \cup ToSet(bl) = ToSet(retryQueue) \cup ToSet(backlog)
        /\ \A d \in Calls : Disjoint(taken, held[d])
    BY ProcessTakes
  <1> HIDE DEF taken, rq, bl
  <1>3. /\ held \in [Calls -> Seq(Jobs)] /\ jobs \in [Jobs -> Job] /\ ToSet(taken) \subseteq Jobs
        /\ ToSet(held[c]) = {}
    <2>1. held \in [Calls -> Seq(Jobs)] /\ jobs \in [Jobs -> Job]
      BY DEF IInv, TypeOK
    <2>2. ToSet(taken) \subseteq Jobs
      BY <1>2, LenProperties, ElementOfSeq DEF ToSet
    <2>3. ToSet(held[c]) = {}
      BY <1>1, LenProperties DEF ToSet
    <2> QED BY <2>1, <2>2, <2>3
  <1>4. Claimed' = Claimed \cup ToSet(taken) /\ \A j \in ToSet(taken) : j \notin Claimed
    <2>1. Claimed' = Claimed \cup ToSet(taken)
      <3>1. held' = [held EXCEPT ![c] = taken]
        BY <1>1
      <3>2. PICK others : Claimed = ToSet(held[c]) \cup others /\ Claimed' = ToSet(taken) \cup others
        BY <1>3, <3>1, ClaimedBecomes
      <3> QED BY <1>3, <3>2
    <2> QED BY <1>2, <2>1 DEF Claimed, Disjoint
  <1>5. Queued = Queued' \cup ToSet(taken) /\ \A j \in ToSet(taken) : j \notin Queued'
    BY <1>1, <1>2 DEF Queued, Disjoint
  <1>6. \A j \in Jobs : \/ jobs'[j].status = jobs[j].status
                        \/ j \in ToSet(taken) /\ jobs'[j].status = "processing"
    <2>1. CASE taken # <<>> /\ jobs' = Started(jobs, Head(taken))
      <3>1. Head(taken) \in ToSet(taken) /\ Head(taken) \in Jobs
        BY <1>2, <2>1, HeadTailFacts
      <3>2. /\ Started(jobs, Head(taken))[Head(taken)].status = "processing"
            /\ \A j \in Jobs : j # Head(taken) => Started(jobs, Head(taken))[j] = jobs[j]
        BY <1>3, <3>1, StartedFacts
      <3> QED BY <2>1, <3>1, <3>2
    <2> QED BY <1>1, <2>1
  <1>7. \A j \in ToSet(taken) : pool[j] = "queued" /\ pool'[j] = "claimed"
    BY <1>1, <1>2, <1>3, <1>4, <1>5, <1>6, PoolIs, PoolBecomes DEF Fate, Unsubmitted
  <1>8. \A j \in Jobs \ ToSet(taken) : pool'[j] = pool[j]
    <2>1. \A j \in Jobs \ ToSet(taken) :
            /\ jobs'[j].status = jobs[j].status
            /\ (j \in Queued' <=> j \in Queued) /\ (j \in Claimed' <=> j \in Claimed)
      BY <1>4, <1>5, <1>6
    <2> QED BY <1>1, <2>1, PoolIs, PoolBecomes DEF Fate
  <1>9. pool' = [j \in Jobs |-> pool'[j]]
    BY <1>1, PoolBecomes
  <1>10. Pool!Move(ToSet(taken), {"queued"}, [j \in ToSet(taken) |-> "claimed"])
    BY <1>3, <1>7, <1>8, <1>9 DEF Pool!Move
  <1> QED BY <1>1, <1>3, <1>10, SaveIsCheckpoint DEF Pool!Claim, Pool!MaybeCheckpoint

(* A call settles its head job: js is the jobs map by then, and the queues  *)
(* list what they listed, and that job if it is to run again.               *)
LEMMA ProceedPool ==
  ASSUME IInv, IInv', up, up', NEW c \in Calls, held[c] # <<>>,
         NEW j \in Jobs, j = Head(held[c]),
         NEW js \in [Jobs -> Job], \A k \in Jobs : k # j => js[k] = jobs[k],
         Proceed(c, js),
         \/ js[j].status \in {"completed", "dead_letter"} /\ Queued' = Queued
         \/ js[j].status = "retrying" /\ Queued' = Queued \cup {j}
  PROVE  Pool!Finish
  <1> DEFINE t == Tail(held[c])
  <1>1. /\ held \in [Calls -> Seq(Jobs)] /\ jobs \in [Jobs -> Job] /\ held[c] \in Seq(Jobs)
        /\ OwnList(held[c], jobs, retryQueue, backlog) /\ jobs[j].status = "processing"
    BY HeadFacts DEF IInv, TypeOK, Consistent
  <1>2. /\ t \in Seq(Jobs) /\ ToSet(held[c]) = {j} \cup ToSet(t) /\ j \notin ToSet(t)
        /\ \A k \in ToSet(t) : jobs[k].status \in {"pending", "retrying"}
    BY <1>1, HeadTailFacts DEF OwnList
  <1>3. PICK others : /\ Claimed = ToSet(held[c]) \cup others
                      /\ Claimed' = ToSet(t) \cup others
                      /\ \A k \in others : \E d \in Calls \ {c} : k \in ToSet(held[d])
    <2>1. held' = [held EXCEPT ![c] = t]
      BY DEF Proceed
    <2> HIDE DEF t
    <2> QED BY <1>1, <2>1, ClaimedBecomes
  <1>4. /\ Claimed = Claimed' \cup {j} /\ j \notin Claimed' /\ ToSet(t) \subseteq Claimed'
    <2>1. j \notin others
      BY <1>2, <1>3 DEF IInv, Consistent, Disjoint
    <2> QED BY <1>2, <1>3, <2>1
  <1>5. /\ jobs'[j].status = js[j].status
        /\ \A k \in Jobs : k # j => \/ jobs'[k].status = jobs[k].status
                                    \/ /\ k \in ToSet(t) /\ jobs'[k].status = "processing"
    <2>1. CASE t # <<>> /\ jobs' = Started(js, Head(t))
      <3>1. Head(t) \in ToSet(t) /\ Head(t) \in Jobs /\ Head(t) # j
        <4> HIDE DEF t
        <4> QED BY <1>2, <2>1, HeadTailFacts
      <3>2. /\ Started(js, Head(t))[Head(t)].status = "processing"
            /\ \A k \in Jobs : k # Head(t) => Started(js, Head(t))[k] = js[k]
        BY <3>1, StartedFacts
      <3> QED BY <2>1, <3>1, <3>2
    <2> QED BY <2>1 DEF Proceed
  <1>6. pool[j] = "claimed"
    BY <1>1, <1>4, PoolIs DEF Fate, Unsubmitted
  <1>7. pool'[j] \in {"done", "queued", "dead"}
    BY <1>4, <1>5, PoolBecomes DEF Fate, Unsubmitted
  <1>8. \A k \in Jobs \ {j} : pool'[k] = pool[k]
    <2>1. \A k \in Jobs \ {j} : /\ k \in Queued' <=> k \in Queued
                                /\ k \in Claimed' <=> k \in Claimed
                                /\ \/ jobs'[k].status = jobs[k].status
                                   \/ /\ k \in Claimed' /\ jobs'[k].status = "processing"
                                      /\ jobs[k].status \in {"pending", "retrying"}
      BY <1>2, <1>4, <1>5
    <2> QED BY <2>1, PoolIs, PoolBecomes DEF Fate, Unsubmitted
  <1>9. pool' = [k \in Jobs |-> pool'[k]]
    BY PoolBecomes
  <1>10. Pool!Move({j}, {"claimed"}, [k \in {j} |-> pool'[j]])
    BY <1>6, <1>8, <1>9 DEF Pool!Move
  <1>11. Save \/ UNCHANGED disk
    BY DEF Proceed
  <1> QED BY <1>7, <1>10, <1>11, SaveIsCheckpoint DEF Pool!Finish, Pool!MaybeCheckpoint

LEMMA RunSucceedsPool ==
  ASSUME IInv, IInv', NEW c \in Calls, RunSucceeds(c) PROVE Pool!Finish
  <1> DEFINE j == Head(held[c])
             js == [jobs EXCEPT ![j].status = "completed"]
  <1>1. /\ up /\ up' /\ held[c] # <<>> /\ Proceed(c, js)
        /\ retryQueue' = retryQueue /\ backlog' = backlog
    BY DEF RunSucceeds
  <1>2. j \in Jobs /\ jobs \in [Jobs -> Job]
    BY <1>1, HeadFacts DEF IInv, TypeOK
  <1>3. /\ js \in [Jobs -> Job] /\ js[j].status = "completed"
        /\ \A k \in Jobs : k # j => js[k] = jobs[k]
    BY <1>2 DEF Job, JobStatus
  <1>4. Queued' = Queued
    BY <1>1 DEF Queued
  <1> HIDE DEF js
  <1> QED BY <1>1, <1>2, <1>3, <1>4, ProceedPool

LEMMA RunFailsRetryPool ==
  ASSUME IInv, IInv', NEW c \in Calls, RunFailsRetry(c) PROVE Pool!Finish
  <1> DEFINE j == Head(held[c])
             js == [jobs EXCEPT ![j].status = "retrying", ![j].nextRetryAt = "ahead"]
  <1>1. /\ up /\ up' /\ held[c] # <<>> /\ Proceed(c, js)
        /\ retryQueue' = Append(retryQueue, j) /\ backlog' = backlog
    BY DEF RunFailsRetry
  <1>2. j \in Jobs /\ jobs \in [Jobs -> Job] /\ retryQueue \in Seq(Jobs)
    BY <1>1, HeadFacts DEF IInv, TypeOK
  <1>3. /\ js \in [Jobs -> Job] /\ js[j].status = "retrying"
        /\ \A k \in Jobs : k # j => js[k] = jobs[k]
    <2>1. js = [jobs EXCEPT ![j] =
                 [jobs[j] EXCEPT !.status = "retrying", !.nextRetryAt = "ahead"]]
      BY <1>2
    <2>2. /\ [jobs[j] EXCEPT !.status = "retrying", !.nextRetryAt = "ahead"] \in Job
          /\ [jobs[j] EXCEPT !.status = "retrying", !.nextRetryAt = "ahead"].status = "retrying"
      BY <1>2 DEF Job, JobStatus, Backoff
    <2> HIDE DEF js
    <2> QED BY <1>2, <2>1, <2>2
  <1>4. Queued' = Queued \cup {j}
    <2>1. ToSet(retryQueue') = ToSet(retryQueue) \cup {j}
      BY <1>1, <1>2, AppendFacts
    <2> QED BY <1>1, <2>1 DEF Queued
  <1> HIDE DEF js
  <1> QED BY <1>1, <1>2, <1>3, <1>4, ProceedPool

LEMMA RunFailsDeadPool ==
  ASSUME IInv, IInv', NEW c \in Calls, RunFailsDead(c) PROVE Pool!Finish
  <1> DEFINE j == Head(held[c])
             js == [jobs EXCEPT ![j].status = "dead_letter"]
  <1>1. /\ up /\ up' /\ held[c] # <<>> /\ Proceed(c, js)
        /\ retryQueue' = RemoveFirst(retryQueue, j) /\ backlog' = RemoveFirst(backlog, j)
    BY DEF RunFailsDead
  <1>2. /\ j \in Jobs /\ jobs \in [Jobs -> Job]
        /\ j \notin ToSet(retryQueue) /\ j \notin ToSet(backlog)
    BY <1>1, HeadFacts DEF IInv, TypeOK
  <1>3. /\ js \in [Jobs -> Job] /\ js[j].status = "dead_letter"
        /\ \A k \in Jobs : k # j => js[k] = jobs[k]
    BY <1>2 DEF Job, JobStatus
  <1>4. Queued' = Queued
    <2>1. /\ retryQueue \in Seq(Jobs) /\ backlog \in Seq(Jobs)
          /\ IsInjective(retryQueue) /\ IsInjective(backlog)
      BY DEF IInv, TypeOK, Consistent, Queues
    <2>2. ToSet(retryQueue') = ToSet(retryQueue) \ {j} /\ ToSet(backlog') = ToSet(backlog) \ {j}
      BY <1>1, <2>1, RemoveFirstFacts
    <2> QED BY <1>2, <2>2 DEF Queued
  <1> HIDE DEF js
  <1> QED BY <1>1, <1>2, <1>3, <1>4, ProceedPool

LEMMA RetryFailedPool ==
  ASSUME IInv, IInv', NEW j \in Jobs, RetryFailed(j)
  PROVE  UNCHANGED pool /\ (Save \/ UNCHANGED disk) /\ up'
  <1>1. /\ up /\ up' /\ Save /\ held' = held
        /\ retryQueue' = retryQueue /\ backlog' = backlog
    BY DEF RetryFailed
  <1>2. Queued' = Queued /\ Claimed' = Claimed
    BY <1>1 DEF Queued, Claimed
  <1>3. jobs \in [Jobs -> Job] /\ jobs[j] \in Job
    BY DEF IInv, TypeOK
  <1>4. \A k \in Jobs : \/ jobs'[k].status = jobs[k].status
                        \/ jobs[k].status = "retrying" /\ jobs'[k].status = "pending"
    BY <1>3 DEF RetryFailed, Retryable, Job
  <1>5. \A k \in Jobs : Fate(k, jobs'[k].status, Queued', Claimed')
                          = Fate(k, jobs[k].status, Queued, Claimed)
    BY <1>2, <1>4 DEF Fate, Unsubmitted
  <1> QED BY <1>1, <1>5, PoolIs, PoolBecomes

LEMMA RetryDeadLetterPool ==
  ASSUME IInv, IInv', NEW j \in Jobs, NEW reset \in BOOLEAN, NEW p \in Priorities,
         RetryDeadLetter(j, reset, p)
  PROVE  Pool!Revive
  <1>1. /\ up /\ up' /\ Save /\ held' = held /\ jobs[j].status = "dead_letter"
        /\ retryQueue' = retryQueue /\ backlog' = Enqueued(<<j>>, p)
    BY DEF RetryDeadLetter, Revivable
  <1>2. jobs \in [Jobs -> Job] /\ jobs[j] \in Job /\ p \in Int
    BY QueueConstants DEF IInv, TypeOK
  <1>3. /\ jobs'[j].status = "pending"
        /\ \A k \in Jobs : k # j => jobs'[k] = jobs[k]
    BY <1>2 DEF RetryDeadLetter, Job
  <1>4. Queued' = Queued \cup {j} /\ Claimed' = Claimed
    <2>1. <<j>> \in Seq(Jobs) /\ ToSet(<<j>>) = {j}
      BY DEF ToSet
    <2>2. ToSet(backlog') = ToSet(backlog) \cup {j}
      BY <1>1, <1>2, <2>1, EnqueuedFacts DEF IInv
    <2> QED BY <1>1, <2>2 DEF Queued, Claimed
  <1>5. j \notin Claimed
    BY <1>1, ClaimedApart
  <1>6. pool[j] = "dead" /\ pool'[j] = "queued"
    BY <1>1, <1>3, <1>4, <1>5, PoolIs, PoolBecomes DEF Fate, Unsubmitted
  <1>7. \A k \in Jobs \ {j} : pool'[k] = pool[k]
    BY <1>1, <1>3, <1>4, PoolIs, PoolBecomes DEF Fate
  <1>8. pool' = [k \in Jobs |-> pool'[k]]
    BY <1>1, PoolBecomes
  <1>9. Pool!Move({j}, {"dead"}, [k \in {j} |-> "queued"])
    BY <1>6, <1>7, <1>8 DEF Pool!Move
  <1> QED BY <1>1, <1>9, SaveIsCheckpoint DEF Pool!Revive, Pool!MaybeCheckpoint

LEMMA BackoffElapsesPool ==
  ASSUME IInv, IInv', NEW j \in Jobs, BackoffElapses(j)
  PROVE  UNCHANGED <<pool, saved>>
  <1>1. /\ up /\ up' /\ held' = held /\ retryQueue' = retryQueue /\ backlog' = backlog
        /\ jobs' = Passed(jobs, j) /\ disk' = [disk EXCEPT !.jobs = Passed(@, j)]
    BY DEF BackoffElapses
  <1>2. /\ jobs \in [Jobs -> Job] /\ disk \in Snapshots /\ disk.jobs \in [Jobs -> Job]
    BY DEF IInv, TypeOK, Snapshots
  <1>3. /\ disk'.jobs = Passed(disk.jobs, j)
        /\ disk'.retryQueue = disk.retryQueue /\ disk'.backlog = disk.backlog
    BY <1>1, <1>2 DEF Snapshots
  <1>4. /\ Queued' = Queued /\ Claimed' = Claimed /\ DiskQueued' = DiskQueued
    BY <1>1, <1>3 DEF Queued, Claimed, DiskQueued
  <1>5. \A k \in Jobs : /\ jobs'[k].status = jobs[k].status
                        /\ disk'.jobs[k].status = disk.jobs[k].status
    <2>1. /\ \A k \in Jobs : Passed(jobs, j)[k].status = jobs[k].status
          /\ \A k \in Jobs : Passed(disk.jobs, j)[k].status = disk.jobs[k].status
      BY <1>2, PassedFacts
    <2> QED BY <1>1, <1>3, <2>1
  <1> QED BY <1>1, <1>4, <1>5, PoolIs, PoolBecomes, SavedIs, SavedBecomes

-----------------------------------------------------------------------------
(* An object that is down holds nothing: what RestartEmpty then serves from. *)
DownIsEmpty ==
  ~up => /\ jobs = EmptyState.jobs /\ retryQueue = <<>> /\ backlog = <<>>

LEMMA DownIsEmptyKept ==
  ASSUME DownIsEmpty, [Next]_vars PROVE DownIsEmpty'
  <1>1. CASE Handler
    BY <1>1, HandlerLives DEF DownIsEmpty
  <1>2. CASE \E j \in Jobs : BackoffElapses(j)
    BY <1>2 DEF BackoffElapses, DownIsEmpty
  <1>3. CASE Crash
    BY <1>3 DEF Crash, Become, EmptyState, DownIsEmpty
  <1>4. CASE Restart \/ RestartEmpty
    BY <1>4 DEF Restart, RestartEmpty, DownIsEmpty
  <1>5. CASE UNCHANGED vars
    BY <1>5 DEF vars, memory, DownIsEmpty
  <1> QED BY <1>1, <1>2, <1>3, <1>4, <1>5, StepKinds

(* A crash and a restart leave the pool as it was saved, or forget it.      *)
LEMMA LifePool ==
  ASSUME IInv, IInv', DownIsEmpty, Crash \/ Restart \/ RestartEmpty
  PROVE  Pool!Recover \/ Pool!Forget
  <1>1. disk' = disk /\ saved' = saved
    BY DEF Crash, Restart, RestartEmpty, saved
  <1>2. CASE Crash
    <2>1. ~up' /\ pool' = saved'
      BY <1>2 DEF Crash, pool
    <2> QED BY <1>1, <2>1 DEF Pool!Recover
  <1>3. CASE Restart
    <2>1. /\ up' /\ jobs' = disk.jobs /\ retryQueue' = disk.retryQueue
          /\ backlog' = disk.backlog /\ held' = [c \in Calls |-> <<>>]
      BY <1>3 DEF Restart, Become, IInv
    <2>2. Queued' = DiskQueued /\ Claimed' = {}
      <3>1. \A c \in Calls : ToSet(held'[c]) = {}
        BY <2>1 DEF ToSet
      <3> QED BY <2>1, <3>1 DEF Queued, DiskQueued, Claimed
    <2>3. pool' = saved
      BY <2>1, <2>2, PoolBecomes, SavedIs
    <2> QED BY <1>1, <2>3 DEF Pool!Recover
  <1>4. CASE RestartEmpty
    <2>1. /\ up' /\ jobs' = EmptyState.jobs
      BY <1>4 DEF RestartEmpty, memory, DownIsEmpty
    <2>2. \A j \in Jobs : jobs'[j].status = Unsubmitted
      BY <2>1 DEF EmptyState, NoJob
    <2>3. pool' = [j \in Jobs |-> "none"]
      BY <2>1, <2>2, PoolBecomes DEF Fate
    <2> QED BY <1>1, <2>3 DEF Pool!Forget
  <1> QED BY <1>2, <1>3, <1>4

LEMMA StepPool ==
  ASSUME IInv, IInv', DownIsEmpty, [Next]_vars
  PROVE  [Pool!PoolNext]_(Pool!poolVars)
  <1>1. ASSUME NEW b \in Batches, NEW p \in Priorities, SubmitBatch(b, p) PROVE Pool!Submit
    BY <1>1, SubmitBatchPool
  <1>2. ASSUME NEW c \in Calls, NEW n \in 1 .. MaxJobs, NEW p \in Priorities \cup {AnyPriority},
               ProcessJobs(c, n, p)
        PROVE  Pool!Claim
    <2>1. n \in Nat
      BY QueueConstants
    <2> QED BY <1>2, <2>1, ProcessJobsPool
  <1>3. ASSUME NEW c \in Calls, RunSucceeds(c) \/ RunFailsRetry(c) \/ RunFailsDead(c)
        PROVE  Pool!Finish
    BY <1>3, RunSucceedsPool, RunFailsRetryPool, RunFailsDeadPool
  <1>4. ASSUME NEW j \in Jobs, RetryFailed(j)
        PROVE  Pool!SaveOnly \/ UNCHANGED <<pool, saved>>
    <2>1. pool' = pool /\ (Save \/ UNCHANGED disk) /\ up'
      BY <1>4, RetryFailedPool
    <2>2. Pool!Checkpoint \/ saved' = saved
      BY <2>1, SaveIsCheckpoint
    <2> QED BY <2>1, <2>2 DEF Pool!SaveOnly
  <1>5. ASSUME NEW j \in Jobs, NEW reset \in BOOLEAN, NEW p \in Priorities,
               RetryDeadLetter(j, reset, p)
        PROVE  Pool!Revive
    BY <1>5, RetryDeadLetterPool
  <1>6. ASSUME NEW j \in Jobs, BackoffElapses(j) PROVE UNCHANGED <<pool, saved>>
    BY <1>6, BackoffElapsesPool
  <1>7. ASSUME Crash \/ Restart \/ RestartEmpty PROVE Pool!Recover \/ Pool!Forget
    BY <1>7, LifePool
  <1>8. ASSUME UNCHANGED vars PROVE UNCHANGED <<pool, saved>>
    <2>1. /\ jobs' = jobs /\ retryQueue' = retryQueue /\ backlog' = backlog
          /\ held' = held /\ disk' = disk /\ up' = up
      BY <1>8 DEF vars, memory
    <2>2. saved' = saved /\ Claimed' = Claimed
      BY <2>1 DEF saved, Claimed
    <2> QED BY <2>1, <2>2 DEF pool
  <1> QED BY <1>1, <1>2, <1>3, <1>4, <1>5, <1>6, <1>7, <1>8
          DEF Next, Posted, Pool!PoolNext, Pool!poolVars

(* The queue is a JobPool: a job is claimed by one call at a time and leaves *)
(* it only done, queued again or dead; a save checkpoints every fate but a   *)
(* claim, and a restart recovers just that checkpoint (processJobs, save,    *)
(* load, retryFailed, retryDeadLetter).                                      *)
THEOREM QueueImplementsJobPool == Spec => ImplementsJobPool
  <1>1. Init => Pool!PoolInit /\ DownIsEmpty
    <2> SUFFICES ASSUME Init PROVE Pool!PoolInit /\ DownIsEmpty
      OBVIOUS
    <2>1. /\ IInv /\ up /\ jobs = EmptyState.jobs /\ disk = EmptyState
      BY InitInv DEF Init
    <2>2. \A j \in Jobs : EmptyState.jobs[j].status = Unsubmitted
      BY DEF EmptyState, NoJob
    <2>3. pool = [j \in Jobs |-> "none"] /\ saved = [j \in Jobs |-> "none"]
      BY <2>1, <2>2, PoolIs, SavedIs DEF Fate
    <2> QED BY <2>1, <2>3 DEF Pool!PoolInit, DownIsEmpty
  <1>2. IInv /\ IInv' /\ DownIsEmpty /\ [Next]_vars
          => [Pool!PoolNext]_(Pool!poolVars) /\ DownIsEmpty'
    BY StepPool, DownIsEmptyKept
  <1> QED BY <1>1, <1>2, Consistency, PTL DEF Spec, ImplementsJobPool, Pool!PoolSpec
=============================================================================
