------------------------------ MODULE NarDelta ------------------------------
(* The change of some partitions of a province to a release: staging the    *)
(* release (nar-stage.ts), planning the changes and the aggregates they     *)
(* touch (nar-delta.ts, plan-nar-fsa.ts), and rehearsing the plan in        *)
(* batches, with a journal, receipts and a lock (nar-rehearsal.ts).         *)
(*                                                                          *)
(* Nothing executes a plan in production.  Here an operator rehearses one   *)
(* that is blocked by nothing else: a batch for each change, and one for    *)
(* each aggregate.  A row is all that its fingerprint covers, an aggregate  *)
(* the rows it is computed from; of the costs, one for a receipt and one    *)
(* for a batch.  Not here: the parsing and checksums of the parts, and the  *)
(* estimates, which no step reads.                                          *)
EXTENDS Integers, Sequences, FiniteSets, SequencesExt

CONSTANTS
  Guids, Rows,
  PartOf,         \* the FSA of a row's postal code, or NO_POSTAL
  GroupsOf,       \* the keys of the aggregates a row counts in
  Baseline, Releases,
  Claims,         \* the cities, of those keys, said to be complete already
  WritesCeiling, ReadsCeiling, MaxTries,
  MaxPlans, MaxFaults,
  Gone, NoPlan, NoFile

Partitions == {PartOf[r] : r \in Rows}
Aggregates == UNION {GroupsOf[r] : r \in Rows}

(* The file of a rehearsal: the batches done, the tries of the next one,    *)
(* what is reserved, and whether it may go on.                              *)
Checkpoints == [done : Nat, tries : Nat, reads : Nat, writes : Nat,
                blocked : BOOLEAN, complete : BOOLEAN]

ASSUME DeltaConstants ==
  /\ Gone \notin Rows /\ IsFiniteSet(Guids) /\ IsFiniteSet(Aggregates)
  /\ NoFile \notin Checkpoints
  /\ Releases \subseteq [Guids -> Rows \cup {Gone}] /\ Baseline \in [Guids -> Rows \cup {Gone}]
  /\ WritesCeiling \in Nat /\ ReadsCeiling \in Nat /\ MaxTries \in Nat \ {0}

VARIABLES
  table,     \* the province's rows, by identity
  sums,      \* the aggregates
  plan,      \* the plan being rehearsed, or NoPlan
  file,      \* the checkpoint, or NoFile
  writer,    \* "none", or what the writer that holds the lock is at
  applied,   \* auxiliary: how often each batch took effect
  sent,      \* auxiliary: the requests sent
  plans, faults

deltaVars == <<table, sums, plan, file, writer, applied, sent, plans, faults>>

Groups(row) == IF row = Gone THEN {} ELSE GroupsOf[row]
Within(row, parts) == row # Gone /\ PartOf[row] \in parts

-----------------------------------------------------------------------------
(* Planning *)

(* stageManifest: a row that cannot be normalized is left out, and counted; *)
(* what a manifest does not list is not missed, and no reviewer would vouch *)
(* for that manifest.                                                       *)
Staged(release, rejected, lost, vouched) ==
  [rows |-> [g \in Guids |-> IF g \in rejected \cup lost THEN Gone ELSE release[g]],
   rejected |-> rejected, vouched |-> vouched]

Indeterminate(source) == ~source.vouched \/ source.rejected # {}

(* A change belongs to the partition the row is in, an addition to the one  *)
(* it comes to.                                                             *)
Changes(source, parts) ==
  {[guid |-> g, before |-> table[g], after |-> source.rows[g]] :
     g \in {h \in Guids : /\ table[h] # source.rows[h]
                          /\ Within(IF table[h] = Gone THEN source.rows[h] ELSE table[h], parts)}}

(* A row comes from a partition that was not selected. *)
ComesFromOutside(source, parts) ==
  \E g \in Guids : /\ Within(source.rows[g], parts)
                   /\ table[g] # Gone /\ ~Within(table[g], parts)

CountIn(content, p) == Cardinality({g \in Guids : Within(content[g], {p})})

Shrinks(source, parts) ==
  \E p \in parts : 2 * CountIn(source.rows, p) < CountIn(table, p)

ClaimedAlready(source, parts) ==
  \E g \in Guids : \E row \in {table[g], source.rows[g]} :
    Within(row, parts) /\ Groups(row) \cap Claims # {}

(* MUTANT of Recomputed: the groups a row leaves are forgotten. *)
RecomputedByNew(changes) == UNION {Groups(c.after) : c \in changes}

(* The groups of the rows as they were, and as they will be. *)
Recomputed(changes) == UNION {Groups(c.before) \cup Groups(c.after) : c \in changes}

(* What an aggregate is computed from; nothing, and it is deleted. *)
Summary(content, key) ==
  {<<g, content[g]>> : g \in {h \in Guids : key \in Groups(content[h])}}

Resulting(changes) ==
  [g \in Guids |-> IF \E c \in changes : c.guid = g
                   THEN (CHOOSE c \in changes : c.guid = g).after ELSE table[g]]

(* The changes first, then what is derived from them. *)
BatchesOf(changes) ==
  LET sum(key) == [key |-> key, value |-> Summary(Resulting(changes), key)]
  IN SetToSeq(changes) \o SetToSeq({sum(key) : key \in Recomputed(changes)})

(* planNarDelta's blockers; a review answers for a partition that shrinks.  *)
Blocked(source, parts, reviewed) ==
  \/ Indeterminate(source)
  \/ ComesFromOutside(source, parts)
  \/ (Shrinks(source, parts) /\ ~reviewed)
  \/ ClaimedAlready(source, parts)
  \/ Len(BatchesOf(Changes(source, parts))) > WritesCeiling

(* A plan is made of the whole province as it stands.  A checkpoint admits  *)
(* no other plan, until the one it is of is complete.                       *)
Plans(parts) ==
  /\ writer = "none" /\ (file # NoFile => file.complete)
  /\ plans < MaxPlans /\ plans' = plans + 1
  /\ \E release \in Releases, rejected, lost \in SUBSET Guids, vouched, reviewed \in BOOLEAN :
       LET source == Staged(release, rejected, lost, vouched)
           changes == Changes(source, parts)
       IN /\ lost # {} => ~vouched
          /\ ~Blocked(source, parts, reviewed)
          /\ plan' = [parts |-> parts, from |-> table, to |-> release, batches |-> BatchesOf(changes)]
          /\ applied' = [n \in DOMAIN BatchesOf(changes) |-> 0]
  /\ file' = NoFile /\ sent' = [reads |-> 0, writes |-> 0]
  /\ UNCHANGED <<table, sums, writer, faults>>

-----------------------------------------------------------------------------
(* The rehearsal *)

Fault == faults < MaxFaults /\ faults' = faults + 1

(* An exception gives the lock back, a crash does not. *)
Throws == writer' = "none"

Starts ==
  /\ plan # NoPlan /\ writer = "none"
  /\ file # NoFile => ~(file.complete \/ file.blocked)
  /\ writer' = "next"
  /\ file' = IF file # NoFile THEN file
             ELSE [done |-> 0, tries |-> 0, reads |-> 0, writes |-> 0,
                   blocked |-> FALSE, complete |-> FALSE]
  /\ UNCHANGED <<table, sums, plan, applied, sent, plans, faults>>

Current == file.done + 1

(* Each request is reserved, and the reservation saved, before it is sent.  *)
AsksReceipt ==
  /\ writer = "next" /\ file.done < Len(plan.batches)
  /\ IF file.reads = ReadsCeiling THEN Throws /\ UNCHANGED <<file, sent>>
     ELSE /\ file' = [file EXCEPT !.reads = @ + 1]
          /\ sent' = [sent EXCEPT !.reads = @ + 1]
          /\ writer' = "receipt"
  /\ UNCHANGED <<table, sums, plan, applied, plans, faults>>

Done == file' = [file EXCEPT !.done = @ + 1, !.tries = 0] /\ writer' = "next"
Blocks == file' = [file EXCEPT !.blocked = TRUE] /\ Throws

Applicable == file.tries < MaxTries /\ file.writes < WritesCeiling

(* The receipt says what took effect, or nothing that can be relied upon;   *)
(* or its cost is not what was reserved.                                    *)
Reconciles ==
  /\ writer = "receipt"
  /\ \/ applied[Current] > 0 /\ Done /\ UNCHANGED <<sent, faults>>
     \/ /\ applied[Current] = 0 /\ Applicable
        /\ file' = [file EXCEPT !.tries = @ + 1, !.writes = @ + 1]
        /\ sent' = [sent EXCEPT !.writes = @ + 1]
        /\ writer' = "apply" /\ UNCHANGED faults
     \/ applied[Current] = 0 /\ ~Applicable /\ Throws /\ UNCHANGED <<file, sent, faults>>
     \/ Fault /\ Throws /\ UNCHANGED <<file, sent>>
     \/ Fault /\ Blocks /\ UNCHANGED sent
  /\ UNCHANGED <<table, sums, plan, applied, plans>>

IsChange(batch) == "guid" \in DOMAIN batch

(* A batch and its receipt are committed together. *)
Commits ==
  LET batch == plan.batches[Current]
  IN /\ applied' = [applied EXCEPT ![Current] = @ + 1]
     /\ IF IsChange(batch)
        THEN table' = [table EXCEPT ![batch.guid] = batch.after] /\ UNCHANGED sums
        ELSE sums' = [sums EXCEPT ![batch.key] = batch.value] /\ UNCHANGED table

RollsBack == UNCHANGED <<table, sums, applied>>

(* The batch is applied; or it fails or its answer is lost, after it took   *)
(* effect or not, and the receipt is asked again; or it cost more.          *)
AppliesBatch ==
  /\ writer = "apply"
  /\ \/ Commits /\ Done /\ UNCHANGED faults
     \/ Fault /\ (Commits \/ RollsBack) /\ writer' = "next" /\ UNCHANGED file
     \/ Fault /\ Commits /\ Blocks
  /\ UNCHANGED <<plan, sent, plans>>

Completes ==
  /\ writer = "next" /\ file.done = Len(plan.batches)
  /\ file' = [file EXCEPT !.complete = TRUE] /\ Throws
  /\ UNCHANGED <<table, sums, plan, applied, sent, plans, faults>>

(* The process ends before or after what it asked for took effect. *)
Crashes ==
  /\ writer \in {"next", "receipt", "apply"} /\ Fault
  /\ writer' = "crashed"
  /\ (writer = "apply" /\ Commits) \/ RollsBack
  /\ UNCHANGED <<plan, file, sent, plans>>

(* The operator takes a dead writer's lock away. *)
Unlocks ==
  /\ writer = "crashed" /\ writer' = "none"
  /\ UNCHANGED <<table, sums, plan, file, applied, sent, plans, faults>>

DeltaInit ==
  /\ table = Baseline /\ sums = [key \in Aggregates |-> Summary(Baseline, key)]
  /\ plan = NoPlan /\ file = NoFile /\ writer = "none"
  /\ applied = <<>> /\ sent = [reads |-> 0, writes |-> 0]
  /\ plans = 0 /\ faults = 0

DeltaNext ==
  \/ \E parts \in SUBSET Partitions \ {{}} : Plans(parts)
  \/ Starts \/ AsksReceipt \/ Reconciles \/ AppliesBatch \/ Completes \/ Crashes \/ Unlocks

DeltaSpec == DeltaInit /\ [][DeltaNext]_deltaVars

-----------------------------------------------------------------------------
(* Properties *)

(* "Postal groups touched by both old and new rows are recomputed", and     *)
(* movement is reconciled "in the same immutable plan" (docs/nar-fsa-       *)
(* delta.md): a completed plan has brought every row that was or belongs in *)
(* its partitions to what the release says, left every other as it was, and *)
(* every aggregate of the province, whichever rows share it, is that of the *)
(* rows there are.                                                          *)
PlanLands ==
  file # NoFile /\ file.complete =>
    /\ \A g \in Guids :
         table[g] = IF Within(plan.from[g], plan.parts) \/ Within(plan.to[g], plan.parts)
                   THEN plan.to[g] ELSE plan.from[g]
    /\ \A key \in Aggregates : sums[key] = Summary(table, key)

(* "A lost acknowledgement requires receipt reconciliation before any       *)
(* replay", across crashes and restarts: no batch takes effect twice, one   *)
(* that is done has taken effect, and every request was reserved, within    *)
(* the ceilings.                                                            *)
RunAccounted ==
  file # NoFile =>
    /\ \A n \in DOMAIN applied : applied[n] <= 1 /\ (n <= file.done => applied[n] = 1)
    /\ sent.reads <= file.reads /\ file.reads <= ReadsCeiling
    /\ sent.writes <= file.writes /\ file.writes <= WritesCeiling

(* A plan that is complete has landed whole, and every batch and request of *)
(* the run on the way there is accounted for (runLocalRehearsal).           *)
DeltaLands == PlanLands /\ RunAccounted
=============================================================================
