------------------------------- MODULE JobPool -------------------------------
(***************************************************************************)
(* What the batch queue promises about one job, without its queues: the    *)
(* contract that JobQueue implements.                                      *)
(*                                                                         *)
(* A job is queued, then claimed by one call, which returns it to the      *)
(* queue, finishes it, or declares it dead; an operator may revive a dead  *)
(* job.  A checkpoint may be taken with any step.  A job that is claimed   *)
(* at a checkpoint is not recoverable from it: recovery finds it lost.     *)
(* Nothing else ever loses a job, and a done job is done for good unless   *)
(* the store is replaced after a recovery that read nothing.               *)
(***************************************************************************)
CONSTANT Jobs

VARIABLES
  pool,    \* pool[j]: what has become of job j
  saved    \* what the last checkpoint says of it

poolVars == <<pool, saved>>

Fate == {"none", "queued", "claimed", "done", "dead", "lost"}

PoolTypeOK == pool \in [Jobs -> Fate] /\ saved \in [Jobs -> Fate \ {"claimed"}]

PoolInit ==
  /\ pool = [j \in Jobs |-> "none"]
  /\ saved = pool

(* The jobs of S go from one of the fates `from` to a fate chosen by f. *)
Move(S, from, f) ==
  /\ \A j \in S : pool[j] \in from
  /\ pool' = [j \in Jobs |-> IF j \in S THEN f[j] ELSE pool[j]]

Checkpoint ==
  saved' = [j \in Jobs |-> IF pool'[j] = "claimed" THEN "lost" ELSE pool'[j]]

MaybeCheckpoint == Checkpoint \/ UNCHANGED saved

(* A batch is accepted: jobs nobody has seen become queued. *)
Submit ==
  /\ \E S \in SUBSET Jobs : Move(S, {"none"}, [j \in S |-> "queued"])
  /\ MaybeCheckpoint

(* A call claims queued jobs; none of them is anybody else's. *)
Claim ==
  /\ \E S \in SUBSET Jobs : Move(S, {"queued"}, [j \in S |-> "claimed"])
  /\ MaybeCheckpoint

(* One run of a claimed job ends. *)
Finish ==
  /\ \E j \in Jobs, fate \in {"done", "queued", "dead"} :
       Move({j}, {"claimed"}, [k \in {j} |-> fate])
  /\ MaybeCheckpoint

(* An operator revives a dead job. *)
Revive ==
  /\ \E j \in Jobs : Move({j}, {"dead"}, [k \in {j} |-> "queued"])
  /\ MaybeCheckpoint

(* A request that changes no job still saves. *)
SaveOnly == UNCHANGED pool /\ Checkpoint

Recover == pool' = saved /\ UNCHANGED saved

(* The store could not be read: everything is forgotten, until the next     *)
(* checkpoint forgets it for good.                                          *)
Forget == pool' = [j \in Jobs |-> "none"] /\ UNCHANGED saved

PoolNext == Submit \/ Claim \/ Finish \/ Revive \/ SaveOnly \/ Recover \/ Forget

PoolSpec == PoolInit /\ [][PoolNext]_poolVars
=============================================================================
