----------------------------- MODULE MCLookups -----------------------------
(* What asks for ridings: two lookups at a time, a round of cache warming   *)
(* and a batch, each in a scene of its own.                                 *)
EXTENDS MCRidingLookup, BatchLookup

CONSTANT Scenes

VARIABLE scene

lookupsVars == <<vars, batchVars, scene>>

MCInit == Init /\ BatchInit /\ scene \in Scenes

LookingUp(step) == scene = "lookups" /\ step /\ UNCHANGED <<batchVars, scene>>
Warming(step) == scene = "warming" /\ step /\ UNCHANGED <<batchVars, scene>>
Batching(step) == scene = "batch" /\ step /\ UNCHANGED <<vars, scene>>

(* The round has one lookup beside it, in the dataset it warms. *)
MCServes == Step("l2") \/ Publishes("on") \/ Expires("on")

(* One synchronisation is enough for both lookups to meet it. *)
MCKeeping == InitsTables \/ Syncs("on")

(* The runtime's timers fire, the cache answers and the geocoder has a      *)
(* deadline of its own, as has every call of a batch; the database and R2   *)
(* need not answer.                                                         *)
MCFairness ==
  /\ \A l \in Lookups :
       /\ WF_lookupsVars(LookingUp(ReadsCache(l)))
       /\ WF_lookupsVars(LookingUp(Geocodes(l)))
       /\ WF_lookupsVars(LookingUp(TimesOut(l)))
  /\ WF_lookupsVars(Batching(BatchWorks))

MCSpec == MCInit /\ [][LookingUp(Serves \/ MCKeeping) \/ Warming(Warms \/ MCServes) \/ Batching(BatchNext)]_lookupsVars /\ MCFairness

(* Whatever hangs, a lookup is answered, with ridings or with an error; and *)
(* so is a batch, whichever of its items fail.                              *)
EveryRequestEnds ==
  /\ \A l \in Lookups : scene = "lookups" ~> answer[l] # None
  /\ batch # NoBatch ~> reply # NoBatch
=============================================================================
