------------------------------- MODULE MCEnds -------------------------------
(* What is delivered by itself: two uploads by their alarm, in one scene;   *)
(* the events of a webhook by the cron, in the other.                       *)
EXTENDS MCUploadJobs, Webhooks

CONSTANT Scenes

VARIABLE scene

endsVars == <<vars, hookVars, scene>>

MCInit == Init /\ HooksInit /\ scene \in Scenes

Uploading(step) == scene = "uploads" /\ step /\ UNCHANGED <<hookVars, scene>>
Hooking(step) == scene = "webhooks" /\ step /\ UNCHANGED <<vars, scene>>

MCFairness ==
  /\ WF_endsVars(Uploading(AlarmFires))
  /\ WF_endsVars(Uploading(StripeAnswers))
  /\ WF_endsVars(Uploading(\E found \in BOOLEAN : RowLookedUp(found)))
  /\ \A u \in Uploads :
       WF_endsVars(Uploading(DeadlinePasses(u))) /\ WF_endsVars(Uploading(SessionExpires(u)))
  /\ WF_endsVars(Hooking(Cron))

MCSpec == MCInit /\ [][Uploading(Next) \/ Hooking(HooksNext)]_endsVars /\ MCFairness
=============================================================================
