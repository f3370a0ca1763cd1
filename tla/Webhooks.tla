------------------------------ MODULE Webhooks ------------------------------
(* The events of webhooks (src/webhooks.ts) and their index, in a KV        *)
(* namespace whose calls fail silently (kv-cache.ts): a value that cannot   *)
(* be read is not there, and a write that fails is taken for done.  The     *)
(* cron (worker.ts) comes every six hours and never overlaps itself; every  *)
(* wait before a retry is over by then.                                     *)
(*                                                                          *)
(* createWebhookEvent has callers in the tests only: it is what another     *)
(* part of the worker may call at any time, and so is deleteWebhook.  Not   *)
(* here: that KV may show a value for some time after it was written over,  *)
(* the index of the webhooks, and the record of each delivery, which only   *)
(* listings read.                                                           *)
EXTENDS Naturals, FiniteSets

CONSTANTS
  Hooks, Events,
  MaxAttempts,    \* WEBHOOK_CONFIG.MAX_RETRY_ATTEMPTS
  MaxMisses,      \* bound: KV calls that fail, and cron runs that die
  NoEvent

ASSUME WebhookConstants ==
  /\ MaxAttempts \in Nat \ {0} /\ MaxMisses \in Nat
  /\ NoEvent \notin Events

VARIABLES
  configs,    \* the webhooks that are stored
  stored,     \* of each event, or NoEvent
  index,      \* webhook:event:index
  adding,     \* of each event: how far its creation is, and the index it read
  cron,
  aged,        \* the events older than MAX_EVENT_AGE
  misses,
  called,     \* auxiliary: how often an event was sent, up to once more than it may be
  confirmed   \* auxiliary: how often its receiver said so

hookVars == <<configs, stored, index, adding, cron, aged, misses, called, confirmed>>

Idle == [step |-> "idle", todo |-> {}, event |-> NoEvent, read |-> NoEvent, result |-> "none",
         kept |-> {}]

Miss == misses < MaxMisses /\ misses' = misses + 1

(* readJsonEntry: what is there, or as if it were not; writeJsonEntry. *)
Reads(value, missing, seen) ==
  \/ seen = value /\ UNCHANGED misses
  \/ seen = missing /\ Miss
Writes(done, undone) == (done /\ UNCHANGED misses) \/ (undone /\ Miss)

-----------------------------------------------------------------------------
(* createWebhook, deleteWebhook *)
Registers(w) ==
  /\ configs' = IF w \in configs THEN configs \ {w} ELSE configs \cup {w}
  /\ UNCHANGED <<stored, index, adding, cron, aged, misses, called, confirmed>>

(* createWebhookEvent: the event, whose index is read and written back. *)
Adds(e, step, seen) == adding' = [adding EXCEPT ![e] = [step |-> step, seen |-> seen]]

CreateWebhookEvent(e, w) ==
  /\ adding[e].step = "none" /\ w \in configs
  /\ Adds(e, "stored", {})
  /\ Writes(stored' = [stored EXCEPT ![e] = [hook |-> w, status |-> "pending", attempts |-> 0]],
            UNCHANGED stored)
  /\ UNCHANGED <<configs, index, cron, aged, called, confirmed>>

ReadsIndex(e) ==
  /\ adding[e].step = "stored"
  /\ \E seen \in {index, {}} : Reads(index, {}, seen) /\ Adds(e, "read", seen)
  /\ UNCHANGED <<configs, stored, index, cron, aged, called, confirmed>>

WritesIndex(e) ==
  /\ adding[e].step = "read"
  /\ Writes(index' = adding[e].seen \cup {e}, UNCHANGED index)
  /\ Adds(e, "done", {})
  /\ UNCHANGED <<configs, stored, cron, aged, called, confirmed>>

-----------------------------------------------------------------------------
(* The cron: processWebhookEvents, then cleanupWebhookData *)

Pending(e) == stored[e] # NoEvent /\ stored[e].status = "pending"

(* The index, and then each event in it; one that cannot be read waits. *)
Collects ==
  /\ cron.step = "idle"
  /\ \E seen \in SUBSET Events :
       /\ \/ Reads(index, {}, seen)
          \/ Miss /\ \E e \in index : seen = index \ {e}
       /\ cron' = [Idle EXCEPT !.step = "next", !.todo = {e \in seen : Pending(e)}]
  /\ UNCHANGED <<configs, stored, index, adding, aged, called, confirmed>>

(* deliverWebhook: without the webhook or the event there is nothing to do, *)
(* and no attempt is counted.                                               *)
Takes(e) ==
  /\ cron.step = "next" /\ e \in cron.todo
  /\ \/ /\ stored[e] # NoEvent /\ stored[e].hook \in configs
        /\ cron' = [cron EXCEPT !.step = "send", !.todo = @ \ {e}, !.event = e, !.read = stored[e]]
        /\ UNCHANGED misses
     \/ /\ cron' = [cron EXCEPT !.todo = @ \ {e}]
        /\ IF stored[e] # NoEvent /\ stored[e].hook \in configs THEN Miss ELSE UNCHANGED misses
  /\ UNCHANGED <<configs, stored, index, adding, aged, called, confirmed>>

(* The receiver answers well, badly, or not in time. *)
Sends ==
  /\ cron.step = "send"
  /\ \E result \in {"ok", "failed"} :
       /\ cron' = [cron EXCEPT !.step = "record", !.result = result]
       /\ confirmed' = IF result = "ok" THEN [confirmed EXCEPT ![cron.event] = @ + 1] ELSE confirmed
  /\ called' = [called EXCEPT ![cron.event] = IF @ > MaxAttempts THEN @ ELSE @ + 1]
  /\ UNCHANGED <<configs, stored, index, adding, aged, misses>>

(* shouldScheduleWebhookRetry *)
Retries(attempts) == attempts < MaxAttempts

(* MUTANT of Failure: only an answer counts as an attempt. *)
FailureUncounted(read) == read

(* applyWebhookFailure *)
Failure(read) ==
  [read EXCEPT !.attempts = @ + 1,
               !.status = IF Retries(read.attempts + 1) THEN "pending" ELSE "failed"]

(* MUTANT of Outcome: an event whose attempts are used up is done with. *)
OutcomeDone(read, result) ==
  IF result = "ok" \/ ~Retries(read.attempts + 1)
  THEN [read EXCEPT !.attempts = @ + 1, !.status = "delivered"]
  ELSE Failure(read)

Outcome(read, result) ==
  IF result = "ok" THEN [read EXCEPT !.attempts = @ + 1, !.status = "delivered"]
  ELSE Failure(read)

Records ==
  /\ cron.step = "record"
  /\ Writes(stored' = [stored EXCEPT ![cron.event] = Outcome(cron.read, cron.result)],
            UNCHANGED stored)
  /\ cron' = [cron EXCEPT !.step = "next", !.event = NoEvent, !.read = NoEvent, !.result = "none"]
  /\ UNCHANGED <<configs, index, adding, aged, called, confirmed>>

(* Each event of the index that is too old is deleted, and is taken off the  *)
(* index that was read before.                                              *)
CleansUp ==
  /\ cron.step = "next" /\ cron.todo = {}
  /\ \E seen \in SUBSET Events :
       LET gone == {e \in seen \cap aged : stored[e] # NoEvent}
       IN /\ \/ Reads(index, {}, seen) /\ stored' = [e \in Events |->
                                                    IF e \in gone THEN NoEvent ELSE stored[e]]
             \/ /\ Miss /\ seen = index
                /\ \E e \in gone : stored' = [f \in Events |->
                                      IF f \in gone \ {e} THEN NoEvent ELSE stored[f]]
          /\ cron' = [Idle EXCEPT !.step = "rewrite", !.kept = seen \ gone]
  /\ UNCHANGED <<configs, index, adding, aged, called, confirmed>>

RewritesIndex ==
  /\ cron.step = "rewrite"
  /\ Writes(index' = cron.kept, UNCHANGED index)
  /\ cron' = Idle
  /\ UNCHANGED <<configs, stored, adding, aged, called, confirmed>>

CronDies ==
  /\ cron.step # "idle" /\ Miss
  /\ cron' = Idle
  /\ UNCHANGED <<configs, stored, index, adding, aged, called, confirmed>>

GrowsOld(e) ==
  /\ stored[e] # NoEvent /\ e \notin aged
  /\ aged' = aged \cup {e}
  /\ UNCHANGED <<configs, stored, index, adding, cron, misses, called, confirmed>>

Cron == Collects \/ (\E e \in Events : Takes(e)) \/ Sends \/ Records \/ CleansUp \/ RewritesIndex

HooksInit ==
  /\ configs = {} /\ stored = [e \in Events |-> NoEvent]
  /\ index = {}
  /\ adding = [e \in Events |-> [step |-> "none", seen |-> {}]]
  /\ cron = Idle /\ aged = {} /\ misses = 0
  /\ called = [e \in Events |-> 0] /\ confirmed = [e \in Events |-> 0]

HooksNext ==
  \/ \E w \in Hooks : Registers(w) \/ \E e \in Events : CreateWebhookEvent(e, w)
  \/ \E e \in Events : ReadsIndex(e) \/ WritesIndex(e) \/ GrowsOld(e)
  \/ Cron \/ CronDies

-----------------------------------------------------------------------------
(* Properties *)

(* What an event is said to have come to is what happened: a delivered one  *)
(* was confirmed by its receiver, a failed one was sent as often as it may  *)
(* be, through writes that were lost and runs that died after the call; and *)
(* as long as nothing fails, no receiver is sent what it has confirmed.     *)
OutcomesEarned ==
  /\ \A e \in Events : stored[e] # NoEvent =>
       /\ stored[e].status = "delivered" => confirmed[e] > 0
       /\ stored[e].status = "failed" => called[e] >= MaxAttempts
  /\ misses = 0 => \A e \in Events : confirmed[e] <= 1 /\ called[e] <= MaxAttempts

(* An event that stays in the index, while its webhook is there, comes to   *)
(* an end, whatever its receiver does.                                      *)
EventsSettle ==
  \A e \in Events :
    (Pending(e) /\ e \in index)
      ~> (~Pending(e) \/ e \notin index \/ stored[e].hook \notin configs)
=============================================================================
