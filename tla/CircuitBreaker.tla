-------------------------- MODULE CircuitBreaker --------------------------
(***************************************************************************)
(* The circuit breaker of one key: the class CircuitBreaker in every       *)
(* isolate (circuit-breaker.ts) and the Durable Object they share          *)
(* (circuit-breaker-do.ts).  A call asks the object, runs its operation,   *)
(* and reports how it went; when it cannot ask, it goes by the circuit of  *)
(* its isolate.                                                            *)
(*                                                                         *)
(* A handler of the object is one step: nothing is delivered to it during  *)
(* a storage operation.  A call goes from await to await, and others run   *)
(* in between, so an operation may end long after its circuit has changed. *)
(*                                                                         *)
(* A time is abstracted to whether recoveryTimeout has passed since the    *)
(* last failure.  failureCount is only compared with its threshold, so it  *)
(* stops there.  What an operation fails with counts unless the caller's   *)
(* shouldCountFailure says otherwise: of all callers only geocoding:oda    *)
(* filters its misses, so for every other key a service that works and has *)
(* no answer fails like one that is down.                                  *)
(***************************************************************************)
EXTENDS Integers

CONSTANTS
  Calls, Isolates, Home,  \* calls of execute, one after the other, and where
  Object,
  FailureThreshold, SuccessThreshold,  \* of the object and of each isolate
  MaxMishaps    \* bound: lost messages, failed saves, evictions and resets

Hosts == Isolates \cup {Object}

ASSUME BreakerConstants ==
  /\ Object \notin Isolates
  /\ Home \in [Calls -> Isolates]
  /\ FailureThreshold \in [Hosts -> Nat \ {0}]
  /\ SuccessThreshold \in [Hosts -> Nat \ {0}]
  /\ MaxMishaps \in Nat

VARIABLES
  circuit,   \* the key's entry in `states`, in every host
  stored,    \* that in `circuitBreakers`, the object's storage
  stage,     \* where a call awaits
  service,   \* how many operations fail in a way that counts: all, some or none
  earned, renewed, unsaved,   \* what really happened, which no entry records
  mishaps

truth == <<earned, renewed, unsaved>>
vars == <<circuit, stored, stage, service, truth, mishaps>>

(* A missing entry is created in this form. *)
Fresh(h) == [state |-> "CLOSED", failureCount |-> 0, successCount |-> 0, waited |-> FALSE]

Circuit(h) == [state : {"CLOSED", "OPEN", "HALF_OPEN"},
               failureCount : 0 .. FailureThreshold[h],
               successCount : 0 .. SuccessThreshold[h],
               waited : BOOLEAN]

TypeOK ==
  /\ \A h \in Hosts : circuit[h] \in Circuit(h)
  /\ stored \in Circuit(Object)
  /\ stage \in [Calls -> {"idle", "unanswered", "running", "succeeded", "broke", "rethrown",
                          "local"}]
  /\ service \in {"down", "patchy", "sound"}
  /\ earned \in [Hosts -> Nat]
  /\ \A h \in Hosts : earned[h] <= SuccessThreshold[h]
  /\ renewed \subseteq Hosts
  /\ unsaved \in BOOLEAN
  /\ mishaps \in 0 .. MaxMishaps

Init ==
  /\ circuit = [h \in Hosts |-> Fresh(h)]
  /\ stored = Fresh(Object)
  /\ stage = [c \in Calls |-> "idle"]
  /\ service = "sound"
  /\ earned = SuccessThreshold
  /\ renewed = {}
  /\ unsaved = FALSE
  /\ mishaps = 0

-----------------------------------------------------------------------------
(* What both implementations do to an entry. *)

Less(m, n) == IF m <= n THEN m ELSE n

Refuses(k) == k.state = "OPEN" /\ ~k.waited

(* MUTANT of Probes: the successes of the last recovery still count. *)
ProbesAgain(k) ==
  IF k.state = "OPEN" THEN [k EXCEPT !.state = "HALF_OPEN", !.waited = FALSE] ELSE k

(* An open circuit that is asked after its timeout. *)
Probes(k) ==
  IF k.state = "OPEN"
  THEN [k EXCEPT !.state = "HALF_OPEN", !.successCount = 0, !.waited = FALSE]
  ELSE k

OnSuccess(h, k) ==
  IF k.state = "HALF_OPEN"
  THEN [k EXCEPT !.failureCount = 0,
                 !.successCount = @ + 1,
                 !.state = IF k.successCount + 1 >= SuccessThreshold[h] THEN "CLOSED" ELSE @]
  ELSE [k EXCEPT !.failureCount = 0]

(* MUTANT of OnFailure: half-open, the failures are forgotten and not counted. *)
OnFailureHalfOpen(h, k) ==
  IF k.state = "HALF_OPEN" THEN [k EXCEPT !.failureCount = 0]
  ELSE LET count == Less(k.failureCount + 1, FailureThreshold[h])
       IN IF count = FailureThreshold[h]
          THEN [k EXCEPT !.failureCount = count, !.state = "OPEN", !.waited = FALSE]
          ELSE [k EXCEPT !.failureCount = count]

(* A late failure of an open circuit begins its timeout again. *)
OnFailure(h, k) ==
  LET count == Less(k.failureCount + 1, FailureThreshold[h])
  IN IF count = FailureThreshold[h]
     THEN [k EXCEPT !.failureCount = count, !.state = "OPEN", !.waited = FALSE]
     ELSE [k EXCEPT !.failureCount = count, !.waited = FALSE]

(* What a circuit has earned are the successes that were reported to its     *)
(* host since it was last open, whatever its entry counts.  It is renewed    *)
(* when it has since then been set to something else than reports made it.   *)
Judges(reported, replaced) ==
  /\ renewed' = {h \in renewed \cup replaced : circuit'[h].state # "OPEN"}
  /\ earned' = [h \in Hosts |->
                 IF circuit'[h].state = "OPEN" THEN 0
                 ELSE IF h \in reported THEN Less(earned[h] + 1, SuccessThreshold[h])
                 ELSE earned[h]]

(* A handler of the object sets the entry and saves it; the failure of a     *)
(* save is swallowed.  The answer may not arrive.                            *)
Mishap(n) == mishaps' = mishaps + n /\ mishaps' <= MaxMishaps

Saves(k, answered) ==
  \E saved \in BOOLEAN :
    /\ stored' = IF saved THEN k ELSE stored
    /\ unsaved' = ~saved
    /\ Mishap((IF saved THEN 0 ELSE 1) + (IF answered THEN 0 ELSE 1))

(* A report changes the entry of the object, that of the isolate when no     *)
(* answer came, or both when the answer was lost.                            *)
Applies(i, succeeded) ==
  LET After(h) == IF succeeded THEN OnSuccess(h, circuit[h]) ELSE OnFailure(h, circuit[h])
  IN \E told \in {{Object}, {Object, i}, {i}} :
       /\ circuit' = [h \in Hosts |-> IF h \in told THEN After(h) ELSE circuit[h]]
       /\ Judges(IF succeeded THEN told ELSE {}, {})
       /\ IF Object \in told THEN Saves(After(Object), i \notin told)
          ELSE Mishap(1) /\ UNCHANGED <<stored, unsaved>>

-----------------------------------------------------------------------------
(* execute. *)

GoesTo(c, s) == stage' = [stage EXCEPT ![c] = s]

(* /check.  A call that is refused throws, and nothing changes. *)
Check(c) ==
  LET k == circuit[Object]
  IN /\ stage[c] = "idle"
     /\ \/ /\ k.state # "OPEN"
           /\ GoesTo(c, "running")
           /\ UNCHANGED <<circuit, stored, truth, mishaps>>
        \/ /\ k.state = "OPEN" /\ ~Refuses(k)
           /\ circuit' = [circuit EXCEPT ![Object] = Probes(k)]
           /\ Judges({}, {})
           /\ \E answered \in BOOLEAN :
                /\ Saves(Probes(k), answered)
                /\ GoesTo(c, IF answered THEN "running" ELSE "unanswered")
        \/ /\ Mishap(1)
           /\ GoesTo(c, "unanswered")
           /\ UNCHANGED <<circuit, stored, truth>>
     /\ UNCHANGED service

(* What follows the object's part.  The catch block takes the error of the   *)
(* operation, thrown on, for one of the call to the object.                  *)
FallsBack(c) ==
  LET i == Home[c]
  IN /\ stage[c] \in {"unanswered", "rethrown"}
     /\ \/ /\ Refuses(circuit[i])
           /\ GoesTo(c, "idle")
           /\ UNCHANGED <<circuit, truth>>
        \/ /\ ~Refuses(circuit[i])
           /\ GoesTo(c, "local")
           /\ circuit' = [circuit EXCEPT ![i] = Probes(@)]
           /\ Judges({}, {}) /\ UNCHANGED unsaved
     /\ UNCHANGED <<stored, service, mishaps>>

(* A miss is an error that is not counted, a failure any other. *)
Possible(outcome) ==
  CASE service = "down" -> outcome = "failure"
    [] service = "sound" -> outcome # "failure"
    [] OTHER -> TRUE

OperationEnds(c, outcome) ==
  /\ Possible(outcome)
  /\ \/ /\ stage[c] = "running"
        /\ GoesTo(c, CASE outcome = "success" -> "succeeded"
                       [] outcome = "failure" -> "broke"
                       [] OTHER -> "rethrown")
        /\ UNCHANGED <<circuit, truth>>
     \/ /\ stage[c] = "local"
        /\ GoesTo(c, "idle")
        /\ circuit' = [circuit EXCEPT ![Home[c]] =
                         CASE outcome = "success" -> OnSuccess(Home[c], @)
                           [] outcome = "failure" -> OnFailure(Home[c], @)
                           [] OTHER -> @]
        /\ Judges(IF outcome = "success" THEN {Home[c]} ELSE {}, {})
        /\ UNCHANGED unsaved
  /\ UNCHANGED <<stored, service, mishaps>>

(* reportSuccess ends the call; after reportFailure its error is thrown on. *)
Reports(c) ==
  LET i == Home[c]
  IN /\ \/ /\ stage[c] = "succeeded"
           /\ Applies(i, TRUE)
           /\ GoesTo(c, "idle")
        \/ /\ stage[c] = "broke"
           /\ Applies(i, FALSE)
           /\ GoesTo(c, "rethrown")
     /\ UNCHANGED service

-----------------------------------------------------------------------------
(* Around the calls. *)

(* An operator resets the key from some isolate: its entry is deleted, and   *)
(* made anew when it is next asked for.                                      *)
Reset(i) ==
  /\ \E told \in {{Object}, {Object, i}, {i}} :
       /\ circuit' = [h \in Hosts |-> IF h \in told THEN Fresh(h) ELSE circuit[h]]
       /\ Judges({}, told)
       /\ IF Object \in told
          THEN \E saved \in BOOLEAN :
                 /\ stored' = IF saved THEN Fresh(Object) ELSE stored
                 /\ unsaved' = ~saved
          ELSE UNCHANGED <<stored, unsaved>>
  /\ Mishap(1)
  /\ UNCHANGED <<stage, service>>

(* loadState: of a health check that reads the state, or of a new instance.  *)
(* After a save that was swallowed it is an older state.                     *)
Loads ==
  /\ circuit' = [circuit EXCEPT ![Object] = stored]
  /\ Judges({}, IF unsaved THEN {Object} ELSE {})
  /\ unsaved' = FALSE
  /\ UNCHANGED <<stored, stage, service, mishaps>>

(* A new instance that cannot load begins empty. *)
LoadFails ==
  /\ Mishap(1)
  /\ circuit' = [circuit EXCEPT ![Object] = Fresh(Object)]
  /\ Judges({}, {Object})
  /\ unsaved' = TRUE
  /\ UNCHANGED <<stored, stage, service>>

(* An isolate is evicted with the calls in it. *)
Evicted(i) ==
  /\ Mishap(1)
  /\ circuit' = [circuit EXCEPT ![i] = Fresh(i)]
  /\ Judges({}, {i})
  /\ stage' = [c \in Calls |-> IF Home[c] = i THEN "idle" ELSE stage[c]]
  /\ UNCHANGED <<stored, service, unsaved>>

(* The times in memory and storage are the same as long as the entries are. *)
TimeoutPasses(h) ==
  /\ Refuses(circuit[h])
  /\ circuit' = [circuit EXCEPT ![h].waited = TRUE]
  /\ stored' = IF h = Object /\ stored = circuit[Object] THEN circuit'[Object] ELSE stored
  /\ UNCHANGED <<stage, service, truth, mishaps>>

ServiceChanges ==
  /\ service' \in {"down", "patchy", "sound"} \ {service}
  /\ UNCHANGED <<circuit, stored, stage, truth, mishaps>>

Next ==
  \/ \E c \in Calls : Check(c) \/ FallsBack(c) \/ Reports(c)
  \/ \E c \in Calls, outcome \in {"success", "failure", "miss"} : OperationEnds(c, outcome)
  \/ \E i \in Isolates : Reset(i) \/ Evicted(i)
  \/ Loads \/ LoadFails
  \/ \E h \in Hosts : TimeoutPasses(h)
  \/ ServiceChanges

Spec == Init /\ [][Next]_vars

Runs(c, outcome) == stage[c] = "running" /\ OperationEnds(c, outcome)

(* Traffic goes on, every await of a call ends (stages of a lookup have      *)
(* timeouts), time passes, and not every first run of an operation misses.   *)
Fairness ==
  /\ \A c \in Calls :
       /\ WF_vars(Check(c)) /\ WF_vars(FallsBack(c)) /\ WF_vars(Reports(c))
       /\ SF_vars(Runs(c, "success")) /\ SF_vars(Runs(c, "failure"))
       /\ WF_vars(\E outcome \in {"success", "failure", "miss"} : OperationEnds(c, outcome))
  /\ \A h \in Hosts : WF_vars(TimeoutPasses(h))

FairSpec == Spec /\ Fairness

-----------------------------------------------------------------------------
(* Properties. *)

(* A circuit that has been open closes only on as many successes as its      *)
(* threshold, reported to it since, whatever late reports of earlier calls   *)
(* come between ("successThreshold", circuit-breaker.ts:133), unless it was  *)
(* renewed: reset by an operator, begun anew with its host's memory, or      *)
(* loaded in an older state, and that only after a save or load that failed. *)
ClosedIsEarned ==
  \A h \in Hosts :
    circuit[h].state = "CLOSED" => earned[h] = SuccessThreshold[h] \/ h \in renewed

(* "confirm recovery to CLOSED / HALF_OPEN without deploy"                   *)
(* (docs/ops/alerts.md:23): once no operation fails in a way that counts,    *)
(* the shared circuit closes for good.  For geocoding:oda that is once the   *)
(* service works; for the other keys it must have an answer as well for      *)
(* whatever it is asked.                                                     *)
Recovers == <>[](service = "sound") => <>[](circuit[Object].state = "CLOSED")

(* While every operation fails, the shared circuit opens again and again: no *)
(* order of late reports and probes leaves it closed or half-open for ever.  *)
Opens == <>[](service = "down") => []<>(circuit[Object].state = "OPEN")

(* The shared circuit follows the service, down and up, whatever is lost     *)
(* and whichever operations report late.                                     *)
FollowsService == Recovers /\ Opens
=============================================================================
