--------------------------- MODULE RemoteProofs ---------------------------
(* Proofs about those who deal with another that may be late, down or cut   *)
(* off.  The circuit breaker before a service: reports close no circuit on  *)
(* fewer successes than its threshold, for every number of calls and        *)
(* isolates and all thresholds.  The address box on a customer's page: a    *)
(* list that has not gone astray is the first pages of one answer, a search *)
(* that may still continue it asks for its next page, and the form agrees   *)
(* with the address chosen unless lookups failed or met.  The change        *)
(* of some partitions of a database in batches: every batch of a plan takes *)
(* something to where the release has it and there is one for whatever      *)
(* changes, the batches take effect in turn, each at most once, and what is *)
(* reserved pays for every try.                                             *)
EXTENDS CircuitBreaker, Widget, NarDelta, DataFacts

(***************************************************************************)
(* The circuit breaker                                                     *)
(***************************************************************************)

(* An entry, in memory or stored, counts below its threshold while it probes.*)
Sound(h, k) ==
  /\ k \in Circuit(h)
  /\ k.state = "HALF_OPEN" => k.successCount < SuccessThreshold[h]

(* ClosedIsEarned is not inductive: a success that closes a half-open        *)
(* circuit has to find that what its entry counts is what was earned, and    *)
(* that count was zero when the circuit became half-open, because an open    *)
(* one has earned nothing.                                                   *)
Backed(k, e, t, excused) ==
  /\ e \in 0 .. t
  /\ k.state = "CLOSED" => e = t \/ excused
  /\ k.state = "HALF_OPEN" => e = k.successCount \/ excused
  /\ k.state = "OPEN" => e = 0 /\ ~excused

Stages == {"idle", "unanswered", "running", "succeeded", "broke", "rethrown", "local"}

CircuitTypes ==
  /\ DOMAIN circuit = Hosts
  /\ \A h \in Hosts : Sound(h, circuit[h])
  /\ Sound(Object, stored)

(* What is stored is what the object has, until a save or a load fails. *)
Kept == unsaved \in BOOLEAN /\ (unsaved \/ stored = circuit[Object])

Evidence ==
  /\ earned \in [Hosts -> Nat] /\ renewed \subseteq Hosts
  /\ \A h \in Hosts : Backed(circuit[h], earned[h], SuccessThreshold[h], h \in renewed)

CallTypes ==
  /\ stage \in [Calls -> Stages]
  /\ service \in {"down", "patchy", "sound"}
  /\ mishaps \in 0 .. MaxMishaps

IInv == CircuitTypes /\ Kept /\ Evidence /\ CallTypes

-----------------------------------------------------------------------------
(* The operators on entries. *)

LEMMA Thresholds ==
  ASSUME NEW h \in Hosts
  PROVE  SuccessThreshold[h] \in Nat \ {0} /\ FailureThreshold[h] \in Nat \ {0}
BY BreakerConstants

LEMMA FreshSound ==
  ASSUME NEW h \in Hosts
  PROVE  Sound(h, Fresh(h))
BY Thresholds DEF Sound, Circuit, Fresh

(* An entry is the record of its fields. *)
LEMMA Fields ==
  ASSUME NEW h \in Hosts, NEW k \in Circuit(h)
  PROVE  /\ k = [state |-> k.state, failureCount |-> k.failureCount,
                 successCount |-> k.successCount, waited |-> k.waited]
         /\ k.state \in {"CLOSED", "OPEN", "HALF_OPEN"}
         /\ k.failureCount \in 0 .. FailureThreshold[h]
         /\ k.successCount \in 0 .. SuccessThreshold[h]
         /\ k.waited \in BOOLEAN
BY DEF Circuit

LEMMA ProbesSound ==
  ASSUME NEW h \in Hosts, NEW k, Sound(h, k)
  PROVE  /\ Sound(h, Probes(k))
         /\ k.state = "OPEN" => Probes(k).state = "HALF_OPEN" /\ Probes(k).successCount = 0
         /\ k.state # "OPEN" => Probes(k) = k
<1>1. CASE k.state = "OPEN"
  <2>1. k \in Circuit(h)
    BY DEF Sound
  <2>2. Probes(k) = [state |-> "HALF_OPEN", failureCount |-> k.failureCount,
                     successCount |-> 0, waited |-> FALSE]
    BY <1>1, <2>1 DEF Probes, Circuit
  <2> QED BY <1>1, <2>1, <2>2, Fields, Thresholds DEF Sound, Circuit
<1>2. CASE k.state # "OPEN"
  BY <1>2 DEF Probes
<1> QED BY <1>1, <1>2

(* A success closes a half-open circuit that needs one more, and leaves the  *)
(* state of any other.                                                       *)
LEMMA OnSuccessSound ==
  ASSUME NEW h \in Hosts, NEW k, Sound(h, k)
  PROVE  LET new == OnSuccess(h, k)
         IN /\ Sound(h, new)
            /\ k.state # "HALF_OPEN" => new.state = k.state
            /\ k.state = "HALF_OPEN" =>
                 /\ new.state \in {"HALF_OPEN", "CLOSED"}
                 /\ new.successCount = k.successCount + 1
                 /\ new.state = "CLOSED" => new.successCount = SuccessThreshold[h]
<1>0. k \in Circuit(h)
  BY DEF Sound
<1>1. CASE k.state = "HALF_OPEN"
  <2> DEFINE next == IF k.successCount + 1 >= SuccessThreshold[h] THEN "CLOSED" ELSE "HALF_OPEN"
  <2>1. OnSuccess(h, k) = [state |-> next, failureCount |-> 0,
                           successCount |-> k.successCount + 1, waited |-> k.waited]
    BY <1>0, <1>1 DEF OnSuccess, Circuit
  <2>2. k.successCount < SuccessThreshold[h]
    BY <1>1 DEF Sound
  <2> QED BY <1>0, <1>1, <2>1, <2>2, Fields, Thresholds DEF Sound, Circuit
<1>2. CASE k.state # "HALF_OPEN"
  <2>1. OnSuccess(h, k) = [state |-> k.state, failureCount |-> 0,
                           successCount |-> k.successCount, waited |-> k.waited]
    BY <1>0, <1>2 DEF OnSuccess, Circuit
  <2> QED BY <1>0, <1>2, <2>1, Fields, Thresholds DEF Sound, Circuit
<1> QED BY <1>1, <1>2

(* A failure opens a circuit or leaves its state and its successes. *)
LEMMA OnFailureSound ==
  ASSUME NEW h \in Hosts, NEW k, Sound(h, k)
  PROVE  LET new == OnFailure(h, k)
         IN /\ Sound(h, new)
            /\ \/ new.state = "OPEN"
               \/ new.state = k.state /\ new.successCount = k.successCount
<1> DEFINE count == Less(k.failureCount + 1, FailureThreshold[h])
<1>0. k \in Circuit(h)
  BY DEF Sound
<1>1. count \in 0 .. FailureThreshold[h]
  BY <1>0, Fields, Thresholds DEF Less
<1>2. CASE count = FailureThreshold[h]
  <2>1. OnFailure(h, k) = [state |-> "OPEN", failureCount |-> count,
                           successCount |-> k.successCount, waited |-> FALSE]
    BY <1>0, <1>2 DEF OnFailure, Circuit
  <2> HIDE DEF count
  <2> QED BY <1>0, <1>1, <2>1, Fields, Thresholds DEF Sound, Circuit
<1>3. CASE count # FailureThreshold[h]
  <2>1. OnFailure(h, k) = [state |-> k.state, failureCount |-> count,
                           successCount |-> k.successCount, waited |-> FALSE]
    BY <1>0, <1>3 DEF OnFailure, Circuit
  <2> HIDE DEF count
  <2> QED BY <1>0, <1>1, <2>1, Fields, Thresholds DEF Sound, Circuit
<1> QED BY <1>2, <1>3

LEMMA WaitedSound ==
  ASSUME NEW h \in Hosts, NEW k, Sound(h, k)
  PROVE  LET new == [k EXCEPT !.waited = TRUE]
         IN Sound(h, new) /\ new.state = k.state /\ new.successCount = k.successCount
BY Thresholds DEF Sound, Circuit

-----------------------------------------------------------------------------
(* Changes of the circuits. *)

LEMMA HomeIsHost ==
  ASSUME NEW c \in Calls
  PROVE  Home[c] \in Isolates /\ Home[c] \in Hosts /\ Home[c] # Object
BY BreakerConstants DEF Hosts

LEMMA MishapBounded ==
  ASSUME IInv, NEW n \in Nat, Mishap(n)
  PROVE  mishaps' \in 0 .. MaxMishaps
BY BreakerConstants DEF IInv, CallTypes, Mishap

LEMMA SavesSound ==
  ASSUME IInv, NEW k, Sound(Object, k), NEW answered \in BOOLEAN, Saves(k, answered),
         circuit'[Object] = k
  PROVE  Sound(Object, stored') /\ Kept' /\ mishaps' \in 0 .. MaxMishaps
<1> PICK saved \in BOOLEAN :
      /\ stored' = IF saved THEN k ELSE stored
      /\ unsaved' = ~saved
      /\ Mishap((IF saved THEN 0 ELSE 1) + (IF answered THEN 0 ELSE 1))
  BY DEF Saves
<1>1. Sound(Object, stored')
  BY DEF IInv, CircuitTypes
<1>2. (IF saved THEN 0 ELSE 1) + (IF answered THEN 0 ELSE 1) \in Nat
  OBVIOUS
<1>3. mishaps' \in 0 .. MaxMishaps
  BY <1>2, MishapBounded
<1>4. Kept'
  BY DEF Kept
<1> QED BY <1>1, <1>3, <1>4

(* How the entry of a host may change in a step, and what that may be        *)
(* judged by.                                                                *)
Becomes(h, reported, replaced) ==
  \/ circuit'[h] = circuit[h] /\ h \notin reported
  \/ circuit'[h] = Probes(circuit[h]) /\ h \notin reported
  \/ circuit'[h] = OnSuccess(h, circuit[h]) /\ h \in reported
  \/ circuit'[h] = OnFailure(h, circuit[h]) /\ h \notin reported
  \/ Sound(h, circuit'[h]) /\ h \in replaced

(* Whatever becomes of the entries in these ways, they stay sound and what   *)
(* they count stays backed.                                                  *)
LEMMA JudgedKeeps ==
  ASSUME IInv, NEW reported, NEW replaced \in SUBSET Hosts, Judges(reported, replaced),
         DOMAIN circuit' = Hosts, \A h \in Hosts : Becomes(h, reported, replaced)
  PROVE  (\A h \in Hosts : Sound(h, circuit'[h])) /\ Evidence'
<1>1. ASSUME NEW h \in Hosts PROVE Sound(h, circuit'[h])
  <2>1. Sound(h, circuit[h])
    BY DEF IInv, CircuitTypes
  <2> QED BY <2>1, ProbesSound, OnSuccessSound, OnFailureSound DEF Becomes
<1>2. /\ earned' = [h \in Hosts |->
                      IF circuit'[h].state = "OPEN" THEN 0
                      ELSE IF h \in reported THEN Less(earned[h] + 1, SuccessThreshold[h])
                      ELSE earned[h]]
      /\ renewed' = {h \in renewed \cup replaced : circuit'[h].state # "OPEN"}
  BY DEF Judges
<1>3. renewed' \subseteq Hosts
  BY <1>2 DEF IInv, Evidence
<1>4. ASSUME NEW h \in Hosts
      PROVE  Backed(circuit'[h], earned'[h], SuccessThreshold[h], h \in renewed')
  <2> DEFINE k == circuit[h]
             new == circuit'[h]
             t == SuccessThreshold[h]
             e == earned[h]
  <2>1. t \in Nat \ {0} /\ e \in 0 .. t /\ Sound(h, k) /\ Sound(h, new)
        /\ Backed(k, e, t, h \in renewed)
    BY <1>1, Thresholds DEF IInv, Evidence, CircuitTypes, Backed
  <2>2. k.state \in {"CLOSED", "OPEN", "HALF_OPEN"} /\ new.state \in {"CLOSED", "OPEN", "HALF_OPEN"}
        /\ k.successCount \in Nat /\ (k.state = "HALF_OPEN" => k.successCount < t)
    BY <2>1, Thresholds DEF Sound, Circuit
  <2>3. earned'[h] = IF new.state = "OPEN" THEN 0
                     ELSE IF h \in reported THEN Less(e + 1, t) ELSE e
    BY <1>2
  <2>4. h \in renewed' <=> new.state # "OPEN" /\ (h \in renewed \/ h \in replaced)
    BY <1>2
  <2>5. earned'[h] \in 0 .. t
    BY <2>1, <2>3 DEF Less
  <2>6. CASE h \in replaced
    BY <2>3, <2>4, <2>5, <2>6 DEF Backed
  <2>7. CASE new = k /\ h \notin reported
    BY <2>1, <2>3, <2>4, <2>5, <2>7 DEF Backed
  <2>8. CASE new = Probes(k) /\ h \notin reported
    <3>1. /\ k.state = "OPEN" => new.state = "HALF_OPEN" /\ new.successCount = 0
          /\ k.state # "OPEN" => new = k
      BY <2>1, <2>8, ProbesSound
    <3> QED BY <2>1, <2>3, <2>4, <2>5, <2>8, <3>1 DEF Backed
  <2>9. CASE new = OnSuccess(h, k) /\ h \in reported
    <3>1. /\ k.state # "HALF_OPEN" => new.state = k.state
          /\ k.state = "HALF_OPEN" =>
               /\ new.state \in {"HALF_OPEN", "CLOSED"}
               /\ new.successCount = k.successCount + 1
               /\ new.state = "CLOSED" => new.successCount = t
      BY <2>1, <2>9, OnSuccessSound
    <3> QED BY <2>1, <2>2, <2>3, <2>4, <2>5, <2>9, <3>1 DEF Backed, Less
  <2>10. CASE new = OnFailure(h, k) /\ h \notin reported
    <3>1. new.state = "OPEN" \/ (new.state = k.state /\ new.successCount = k.successCount)
      BY <2>1, <2>10, OnFailureSound
    <3> QED BY <2>1, <2>3, <2>4, <2>5, <2>10, <3>1 DEF Backed
  <2> QED BY <2>6, <2>7, <2>8, <2>9, <2>10 DEF Becomes
<1>5. earned' \in [Hosts -> Nat]
  <2>1. ASSUME NEW h \in Hosts PROVE earned'[h] \in Nat
    BY <1>4, Thresholds DEF Backed
  <2> QED BY <1>2, <2>1
<1> QED BY <1>1, <1>3, <1>4, <1>5 DEF Evidence

(* A report leaves every entry sound, wherever it is applied. *)
LEMMA AppliesKeeps ==
  ASSUME IInv, NEW i \in Hosts, NEW succeeded \in BOOLEAN, Applies(i, succeeded)
  PROVE  CircuitTypes' /\ Kept' /\ Evidence' /\ mishaps' \in 0 .. MaxMishaps
<1> DEFINE After(h) == IF succeeded THEN OnSuccess(h, circuit[h]) ELSE OnFailure(h, circuit[h])
<1> PICK told \in {{Object}, {Object, i}, {i}} :
      /\ circuit' = [h \in Hosts |-> IF h \in told THEN After(h) ELSE circuit[h]]
      /\ Judges(IF succeeded THEN told ELSE {}, {})
      /\ IF Object \in told THEN Saves(After(Object), i \notin told)
         ELSE Mishap(1) /\ UNCHANGED <<stored, unsaved>>
  BY DEF Applies
<1>0. Object \in Hosts
  BY DEF Hosts
<1>1. ASSUME NEW h \in Hosts PROVE Becomes(h, IF succeeded THEN told ELSE {}, {})
  BY DEF Becomes
<1>2. DOMAIN circuit' = Hosts
  OBVIOUS
<1>3. (\A h \in Hosts : Sound(h, circuit'[h])) /\ Evidence'
  BY <1>1, <1>2, JudgedKeeps
<1>4. CASE Object \in told
  <2>1. circuit'[Object] = After(Object) /\ Sound(Object, After(Object))
    BY <1>0, <1>3, <1>4
  <2>2. Saves(After(Object), i \notin told) /\ (i \notin told) \in BOOLEAN
    BY <1>4
  <2> HIDE DEF After
  <2>3. Sound(Object, stored') /\ Kept' /\ mishaps' \in 0 .. MaxMishaps
    BY <2>1, <2>2, SavesSound
  <2> QED BY <1>2, <1>3, <2>3 DEF CircuitTypes
<1>5. CASE Object \notin told
  <2>1. UNCHANGED <<stored, unsaved>> /\ circuit'[Object] = circuit[Object]
    BY <1>0, <1>5
  <2>2. mishaps' \in 0 .. MaxMishaps
    BY <1>5, MishapBounded
  <2> QED BY <1>2, <1>3, <2>1, <2>2 DEF CircuitTypes, Kept, IInv
<1> QED BY <1>4, <1>5
-----------------------------------------------------------------------------
(* The invariant. *)

LEMMA InitEstablishes == Init => IInv
<1> SUFFICES ASSUME Init PROVE IInv
  OBVIOUS
<1>1. DOMAIN circuit = Hosts /\ Object \in Hosts
  BY DEF Init, Hosts
<1>2. \A h \in Hosts : Sound(h, circuit[h])
  BY FreshSound DEF Init
<1>3. Sound(Object, stored)
  BY <1>1, FreshSound DEF Init
<1>4. Kept
  BY <1>1 DEF Init, Kept
<1>5. Evidence
  <2>1. ASSUME NEW h \in Hosts
        PROVE  Backed(circuit[h], earned[h], SuccessThreshold[h], h \in renewed)
    BY Thresholds DEF Init, Backed, Fresh
  <2>2. earned \in [Hosts -> Nat] /\ renewed \subseteq Hosts
    BY BreakerConstants DEF Init
  <2> QED BY <2>1, <2>2 DEF Evidence
<1> QED BY <1>1, <1>2, <1>3, <1>4, <1>5, BreakerConstants
        DEF IInv, CircuitTypes, CallTypes, Init, Stages

LEMMA CheckKeeps ==
  ASSUME IInv, NEW c \in Calls, Check(c)
  PROVE  IInv'
<1> DEFINE k == circuit[Object]
<1>0. Object \in Hosts /\ Sound(Object, k)
  BY DEF Hosts, IInv, CircuitTypes
<1>1. stage' \in [Calls -> Stages] /\ service' = service
  BY DEF Check, GoesTo, IInv, CallTypes, Stages
<1>2. CASE UNCHANGED <<circuit, stored, truth>> /\ mishaps' \in 0 .. MaxMishaps
  BY <1>1, <1>2 DEF IInv, CircuitTypes, Kept, Evidence, CallTypes, truth
<1>3. ASSUME NEW answered \in BOOLEAN, Saves(Probes(k), answered), Judges({}, {}),
             circuit' = [circuit EXCEPT ![Object] = Probes(k)]
      PROVE  IInv'
  <2>1. Sound(Object, Probes(k))
    BY <1>0, ProbesSound
  <2>2. DOMAIN circuit' = Hosts /\ circuit'[Object] = Probes(k)
    BY <1>0, <1>3 DEF IInv, CircuitTypes
  <2>3. Sound(Object, stored') /\ Kept' /\ mishaps' \in 0 .. MaxMishaps
    BY <1>3, <2>1, <2>2, SavesSound
  <2>4. ASSUME NEW h \in Hosts PROVE Becomes(h, {}, {})
    BY <1>3, <2>2 DEF IInv, CircuitTypes, Becomes
  <2>5. (\A h \in Hosts : Sound(h, circuit'[h])) /\ Evidence'
    BY <1>3, <2>2, <2>4, JudgedKeeps
  <2> QED BY <1>1, <2>2, <2>3, <2>5 DEF IInv, CircuitTypes, CallTypes
<1>4. Mishap(1) => mishaps' \in 0 .. MaxMishaps
  BY MishapBounded
<1>5. UNCHANGED mishaps => mishaps' \in 0 .. MaxMishaps
  BY DEF IInv, CallTypes
<1> QED BY <1>2, <1>3, <1>4, <1>5 DEF Check

(* An isolate probes or applies what its own run of an operation came to. *)
LEMMA IsolateKeeps ==
  ASSUME IInv, NEW i \in Isolates, NEW reported, Judges(reported, {}),
         NEW k, circuit' = [circuit EXCEPT ![i] = k],
         Becomes(i, reported, {}), reported \subseteq {i},
         UNCHANGED <<stored, unsaved>>
  PROVE  CircuitTypes' /\ Kept' /\ Evidence'
<1>0. i \in Hosts /\ Object \in Hosts /\ i # Object
  BY BreakerConstants DEF Hosts
<1>1. DOMAIN circuit' = Hosts /\ circuit'[Object] = circuit[Object]
  BY <1>0 DEF IInv, CircuitTypes
<1>2. ASSUME NEW h \in Hosts PROVE Becomes(h, reported, {})
  BY <1>0 DEF IInv, CircuitTypes, Becomes
<1>3. (\A h \in Hosts : Sound(h, circuit'[h])) /\ Evidence'
  BY <1>1, <1>2, JudgedKeeps
<1> QED BY <1>1, <1>3 DEF IInv, CircuitTypes, Kept

LEMMA FallsBackKeeps ==
  ASSUME IInv, NEW c \in Calls, FallsBack(c)
  PROVE  IInv'
<1> DEFINE i == Home[c]
<1>0. i \in Isolates /\ i \in Hosts
  BY HomeIsHost
<1>1. stage' \in [Calls -> Stages] /\ UNCHANGED <<stored, service, mishaps>>
  BY DEF FallsBack, GoesTo, IInv, CallTypes, Stages
<1>2. CASE UNCHANGED <<circuit, truth>>
  BY <1>1, <1>2 DEF IInv, CircuitTypes, Kept, Evidence, CallTypes, truth
<1>3. CASE /\ circuit' = [circuit EXCEPT ![i] = Probes(circuit[i])]
           /\ Judges({}, {}) /\ UNCHANGED unsaved
  <2> DEFINE reported == {}
             new == Probes(circuit[i])
  <2>1. Becomes(i, reported, {})
    BY <1>0, <1>3 DEF IInv, CircuitTypes, Becomes
  <2>2. reported \subseteq {i} /\ UNCHANGED <<stored, unsaved>>
    BY <1>1, <1>3
  <2>3. Judges(reported, {}) /\ circuit' = [circuit EXCEPT ![i] = new]
    BY <1>3
  <2> HIDE DEF i, reported, new
  <2>4. CircuitTypes' /\ Kept' /\ Evidence'
    BY <1>0, <2>1, <2>2, <2>3, IsolateKeeps
  <2> QED BY <1>1, <2>4 DEF IInv, CallTypes
<1> QED BY <1>2, <1>3 DEF FallsBack

LEMMA OperationEndsKeeps ==
  ASSUME IInv, NEW c \in Calls, NEW outcome \in {"success", "failure", "miss"},
         OperationEnds(c, outcome)
  PROVE  IInv'
<1> DEFINE i == Home[c]
           k == circuit[i]
           new == CASE outcome = "success" -> OnSuccess(i, k)
                    [] outcome = "failure" -> OnFailure(i, k)
                    [] OTHER -> k
           reported == IF outcome = "success" THEN {i} ELSE {}
<1>0. i \in Isolates /\ i \in Hosts
  BY HomeIsHost
<1>1. stage' \in [Calls -> Stages] /\ UNCHANGED <<stored, service, mishaps>>
  BY DEF OperationEnds, GoesTo, IInv, CallTypes, Stages
<1>2. CASE UNCHANGED <<circuit, truth>>
  BY <1>1, <1>2 DEF IInv, CircuitTypes, Kept, Evidence, CallTypes, truth
<1>3. CASE /\ circuit' = [circuit EXCEPT ![i] = new]
           /\ Judges(reported, {}) /\ UNCHANGED unsaved
  <2>1. circuit'[i] = new
    BY <1>0, <1>3 DEF IInv, CircuitTypes
  <2>2. Becomes(i, reported, {})
    BY <2>1 DEF Becomes
  <2>3. reported \subseteq {i}
    OBVIOUS
  <2> HIDE DEF i, new, reported
  <2>4. CircuitTypes' /\ Kept' /\ Evidence'
    BY <1>0, <1>1, <1>3, <2>2, <2>3, IsolateKeeps
  <2> QED BY <1>1, <2>4 DEF IInv, CallTypes
<1> QED BY <1>2, <1>3 DEF OperationEnds

LEMMA ReportsKeeps ==
  ASSUME IInv, NEW c \in Calls, Reports(c)
  PROVE  IInv'
<1>1. Home[c] \in Hosts
  BY HomeIsHost
<1>2. stage' \in [Calls -> Stages] /\ service' = service
  BY DEF Reports, GoesTo, IInv, CallTypes, Stages
<1>3. Applies(Home[c], TRUE) \/ Applies(Home[c], FALSE)
  BY DEF Reports
<1>4. CircuitTypes' /\ Kept' /\ Evidence' /\ mishaps' \in 0 .. MaxMishaps
  BY <1>1, <1>3, AppliesKeeps
<1> QED BY <1>2, <1>4 DEF IInv, CallTypes

LEMMA ResetKeeps ==
  ASSUME IInv, NEW i \in Isolates, Reset(i)
  PROVE  IInv'
<1>0. i \in Hosts /\ Object \in Hosts
  BY DEF Hosts
<1> PICK told \in {{Object}, {Object, i}, {i}} :
      /\ circuit' = [h \in Hosts |-> IF h \in told THEN Fresh(h) ELSE circuit[h]]
      /\ Judges({}, told)
      /\ IF Object \in told
         THEN \E saved \in BOOLEAN :
                /\ stored' = IF saved THEN Fresh(Object) ELSE stored
                /\ unsaved' = ~saved
         ELSE UNCHANGED <<stored, unsaved>>
  BY DEF Reset
<1>1. DOMAIN circuit' = Hosts /\ told \in SUBSET Hosts
  BY <1>0
<1>2. ASSUME NEW h \in Hosts PROVE Becomes(h, {}, told)
  BY FreshSound DEF Becomes
<1>3. (\A h \in Hosts : Sound(h, circuit'[h])) /\ Evidence'
  BY <1>1, <1>2, JudgedKeeps
<1>4. Sound(Object, stored') /\ Kept'
  BY <1>0, FreshSound DEF IInv, CircuitTypes, Kept
<1>5. mishaps' \in 0 .. MaxMishaps
  BY MishapBounded DEF Reset
<1> QED BY <1>1, <1>3, <1>4, <1>5 DEF Reset, IInv, CircuitTypes, CallTypes

(* Loads, evictions and the passing of time. *)
LEMMA AroundKeeps ==
  ASSUME IInv,
         \/ Loads \/ LoadFails \/ ServiceChanges
         \/ \E i \in Isolates : Evicted(i)
         \/ \E h \in Hosts : TimeoutPasses(h)
  PROVE  IInv'
<1>0. Object \in Hosts
  BY DEF Hosts
<1>1. CASE Loads
  <2> DEFINE replaced == IF unsaved THEN {Object} ELSE {}
  <2>1. /\ DOMAIN circuit' = Hosts /\ circuit'[Object] = stored /\ Sound(Object, stored)
        /\ \A h \in Hosts \ {Object} : circuit'[h] = circuit[h]
    BY <1>0, <1>1 DEF Loads, IInv, CircuitTypes
  <2>2. ASSUME NEW h \in Hosts PROVE Becomes(h, {}, replaced)
    BY <2>1 DEF Becomes, IInv, Kept
  <2>3. replaced \in SUBSET Hosts /\ Judges({}, replaced)
    BY <1>0, <1>1 DEF Loads
  <2> HIDE DEF replaced
  <2>4. (\A h \in Hosts : Sound(h, circuit'[h])) /\ Evidence'
    BY <2>1, <2>2, <2>3, JudgedKeeps
  <2> QED BY <1>1, <2>1, <2>4 DEF Loads, IInv, CircuitTypes, Kept, CallTypes
<1>2. CASE LoadFails
  <2>1. DOMAIN circuit' = Hosts /\ {Object} \in SUBSET Hosts
    BY <1>0, <1>2 DEF LoadFails, IInv, CircuitTypes
  <2>2. ASSUME NEW h \in Hosts PROVE Becomes(h, {}, {Object})
    BY <1>0, <1>2, FreshSound DEF LoadFails, Becomes, IInv, CircuitTypes
  <2>3. (\A h \in Hosts : Sound(h, circuit'[h])) /\ Evidence'
    BY <1>2, <2>1, <2>2, JudgedKeeps DEF LoadFails
  <2>4. mishaps' \in 0 .. MaxMishaps
    BY <1>2, MishapBounded DEF LoadFails
  <2> QED BY <1>2, <2>1, <2>3, <2>4 DEF LoadFails, IInv, CircuitTypes, Kept, CallTypes
<1>3. CASE ServiceChanges
  BY <1>3 DEF ServiceChanges, IInv, CircuitTypes, Kept, Evidence, CallTypes, truth
<1>4. ASSUME NEW i \in Isolates, Evicted(i) PROVE IInv'
  <2>0. i \in Hosts /\ i # Object
    BY BreakerConstants DEF Hosts
  <2>1. DOMAIN circuit' = Hosts /\ {i} \in SUBSET Hosts /\ circuit'[Object] = circuit[Object]
    BY <1>0, <1>4, <2>0 DEF Evicted, IInv, CircuitTypes
  <2>2. ASSUME NEW h \in Hosts PROVE Becomes(h, {}, {i})
    BY <1>4, <2>0, FreshSound DEF Evicted, Becomes, IInv, CircuitTypes
  <2>3. (\A h \in Hosts : Sound(h, circuit'[h])) /\ Evidence'
    BY <1>4, <2>1, <2>2, JudgedKeeps DEF Evicted
  <2>4. mishaps' \in 0 .. MaxMishaps
    BY <1>4, MishapBounded DEF Evicted
  <2>5. stage' \in [Calls -> Stages]
    BY <1>4 DEF Evicted, IInv, CallTypes, Stages
  <2> QED BY <1>4, <2>1, <2>3, <2>4, <2>5 DEF Evicted, IInv, CircuitTypes, Kept, CallTypes
<1>5. ASSUME NEW g \in Hosts, TimeoutPasses(g) PROVE IInv'
  <2> DEFINE waited == [circuit[g] EXCEPT !.waited = TRUE]
  <2>1. /\ Sound(g, waited) /\ waited.state = circuit[g].state
        /\ waited.successCount = circuit[g].successCount
    BY <1>5, WaitedSound DEF IInv, CircuitTypes
  <2>2. circuit' = [circuit EXCEPT ![g] = waited] /\ UNCHANGED truth
    BY <1>5 DEF TimeoutPasses
  <2> HIDE DEF waited
  <2>3. DOMAIN circuit' = Hosts /\ \A h \in Hosts : Sound(h, circuit'[h])
    BY <2>1, <2>2 DEF IInv, CircuitTypes
  <2>4. Sound(Object, stored') /\ Kept'
    <3>1. stored' = IF g = Object /\ stored = circuit[Object] THEN circuit'[Object] ELSE stored
      BY <1>5 DEF TimeoutPasses
    <3>2. g # Object => circuit'[Object] = circuit[Object]
      BY <2>2 DEF IInv, CircuitTypes
    <3>3. Sound(Object, stored')
      BY <1>0, <2>3, <3>1 DEF IInv, CircuitTypes
    <3>4. unsaved' = unsaved /\ Kept
      BY <2>2 DEF truth, IInv
    <3> HIDE DEF waited
    <3> QED BY <3>1, <3>2, <3>3, <3>4 DEF Kept
  <2>5. Evidence'
    <3>1. UNCHANGED <<earned, renewed>>
      BY <2>2 DEF truth
    <3>2. ASSUME NEW h \in Hosts
          PROVE  Backed(circuit[h], earned[h], SuccessThreshold[h], h \in renewed)'
      <4>1. /\ circuit'[h].state = circuit[h].state
            /\ circuit'[h].successCount = circuit[h].successCount
        BY <2>1, <2>2 DEF IInv, CircuitTypes
      <4>2. Backed(circuit[h], earned[h], SuccessThreshold[h], h \in renewed)
        BY DEF IInv, Evidence
      <4> QED BY <3>1, <4>1, <4>2 DEF Backed
    <3> QED BY <3>1, <3>2 DEF IInv, Evidence
  <2> QED BY <1>5, <2>3, <2>4, <2>5 DEF TimeoutPasses, IInv, CircuitTypes, CallTypes
<1> QED BY <1>1, <1>2, <1>3, <1>4, <1>5

LEMMA NextKeeps == IInv /\ [Next]_vars => IInv'
<1> SUFFICES ASSUME IInv, [Next]_vars PROVE IInv'
  OBVIOUS
<1>1. ASSUME NEW c \in Calls, Check(c) \/ FallsBack(c) \/ Reports(c) PROVE IInv'
  BY <1>1, CheckKeeps, FallsBackKeeps, ReportsKeeps
<1>2. ASSUME NEW c \in Calls, NEW outcome \in {"success", "failure", "miss"},
             OperationEnds(c, outcome)
      PROVE  IInv'
  BY <1>2, OperationEndsKeeps
<1>3. ASSUME NEW i \in Isolates, Reset(i) PROVE IInv'
  BY <1>3, ResetKeeps
<1>4. CASE \/ Loads \/ LoadFails \/ ServiceChanges
           \/ \E i \in Isolates : Evicted(i)
           \/ \E h \in Hosts : TimeoutPasses(h)
  BY <1>4, AroundKeeps
<1>5. CASE UNCHANGED vars
  BY <1>5 DEF vars, truth, IInv, CircuitTypes, Kept, Evidence, CallTypes
<1> QED BY <1>1, <1>2, <1>3, <1>4, <1>5 DEF Next

LEMMA Invariance == Spec => []IInv
BY InitEstablishes, NextKeeps, PTL DEF Spec

(* TypeOK, for every number of calls and isolates: in particular neither     *)
(* count ever passes its threshold.                                          *)
THEOREM TypeCorrect == Spec => []TypeOK
<1>1. IInv => TypeOK
  BY DEF IInv, CircuitTypes, Kept, Evidence, Backed, CallTypes, Sound, TypeOK, Stages
<1> QED BY <1>1, Invariance, PTL

(* ClosedIsEarned, for every number of calls and isolates and all            *)
(* thresholds, with any number of lost messages and failed saves: on the     *)
(* successes themselves, which no save, load or reset brings back.           *)
THEOREM ClosingIsEarned == Spec => []ClosedIsEarned
<1>1. IInv => ClosedIsEarned
  BY DEF IInv, Evidence, Backed, ClosedIsEarned
<1> QED BY <1>1, Invariance, PTL

(***************************************************************************)
(* The box on a customer's page                                            *)
(***************************************************************************)
FieldTypes == text \in Texts /\ container \in Streets \cup {NoStreet}
ListTypes ==
  /\ items \in Seq(Streets \cup Civics) /\ more \in Nat \ {1} /\ lastQuery \in Texts
  /\ listed \in Searches \cup {Nothing}
  /\ seq \in Nat /\ requests \subseteq Searches /\ owner \in Nat /\ strayed \in Nat
FormTypes ==
  /\ lookups \subseteq Civics /\ riding \in Civics \cup {Nothing}
  /\ chosen \in Civics \cup {Nothing} /\ raced \in BOOLEAN

(* A search for a page after the first that is not superseded. *)
Continuing == {r \in requests : r.seq = seq /\ r.page # 1}

Numbered ==
  /\ \A r \in requests : /\ r.seq \in 1 .. seq /\ r.page # 0
                         /\ r.seq = seq => (r.page = 1 <=> owner = seq)
  /\ \A r, q \in requests : r.seq = q.seq => r = q
  /\ owner <= seq /\ strayed <= seq
  /\ listed # Nothing => listed.seq <= seq /\ lastQuery = listed.text

(* The list is the first n pages of its answer, and a search that may still *)
(* continue it asks for the next one.                                       *)
UpTo(n) ==
  /\ items = FirstPages(listed, n) /\ more \in {0, NextPage(listed, n)}
  /\ \A r \in Continuing : /\ r.text = listed.text /\ r.container = listed.container
                           /\ r.page = n + 1 /\ n < PageCount(listed)

Lister ==
  /\ ~Astray => IF listed = Nothing THEN items = <<>> /\ more = 0 /\ Continuing = {}
                                    ELSE \E n \in 1 .. PageCount(listed) : UpTo(n)
  /\ listed # Nothing /\ ~Astray => listed.seq = owner \/ \E r \in requests : r.seq = owner /\ owner = seq

(* A street is left only for none or by a search in another one. *)
InStreet(r) == container = NoStreet \/ r.container = container
Streeted ==
  /\ listed # Nothing /\ ~Astray /\ seq = listed.seq => InStreet(listed)
  /\ \A r \in requests : r.seq = seq /\ r.page = 1 /\ strayed < seq => InStreet(r)

Formed ==
  chosen # Nothing =>
    /\ text = TextOf[chosen]
    /\ raced \/ lookups = {chosen} \/ (lookups = {} /\ riding = chosen)

ListInv == ListTypes /\ Numbered /\ Lister /\ Streeted
BoxInv == FieldTypes /\ ListInv /\ FormTypes /\ Formed

(* A page is what follows the pages before it. *)
LEMMA PagesJoin ==
  ASSUME NEW r \in Searches
  PROVE  /\ PageCount(r) \in Nat \ {0}
         /\ r.page = 1 => PageOf(r) = FirstPages(r, 1)
         /\ \A n \in 1 .. PageCount(r) - 1 :
              r.page = n + 1 => FirstPages(r, n) \o PageOf(r) = FirstPages(r, n + 1)
         /\ PageOf(r) \in Seq(Streets \cup Civics)
  <1> DEFINE s == ListOf(r)
             e == EndsOf(r)
  <1>1. <<r.text, r.container>> \in Questions
    BY DEF Searches, Questions
  <1>2. /\ s \in Seq(Streets \cup Civics) /\ e \in Seq(Nat) /\ e # <<>>
        /\ \A n \in 1 .. Len(e) : e[n] <= Len(s) /\ (n # Len(e) => e[n] <= e[n + 1])
    BY <1>1, WidgetConstants DEF ListOf, EndsOf
  <1>3. Len(e) \in Nat \ {0} /\ Len(s) \in Nat /\ \A n \in 1 .. Len(e) : e[n] \in Nat
    BY <1>2, LenProperties, EmptySeq, ElementOfSeq
  <1>4. r.page \in Nat
    BY DEF Searches
  <1>5. PageCount(r) = Len(e) /\ \A n : FirstPages(r, n) = SubSeq(s, 1, e[n])
    BY DEF PageCount, FirstPages
  <1>6. PageOf(r) = IF r.page \notin 1 .. Len(e) THEN <<>>
                    ELSE SubSeq(s, IF r.page = 1 THEN 1 ELSE e[r.page - 1] + 1, e[r.page])
    BY DEF PageOf, PageCount
  <1> HIDE DEF s, e
  <1>7. ASSUME NEW n \in 1 .. Len(e) - 1, r.page = n + 1
        PROVE  SubSeq(s, 1, e[n]) \o PageOf(r) = SubSeq(s, 1, e[n + 1])
    <2>1. PageOf(r) = SubSeq(s, e[n] + 1, e[n + 1])
      <3>1. r.page \in 1 .. Len(e) /\ r.page # 1 /\ r.page - 1 = n
        BY <1>3, <1>7
      <3> QED BY <1>6, <1>7, <3>1
    <2>2. /\ n \in 1 .. Len(e) /\ n + 1 \in 1 .. Len(e) /\ n # Len(e)
      BY <1>3
    <2>3. e[n] <= e[n + 1] /\ e[n + 1] <= Len(s) /\ e[n] \in Nat /\ e[n + 1] \in Nat
      BY <1>2, <1>3, <2>2
    <2>4. 1 \in 1 .. Len(s) + 1 /\ e[n] \in 1 - 1 .. Len(s) /\ e[n + 1] \in e[n] .. Len(s)
      BY <1>3, <2>3
    <2> QED BY <1>2, <2>1, <2>4, ConcatAdjacentSubSeq
  <1>8. PageOf(r) \in Seq(Streets \cup Civics)
    <2>1. CASE r.page \notin 1 .. Len(e)
      BY <1>6, <2>1
    <2>2. CASE r.page \in 1 .. Len(e)
      <3>1. PICK m : m = IF r.page = 1 THEN 1 ELSE e[r.page - 1] + 1
        OBVIOUS
      <3>2. m \in Nat \ {0}
        BY <1>3, <1>4, <2>2, <3>1
      <3>3. e[r.page] \in Nat /\ e[r.page] <= Len(s)
        BY <1>2, <1>3, <2>2
      <3>4. \A i \in m .. e[r.page] : s[i] \in Streets \cup Civics
        BY <1>2, <1>3, <3>2, <3>3, ElementOfSeq
      <3>5. SubSeq(s, m, e[r.page]) \in Seq(Streets \cup Civics)
        BY <3>2, <3>3, <3>4, SubSeqProperties
      <3> QED BY <1>6, <2>2, <3>1, <3>5
    <2> QED BY <2>1, <2>2
  <1>9. ASSUME r.page = 1 PROVE PageOf(r) = SubSeq(s, 1, e[1])
    BY <1>3, <1>6, <1>9
  <1> QED BY <1>3, <1>5, <1>7, <1>8, <1>9

(* Pages are those of the question, whoever asks it. *)
LEMMA SameQuestion ==
  ASSUME NEW r, NEW q, r.text = q.text, r.container = q.container
  PROVE  /\ PageCount(r) = PageCount(q)
         /\ \A n : FirstPages(r, n) = FirstPages(q, n) /\ NextPage(r, n) = NextPage(q, n)
  BY DEF PageCount, FirstPages, NextPage, ListOf, EndsOf

LEMMA NextPageType ==
  ASSUME NEW r \in Searches, NEW n \in Nat \ {0}
  PROVE  NextPage(r, n) \in Nat \ {1}
  BY DEF NextPage

LEMMA SearchKeeps ==
  ASSUME ListInv, NEW what \in Texts, NEW street \in Streets \cup {NoStreet},
         Search(what, street), container' = street
  PROVE  ListInv'
  <1>1. CASE what \in Short
    <2> DEFINE flying == \E r \in requests : r.seq = seq
    <2>1. /\ items' = <<>> /\ more' = 0 /\ listed' = Nothing
          /\ strayed' = (IF flying THEN seq ELSE strayed)
          /\ lastQuery' = lastQuery /\ seq' = seq /\ requests' = requests /\ owner' = owner
      BY <1>1 DEF Search, Strays, searching
    <2>2. strayed' \in Nat /\ strayed' <= seq
      BY <2>1 DEF ListInv, ListTypes, Numbered
    <2>3. ListTypes'
      BY <2>1, <2>2, EmptySeq DEF ListInv, ListTypes
    <2>4. Numbered'
      BY <2>1, <2>2 DEF ListInv, Numbered
    <2>5. Lister'
      <3>1. ASSUME ~Astray' PROVE Continuing' = {}
        <4>1. strayed' = 0
          BY <2>1, <2>2, <3>1 DEF Astray
        <4>2. ~flying
          BY <2>1, <4>1 DEF ListInv, ListTypes, Numbered
        <4> QED BY <2>1, <4>2 DEF Continuing
      <3> QED BY <2>1, <3>1 DEF Lister
    <2>6. Streeted'
      BY <2>1, <2>2 DEF ListInv, ListTypes, Streeted
    <2> QED BY <2>3, <2>4, <2>5, <2>6 DEF ListInv
  <1>2. CASE what \notin Short
    <2> DEFINE new == [seq |-> seq + 1, text |-> what, container |-> street, page |-> 1]
    <2>1. /\ seq' = seq + 1 /\ requests' = requests \cup {new} /\ owner' = seq + 1
          /\ items' = items /\ more' = more /\ lastQuery' = lastQuery /\ listed' = listed
          /\ strayed' = strayed
      BY <1>2 DEF Search, Sends, list
    <2>2. new \in Searches
      BY DEF Searches, ListInv, ListTypes
    <2>3. new.seq = seq + 1 /\ new.page = 1 /\ new.container = street
      OBVIOUS
    <2> HIDE DEF new
    <2>4. ListTypes'
      BY <2>1, <2>2 DEF ListInv, ListTypes
    <2>5. Numbered'
      <3>1. seq \in Nat /\ \A r \in requests : r.seq \in 1 .. seq /\ r.page # 0
        BY DEF ListInv, ListTypes, Numbered
      <3>2. /\ \A r \in requests' : /\ r.seq \in 1 .. seq' /\ r.page # 0
                                  /\ (r.seq = seq' => (r.page = 1 <=> owner' = seq'))
            /\ \A r, q \in requests' : r.seq = q.seq => r = q
        BY <2>1, <2>3, <3>1 DEF ListInv, Numbered
      <3>3. /\ owner' <= seq' /\ strayed' <= seq'
            /\ (listed' # Nothing => listed'.seq <= seq' /\ lastQuery' = listed'.text)
        BY <2>1, <3>1 DEF ListInv, ListTypes, Numbered, Searches
      <3> QED BY <3>2, <3>3 DEF Numbered
    <2>6. Continuing' = {}
      BY <2>1, <2>3 DEF ListInv, ListTypes, Numbered, Continuing
    <2>7. Lister'
      BY <2>1, <2>3, <2>6 DEF ListInv, Lister, Astray, UpTo
    <2>8. Streeted'
      BY <2>1, <2>3 DEF ListInv, ListTypes, Numbered, Streeted, InStreet, Searches
    <2> QED BY <2>4, <2>5, <2>7, <2>8 DEF ListInv
  <1> QED BY <1>1, <1>2

LEMMA MoreKeeps ==
  ASSUME ListInv, FieldTypes, LoadMore, more # 0, container' = container
  PROVE  ListInv'
  <1> DEFINE new == [seq |-> seq + 1, text |-> lastQuery, container |-> container, page |-> more]
  <1>1. /\ seq' = seq + 1 /\ requests' = requests \cup {new}
        /\ items' = items /\ more' = more /\ lastQuery' = lastQuery /\ listed' = listed
    BY DEF LoadMore, Sends, list
  <1>2. new \in Searches
    BY DEF Searches, ListInv, ListTypes, FieldTypes
  <1>3. /\ new.seq = seq + 1 /\ new.page = more /\ new.container = container
        /\ new.text = lastQuery
    OBVIOUS
  <1> HIDE DEF new
  <1>4. /\ owner' = IF listed = Nothing THEN owner ELSE listed.seq
        /\ strayed' = IF listed = Nothing \/ listed.container # container THEN seq + 1 ELSE strayed
    BY DEF LoadMore, Strays
  <1>5. seq \in Nat /\ more # 1 /\ (listed # Nothing => listed.seq \in Nat /\ listed.seq <= seq)
    BY DEF ListInv, ListTypes, Numbered, Searches
  <1>6. /\ owner' \in Nat /\ owner' <= seq
        /\ strayed' \in Nat /\ strayed' <= seq'
    BY <1>1, <1>4, <1>5 DEF ListInv, ListTypes, Numbered
  <1>7. ListTypes'
    BY <1>1, <1>2, <1>6 DEF ListInv, ListTypes
  <1>8. Numbered'
    BY <1>1, <1>3, <1>5, <1>6 DEF ListInv, ListTypes, Numbered
  <1>9. Continuing' = {new}
    BY <1>1, <1>3, <1>5 DEF ListInv, ListTypes, Numbered, Continuing
  <1>10. Lister'
    <2>1. ASSUME ~Astray'
          PROVE  listed # Nothing /\ listed.container = container /\ ~Astray /\ owner' = listed.seq
      BY <1>1, <1>4, <1>5, <2>1 DEF Astray
    <2>2. ASSUME ~Astray' PROVE \E n \in 1 .. PageCount(listed) : UpTo(n)'
      <3>1. PICK n \in 1 .. PageCount(listed) : UpTo(n)
        BY <2>1, <2>2 DEF ListInv, Lister
      <3>2. more = n + 1 /\ n < PageCount(listed)
        BY <3>1 DEF UpTo, NextPage
      <3>3. lastQuery = listed.text /\ listed.container = container
        BY <2>1, <2>2 DEF ListInv, Numbered
      <3>4. UpTo(n)'
        BY <1>1, <1>3, <1>9, <3>1, <3>2, <3>3 DEF UpTo
      <3> QED BY <3>4
    <2> QED BY <1>1, <2>1, <2>2 DEF Lister
  <1>11. Streeted'
    BY <1>1, <1>3, <1>5 DEF ListInv, ListTypes, Numbered, Streeted
  <1> QED BY <1>7, <1>8, <1>10, <1>11 DEF ListInv

(* Fewer searches, and the list as it was. *)
LEMMA FewerKeep ==
  ASSUME ListInv, NEW r \in requests, requests' = requests \ {r},
         r.seq # seq \/ r.page # 1,
         UNCHANGED <<items, more, lastQuery, listed, seq, owner, strayed, container>>
  PROVE  ListInv'
  <1>1. ListTypes' /\ Numbered' /\ Continuing' \subseteq Continuing
    BY DEF ListInv, ListTypes, Numbered, Continuing
  <1>2. Lister'
    <2>1. Astray' <=> Astray
      BY DEF Astray
    <2>2. ASSUME NEW n, UpTo(n) PROVE UpTo(n)'
      BY <1>1, <2>2 DEF UpTo
    <2>3. ASSUME NEW q \in requests, q.seq = owner, owner = seq PROVE q \in requests'
      <3>1. q.page = 1
        BY <2>3 DEF ListInv, Numbered
      <3> QED BY <2>3, <3>1
    <2>4. ASSUME ~Astray', listed' # Nothing PROVE \E n \in 1 .. PageCount(listed') : UpTo(n)'
      <3>1. PICK n \in 1 .. PageCount(listed) : UpTo(n)
        BY <2>1, <2>4 DEF ListInv, Lister
      <3>2. UpTo(n)'
        BY <2>2, <3>1
      <3> QED BY <3>2
    <2> QED BY <1>1, <2>1, <2>3, <2>4 DEF ListInv, Lister
  <1>3. Streeted'
    BY DEF ListInv, Streeted, InStreet, Astray
  <1> QED BY <1>1, <1>2, <1>3 DEF ListInv

LEMMA FirstAnswerKeeps ==
  ASSUME ListInv, NEW r \in requests, SearchAnswered(r), requests' = requests \ {r},
         UNCHANGED <<seq, owner, strayed, container>>
  PROVE  ListInv'
  <1>1. r \in Searches /\ r.page = 1 /\ r.seq = seq /\ seq \in Nat /\ r # Nothing
    BY WidgetConstants DEF ListInv, ListTypes, SearchAnswered, Superseded
  <1>2. /\ items' = FirstPages(r, 1) /\ items' \in Seq(Streets \cup Civics)
        /\ 1 \in 1 .. PageCount(r)
    BY <1>1, PagesJoin DEF SearchAnswered
  <1>3. more' = NextPage(r, 1) /\ more' \in Nat \ {1} /\ lastQuery' = r.text /\ listed' = r
    BY <1>1, NextPageType DEF SearchAnswered
  <1>4. r.text \in Texts
    BY <1>1 DEF Searches
  <1>5. ListTypes'
    BY <1>1, <1>2, <1>3, <1>4 DEF ListInv, ListTypes
  <1>6. Numbered' /\ Continuing' = {} /\ owner = seq
    BY <1>1, <1>3 DEF ListInv, Numbered, Continuing
  <1>7. Lister'
    <2>1. UpTo(1)'
      BY <1>2, <1>3, <1>6 DEF UpTo
    <2> QED BY <1>1, <1>2, <1>3, <1>6, <2>1 DEF Lister
  <1>8. Streeted'
    <2>1. \A q \in requests' : q.seq # seq
      BY <1>1 DEF ListInv, Numbered
    <2>2. ASSUME ~Astray' PROVE InStreet(r)'
      <3>1. strayed < seq
        BY <1>1, <1>3, <2>2 DEF Astray, ListInv, ListTypes
      <3> QED BY <1>1, <3>1 DEF ListInv, Streeted, InStreet
    <2> QED BY <1>3, <2>1, <2>2 DEF Streeted, InStreet
  <1> QED BY <1>5, <1>6, <1>7, <1>8 DEF ListInv

LEMMA PageAnswerKeeps ==
  ASSUME ListInv, NEW r \in requests, MoreAnswered(r), requests' = requests \ {r},
         UNCHANGED <<seq, owner, strayed, container>>
  PROVE  ListInv'
  <1>1. r \in Searches /\ r.page \in Nat /\ r.page # 1 /\ r.page # 0 /\ r.seq = seq /\ seq \in Nat
    BY DEF ListInv, ListTypes, Numbered, MoreAnswered, Superseded, Searches
  <1>2. /\ items' = items \o PageOf(r) /\ more' = NextPage(r, r.page)
        /\ lastQuery' = lastQuery /\ listed' = listed
    BY DEF MoreAnswered, Shows
  <1>3. items' \in Seq(Streets \cup Civics) /\ more' \in Nat \ {1}
    BY <1>1, <1>2, PagesJoin, NextPageType, ConcatProperties DEF ListInv, ListTypes
  <1>4. ListTypes'
    BY <1>2, <1>3 DEF ListInv, ListTypes
  <1>5. Numbered'
    BY <1>2 DEF ListInv, Numbered
  <1>6. r \in Continuing /\ Continuing' = {} /\ owner # seq
    BY <1>1 DEF ListInv, Numbered, Continuing
  <1>7. Lister'
    <2>1. ASSUME ~Astray' PROVE ~Astray /\ listed # Nothing
      BY <1>2, <1>6, <2>1 DEF Astray, ListInv, Lister
    <2>2. ASSUME ~Astray' PROVE \E n \in 1 .. PageCount(listed) : UpTo(n)'
      <3>1. PICK n \in 1 .. PageCount(listed) : UpTo(n)
        BY <2>1, <2>2 DEF ListInv, Lister
      <3>2. /\ r.text = listed.text /\ r.container = listed.container
            /\ r.page = n + 1 /\ n < PageCount(listed) /\ items = FirstPages(listed, n)
        BY <1>6, <3>1 DEF UpTo
      <3>3. PageCount(r) = PageCount(listed) /\ PageCount(r) \in Nat
        BY <1>1, <3>2, SameQuestion, PagesJoin
      <3>4. n \in 1 .. PageCount(r) - 1 /\ n + 1 \in 1 .. PageCount(listed)
        BY <3>2, <3>3
      <3>5. /\ FirstPages(r, n) \o PageOf(r) = FirstPages(r, n + 1)
        BY <1>1, <3>2, <3>4, PagesJoin
      <3>6. /\ FirstPages(r, n) = FirstPages(listed, n)
            /\ FirstPages(r, n + 1) = FirstPages(listed, n + 1)
            /\ NextPage(r, n + 1) = NextPage(listed, n + 1)
        BY <3>2, SameQuestion
      <3>7. UpTo(n + 1)'
        BY <1>2, <1>6, <3>2, <3>5, <3>6 DEF UpTo
      <3> QED BY <3>4, <3>7
    <2>3. ASSUME ~Astray' PROVE listed.seq = owner
      BY <1>6, <2>1, <2>3 DEF ListInv, Lister
    <2> QED BY <1>2, <2>1, <2>2, <2>3 DEF Lister
  <1>8. Streeted'
    BY <1>1, <1>2 DEF ListInv, Streeted, InStreet, Astray
  <1> QED BY <1>4, <1>5, <1>7, <1>8 DEF ListInv

LEMMA FailureKeeps ==
  ASSUME ListInv, NEW r \in requests, SearchFails(r), requests' = requests \ {r},
         UNCHANGED <<seq, owner, strayed, container>>
  PROVE  ListInv'
  <1>1. /\ r.seq = seq /\ items' = <<>> /\ more' = 0 /\ listed' = Nothing
        /\ lastQuery' = lastQuery
    BY DEF SearchFails, Superseded
  <1>2. ListTypes' /\ Numbered' /\ Continuing' = {}
    BY <1>1, EmptySeq DEF ListInv, ListTypes, Numbered, Continuing
  <1>3. Lister' /\ Streeted'
    BY <1>1, <1>2 DEF ListInv, Lister, Streeted, InStreet
  <1> QED BY <1>2, <1>3 DEF ListInv

LEMMA AnswersKeep ==
  ASSUME ListInv, Answers
  PROVE  ListInv'
  <1>1. PICK r \in requests :
          /\ \/ SearchAnswered(r) \/ MoreAnswered(r) \/ SearchFails(r) \/ MoreFails(r) \/ Outdated(r)
          /\ Answered(r) /\ UNCHANGED strayed
    BY DEF Answers
  <1>2. requests' = requests \ {r} /\ UNCHANGED <<seq, owner, strayed, container>>
    BY <1>1 DEF Answered, box
  <1>3. CASE MoreFails(r)
    <2>1. UNCHANGED <<items, more, lastQuery, listed>> /\ r.page # 1
      BY <1>3 DEF MoreFails, Shows
    <2> QED BY <1>2, <2>1, FewerKeep
  <1>4. CASE Outdated(r)
    <2>1. UNCHANGED <<items, more, lastQuery, listed>> /\ r.seq # seq
      BY <1>4 DEF Outdated, Superseded, list
    <2> QED BY <1>2, <2>1, FewerKeep
  <1> QED BY <1>1, <1>2, <1>3, <1>4, FirstAnswerKeeps, PageAnswerKeeps, FailureKeeps

(* Without a search, the last row may go and the street be left. *)
LEMMA ListStays ==
  ASSUME ListInv, UNCHANGED <<items, lastQuery, listed, seq, requests, owner, strayed>>,
         more' = more \/ more' = 0, container' = container \/ container' = NoStreet
  PROVE  ListInv'
  <1>1. ListTypes' /\ Numbered' /\ Continuing' = Continuing
    BY DEF ListInv, ListTypes, Numbered, Continuing
  <1>2. Lister'
    <2>1. Astray' <=> Astray
      BY DEF Astray
    <2>2. ASSUME NEW n, UpTo(n) PROVE UpTo(n)'
      BY <1>1, <2>2 DEF UpTo
    <2>3. ASSUME ~Astray', listed' # Nothing PROVE \E n \in 1 .. PageCount(listed') : UpTo(n)'
      <3>1. PICK n \in 1 .. PageCount(listed) : UpTo(n)
        BY <2>1, <2>3 DEF ListInv, Lister
      <3>2. UpTo(n)'
        BY <2>2, <3>1
      <3> QED BY <3>2
    <2> QED BY <1>1, <2>1, <2>3 DEF ListInv, Lister
  <1>3. Streeted'
    BY DEF ListInv, Streeted, InStreet, Astray
  <1> QED BY <1>1, <1>2, <1>3 DEF ListInv

(* An address is chosen, and looked up. *)
LEMMA ChoiceKeeps ==
  ASSUME BoxInv, NEW s \in Civics, SelectAddress(s)
  PROVE  BoxInv'
  <1>1. /\ text' = TextOf[s] /\ container' = NoStreet /\ more' = 0 /\ chosen' = s
        /\ lookups' = lookups \cup {s} /\ (raced' <=> lookups # {}) /\ riding' = riding
        /\ UNCHANGED <<items, lastQuery, listed, seq, requests, owner, strayed>>
    BY DEF SelectAddress, Writes, searching
  <1>2. ListInv'
    BY <1>1, ListStays DEF BoxInv
  <1>3. TextOf[s] \in Texts
    BY WidgetConstants
  <1>4. raced' \in BOOLEAN
    <2>1. PICK b \in BOOLEAN : b = (lookups # {})
      OBVIOUS
    <2> QED BY <2>1 DEF SelectAddress
  <1>5. FieldTypes' /\ FormTypes'
    BY <1>1, <1>3, <1>4 DEF BoxInv, FieldTypes, FormTypes
  <1>6. Formed'
    BY <1>1 DEF Formed
  <1> QED BY <1>2, <1>5, <1>6 DEF BoxInv

LEMMA StreetKeeps ==
  ASSUME BoxInv, NEW s \in Streets, SelectContainer(s)
  PROVE  BoxInv'
  <1>1. /\ text' = TextOf[s] /\ container' = s /\ chosen' = Nothing /\ Search(TextOf[s], s)
        /\ UNCHANGED <<lookups, riding, raced>>
    <2>1. text' = TextOf[s] /\ container' = s /\ Search(text', container')
      BY DEF SelectContainer, Writes
    <2> QED BY <2>1 DEF SelectContainer, Search, Sends
  <1>2. TextOf[s] \in Texts
    BY WidgetConstants
  <1>3. ListInv'
    BY <1>1, <1>2, SearchKeeps DEF BoxInv
  <1>4. FieldTypes' /\ FormTypes' /\ Formed'
    BY <1>1, <1>2 DEF BoxInv, FieldTypes, FormTypes, Formed
  <1> QED BY <1>3, <1>4 DEF BoxInv

LEMMA SelectKeeps ==
  ASSUME BoxInv, NEW i, Select(i)
  PROVE  BoxInv'
  <1>1. Len(items) \in Nat /\ i \in 1 .. RowCount
    BY LenProperties DEF BoxInv, ListInv, ListTypes, Select
  <1>2. CASE i > Len(items) /\ LoadMore /\ UNCHANGED <<box, timer, form>>
    <2>1. more # 0
      BY <1>1, <1>2 DEF RowCount
    <2>2. UNCHANGED <<text, container, lookups, riding, chosen, raced>>
      BY <1>2 DEF box, form
    <2>3. ListInv'
      BY <1>2, <2>1, <2>2, MoreKeeps DEF BoxInv
    <2> QED BY <2>2, <2>3 DEF BoxInv, FieldTypes, FormTypes, Formed
  <1>3. CASE i <= Len(items) /\ SelectContainer(items[i])
    BY <1>3, StreetKeeps DEF SelectContainer
  <1>4. CASE i <= Len(items) /\ SelectAddress(items[i])
    BY <1>4, ChoiceKeeps DEF SelectAddress
  <1> QED BY <1>2, <1>3, <1>4 DEF Select

LEMMA AnsweredRidingKeeps ==
  ASSUME BoxInv, NEW s \in Civics, RidingAnswered(s)
  PROVE  BoxInv'
  <1>1. /\ lookups' = lookups \ {s} /\ s \in lookups
        /\ \/ riding' = s /\ raced' = raced
           \/ raced' = TRUE /\ riding' = riding
        /\ UNCHANGED <<text, container, chosen>>
        /\ UNCHANGED <<items, more, lastQuery, listed, seq, requests, owner, strayed>>
    BY DEF RidingAnswered, box, list, searching
  <1>2. ListInv'
    BY <1>1, ListStays DEF BoxInv
  <1>3. FieldTypes' /\ FormTypes'
    BY <1>1 DEF BoxInv, FieldTypes, FormTypes
  <1>4. Formed'
    <2> SUFFICES ASSUME chosen # Nothing
                 PROVE  text' = TextOf[chosen] /\ (raced' \/ (lookups' = {} /\ riding' = chosen))
      BY <1>1 DEF Formed
    <2>1. text = TextOf[chosen] /\ (raced \/ lookups = {chosen} \/ lookups = {})
      BY DEF BoxInv, Formed
    <2> QED BY <1>1, <2>1
  <1> QED BY <1>2, <1>3, <1>4 DEF BoxInv

LEMMA BoxBegins == BoxInit => BoxInv
  <1> SUFFICES ASSUME BoxInit PROVE BoxInv
    OBVIOUS
  <1>1. ListTypes /\ FieldTypes /\ FormTypes /\ Formed
    <2>1. text \in Texts
      BY WidgetConstants DEF BoxInit
    <2>2. items \in Seq(Streets \cup Civics)
      BY EmptySeq DEF BoxInit
    <2>3. ListTypes
      BY <2>1, <2>2 DEF BoxInit, ListTypes
    <2>4. FieldTypes /\ FormTypes
      BY <2>1 DEF BoxInit, FieldTypes, FormTypes
    <2> QED BY <2>3, <2>4 DEF BoxInit, Formed
  <1>2. Numbered /\ Lister /\ Streeted
    BY DEF BoxInit, Numbered, Lister, Streeted, Continuing
  <1> QED BY <1>1, <1>2 DEF BoxInv, ListInv

LEMMA BoxGoesOn == BoxInv /\ [BoxNext]_boxVars => BoxInv'
  <1> SUFFICES ASSUME BoxInv, [BoxNext]_boxVars PROVE BoxInv'
    OBVIOUS
  <1> DEFINE Form == UNCHANGED <<text, lookups, riding, chosen, raced>>
             List == UNCHANGED <<items, more, lastQuery, listed, seq, requests, owner, strayed>>
  <1>1. ASSUME Form, container' = container, ListInv' PROVE BoxInv'
    BY <1>1 DEF BoxInv, FieldTypes, FormTypes, Formed
  <1>2. ASSUME Form, container' = container, List PROVE BoxInv'
    BY <1>1, <1>2, ListStays DEF BoxInv
  <1>3. text \in Texts /\ container \in Streets \cup {NoStreet}
    BY DEF BoxInv, FieldTypes
  <1>4. CASE User
    <2>1. ASSUME NEW what \in Texts, Types(what) PROVE BoxInv'
      <3>1. List /\ container' = NoStreet /\ text' = what /\ chosen' = Nothing
        BY <2>1 DEF Types, list, searching
      <3>2. ListInv'
        BY <3>1, ListStays DEF BoxInv
      <3> QED BY <2>1, <3>1, <3>2 DEF Types, BoxInv, FieldTypes, FormTypes, Formed
    <2>2. CASE ArrowOpens
      <3>1. Search(text, container) /\ Form /\ container' = container
        BY <2>2 DEF ArrowOpens, box, form
      <3> QED BY <1>1, <1>3, <3>1, SearchKeeps DEF BoxInv
    <2>3. CASE ArrowMoves
      BY <1>2, <2>3 DEF ArrowMoves, box, form, list, searching
    <2>4. CASE Enter
      BY <2>4, SelectKeeps DEF Enter
    <2>5. CASE Clicks
      BY <2>5, SelectKeeps DEF Clicks
    <2>6. CASE Escape
      BY <1>2, <2>6 DEF Escape, box, form, list, searching
    <2>7. CASE Leaves
      BY <1>2, <2>7 DEF Leaves, box, form, list, searching
    <2> QED BY <1>4, <2>1, <2>2, <2>3, <2>4, <2>5, <2>6, <2>7 DEF User
  <1>5. CASE Machine
    <2>1. CASE Debounced
      <3>1. Search(text, container) /\ Form /\ container' = container
        BY <2>1 DEF Debounced, box, form
      <3> QED BY <1>1, <1>3, <3>1, SearchKeeps DEF BoxInv
    <2>2. CASE Answers
      <3>1. Form /\ container' = container
        BY <2>2 DEF Answers, Answered, box, form
      <3> QED BY <1>1, <2>2, <3>1, AnswersKeep DEF BoxInv
    <2>3. CASE BlurCloses
      BY <1>2, <2>3 DEF BlurCloses, box, form, list, searching
    <2>4. CASE IndicatorShows
      BY <1>2, <2>4 DEF IndicatorShows, box, form, list, searching
    <2> QED BY <1>5, <2>1, <2>2, <2>3, <2>4 DEF Machine
  <1>6. CASE Lookup
    BY <1>6, AnsweredRidingKeeps DEF Lookup
  <1>7. CASE UNCHANGED boxVars
    BY <1>2, <1>7 DEF boxVars, box, list, searching, form
  <1> QED BY <1>4, <1>5, <1>6, <1>7 DEF BoxNext

(* Whatever is typed, chosen, left and continued, and in whatever order the *)
(* searches and the lookups end: a list that has not gone astray (the field *)
(* emptied under a search, a page asked for of a street that was left) is   *)
(* the first pages of one answer; the field holds the address chosen, and   *)
(* the riding shown is its own unless its lookup failed or met another one. *)
THEOREM TheBoxAgrees == BoxSpec => []BoxAgrees
  <1>1. BoxInv => BoxAgrees
    <2> SUFFICES ASSUME BoxInv PROVE BoxAgrees
      OBVIOUS
    <2>1. FormAgrees
      BY DEF BoxInv, Formed, FormAgrees
    <2>2. ListIsOneAnswer
      <3> SUFFICES ASSUME items # <<>>, ~Astray
                   PROVE  /\ listed # Nothing
                          /\ \E n \in 1 .. PageCount(listed) :
                               items = FirstPages(listed, n) /\ more \in {0, NextPage(listed, n)}
                          /\ listed.seq = owner \/ \E r \in requests : r.seq = owner
                          /\ seq = listed.seq /\ container # NoStreet => listed.container = container
        BY DEF ListIsOneAnswer
      <3>1. listed # Nothing
        BY DEF BoxInv, ListInv, Lister
      <3>2. PICK n \in 1 .. PageCount(listed) : UpTo(n)
        BY <3>1 DEF BoxInv, ListInv, Lister
      <3>3. items = FirstPages(listed, n) /\ more \in {0, NextPage(listed, n)}
        BY <3>2 DEF UpTo
      <3>4. listed.seq = owner \/ \E r \in requests : r.seq = owner
        BY <3>1 DEF BoxInv, ListInv, Lister
      <3>5. seq = listed.seq /\ container # NoStreet => listed.container = container
        BY <3>1 DEF BoxInv, ListInv, Streeted, InStreet
      <3> QED BY <3>1, <3>3, <3>4, <3>5
    <2> QED BY <2>1, <2>2 DEF BoxAgrees
  <1> QED BY <1>1, BoxBegins, BoxGoesOn, PTL DEF BoxSpec

(***************************************************************************)
(* The change of partitions                                                *)
(***************************************************************************)
Contents == [Guids -> Rows \cup {Gone}]
Values == SUBSET (Guids \X (Rows \cup {Gone}))
RowChanges == [guid : Guids, before : Rows \cup {Gone}, after : Rows \cup {Gone}]
Recomputations == [key : Aggregates, value : Values]

(* Where a plan takes the province. *)
Target(p) ==
  [g \in Guids |-> IF Within(p.from[g], p.parts) \/ Within(p.to[g], p.parts) THEN p.to[g] ELSE p.from[g]]

Setting(p, n, g) == IsChange(p.batches[n]) /\ p.batches[n].guid = g
Summing(p, n, key) == ~IsChange(p.batches[n]) /\ p.batches[n].key = key

(* Every batch takes something there, and there is one for whatever is to   *)
(* be changed.                                                              *)
GoodPlan(p) ==
  /\ p.from \in Contents /\ p.to \in Contents
  /\ p.batches \in Seq(RowChanges \cup Recomputations)
  /\ \A n \in DOMAIN p.batches :
       IF IsChange(p.batches[n])
       THEN p.batches[n].guid \in Guids /\ p.batches[n].after = Target(p)[p.batches[n].guid]
       ELSE p.batches[n].key \in Aggregates
            /\ p.batches[n].value = Summary(Target(p), p.batches[n].key)
  /\ \A g \in Guids : Target(p)[g] # p.from[g] => \E n \in DOMAIN p.batches : Setting(p, n, g)
  /\ \A key \in Aggregates : Summary(Target(p), key) # Summary(p.from, key) =>
       \E n \in DOMAIN p.batches : Summing(p, n, key)

DeltaTypes ==
  /\ table \in Contents /\ sums = [key \in Aggregates |-> sums[key]]
  /\ file \in Checkpoints \cup {NoFile}
  /\ writer \in {"none", "next", "receipt", "apply", "crashed"}
  /\ sent \in [reads : Nat, writes : Nat]

Planned ==
  /\ plan # NoPlan => GoodPlan(plan) /\ applied \in [DOMAIN plan.batches -> Nat]
  /\ file # NoFile => plan # NoPlan
  /\ writer # "none" => file # NoFile /\ ~file.complete
  /\ file = NoFile =>
       /\ \A key \in Aggregates : sums[key] = Summary(table, key)
       /\ sent = [reads |-> 0, writes |-> 0]
       /\ plan # NoPlan => table = plan.from /\ \A n \in DOMAIN plan.batches : applied[n] = 0

(* What took effect is in the tables, and nothing else. *)
Landed ==
  file # NoFile =>
    /\ \A g \in Guids :
         table[g] = IF \E n \in DOMAIN plan.batches : Setting(plan, n, g) /\ applied[n] > 0
                    THEN Target(plan)[g] ELSE plan.from[g]
    /\ \A key \in Aggregates :
         sums[key] = Summary(IF \E n \in DOMAIN plan.batches : Summing(plan, n, key) /\ applied[n] > 0
                             THEN Target(plan) ELSE plan.from, key)

(* The batches took effect in order, the current one perhaps. *)
InTurn ==
  file # NoFile =>
    /\ file.done <= Len(plan.batches)
    /\ \A n \in DOMAIN plan.batches : /\ applied[n] <= 1
                                      /\ n <= file.done => applied[n] = 1
                                      /\ n > file.done + 1 => applied[n] = 0
    /\ writer \in {"receipt", "apply"} => file.done < Len(plan.batches)
    /\ writer = "apply" => applied[file.done + 1] = 0
    /\ file.complete => file.done = Len(plan.batches)

Reserved ==
  file # NoFile =>
    /\ sent.reads <= file.reads /\ file.reads <= ReadsCeiling
    /\ sent.writes <= file.writes /\ file.writes <= WritesCeiling

DeltaInv == DeltaTypes /\ Planned /\ Landed /\ InTurn /\ Reserved

(* A finite set as a sequence has each of its elements. *)
LEMMA SetToSeqFacts ==
  ASSUME NEW S, IsFiniteSet(S)
  PROVE  /\ SetToSeq(S) \in Seq(S)
         /\ \A x \in S : \E n \in DOMAIN SetToSeq(S) : SetToSeq(S)[n] = x
  <1>1. PICK n : n = Cardinality(S)
    OBVIOUS
  <1>2. n \in Nat /\ ExistsBijection(1 .. n, S)
    BY <1>1, FS_CardinalityType
  <1>3. PICK f \in Bijection(1 .. n, S) : TRUE
    BY <1>2 DEF ExistsBijection
  <1>4. f \in [1 .. n -> S] /\ IsInjective(f)
    BY <1>3 DEF Bijection, Injection, IsInjective
  <1>5. PICK s : s = SetToSeq(S)
    OBVIOUS
  <1>6. s \in [1 .. n -> S] /\ IsInjective(s)
    BY <1>1, <1>4, <1>5 DEF SetToSeq
  <1>7. s \in Injection(1 .. n, S)
    BY <1>6 DEF Injection, IsInjective
  <1>8. Cardinality(1 .. n) = n
    <2>1. 1 \in Int /\ n \in Int
      BY <1>2
    <2> QED BY <1>2, <2>1, FS_Interval
  <1>9. s \in Surjection(1 .. n, S)
    BY <1>1, <1>7, <1>8, FS_Injection
  <1>10. s \in Seq(S)
    BY <1>2, <1>6, SeqDef
  <1>11. \A x \in S : \E i \in DOMAIN s : s[i] = x
    BY <1>6, <1>9 DEF Surjection
  <1> QED BY <1>5, <1>10, <1>11

ListsBoth(u, S, T) ==
  /\ u \in Seq(S \cup T)
  /\ \A n \in DOMAIN u : u[n] \in S \/ u[n] \in T
  /\ \A x \in S \cup T : \E n \in DOMAIN u : u[n] = x

LEMMA BothInTurn ==
  ASSUME NEW S, NEW T, IsFiniteSet(S), IsFiniteSet(T)
  PROVE  ListsBoth(SetToSeq(S) \o SetToSeq(T), S, T)
  <1>1. PICK s : s = SetToSeq(S)
    OBVIOUS
  <1>2. PICK t : t = SetToSeq(T)
    OBVIOUS
  <1> DEFINE u == s \o t
  <1>3. /\ s \in Seq(S) /\ (\A x \in S : \E n \in DOMAIN s : s[n] = x)
        /\ t \in Seq(T) /\ (\A x \in T : \E n \in DOMAIN t : t[n] = x)
    BY <1>1, <1>2, SetToSeqFacts
  <1>4. s \in Seq(S \cup T) /\ t \in Seq(S \cup T)
    BY <1>3, SeqDef
  <1>5. /\ u \in Seq(S \cup T) /\ Len(u) = Len(s) + Len(t)
        /\ \A i \in 1 .. Len(s) + Len(t) : u[i] = IF i <= Len(s) THEN s[i] ELSE t[i - Len(s)]
    BY <1>4, ConcatProperties
  <1>6. /\ Len(s) \in Nat /\ Len(t) \in Nat /\ DOMAIN s = 1 .. Len(s) /\ DOMAIN t = 1 .. Len(t)
        /\ DOMAIN u = 1 .. Len(s) + Len(t)
    BY <1>4, <1>5, LenProperties
  <1> HIDE DEF u
  <1>7. \A n \in DOMAIN u : u[n] \in S \cup T
    BY <1>5, <1>6, ElementOfSeq
  <1>8. \A i \in DOMAIN s : i \in DOMAIN u /\ u[i] = s[i]
    BY <1>5, <1>6
  <1>9. \A i \in DOMAIN t : i + Len(s) \in DOMAIN u /\ u[i + Len(s)] = t[i]
    <2> TAKE i \in DOMAIN t
    <2>1. i \in Nat /\ i >= 1 /\ i <= Len(t)
      BY <1>6
    <2>2. /\ i + Len(s) \in 1 .. Len(s) + Len(t) /\ ~(i + Len(s) <= Len(s))
          /\ i + Len(s) - Len(s) = i
      BY <1>6, <2>1
    <2> QED BY <1>5, <1>6, <2>2
  <1>10. \A x \in S \cup T : \E n \in DOMAIN u : u[n] = x
    BY <1>3, <1>8, <1>9
  <1>11. ListsBoth(u, S, T)
    BY <1>5, <1>7, <1>10 DEF ListsBoth
  <1> QED BY <1>1, <1>2, <1>11 DEF u

LEMMA PlansAreGood ==
  ASSUME table \in Contents, NEW next \in Contents, NEW parts, NEW source,
         source.rows = next, ~ComesFromOutside(source, parts),
         NEW p, p.from = table, p.to = next, p.parts = parts,
         p.batches = BatchesOf(Changes(source, parts))
  PROVE  GoodPlan(p)
  <1> DEFINE To(g) == [guid |-> g, before |-> table[g], after |-> next[g]]
  <1>1. PICK changes : changes = Changes(source, parts)
    OBVIOUS
  <1>2. PICK target : target = Target(p)
    OBVIOUS
  <1>3. /\ target \in Contents
        /\ \A g \in Guids : target[g] = IF Within(table[g], parts) \/ Within(next[g], parts)
                                        THEN next[g] ELSE table[g]
    BY <1>2 DEF Target, Contents
  <1>4. PICK moved : moved = {g \in Guids : target[g] # table[g]}
    OBVIOUS
  <1>5. changes = {To(g) : g \in moved} /\ \A g \in moved : target[g] = next[g]
    <2>1. \A g \in Guids : table[g] # Gone /\ Within(next[g], parts) => Within(table[g], parts)
      BY DEF ComesFromOutside
    <2>2. ASSUME NEW g \in Guids
          PROVE  g \in moved <=> /\ table[g] # next[g]
                                 /\ Within(IF table[g] = Gone THEN next[g] ELSE table[g], parts)
      BY <1>3, <1>4, <2>1 DEF Within
    <2>3. moved = {h \in Guids : /\ table[h] # next[h]
                                /\ Within(IF table[h] = Gone THEN next[h] ELSE table[h], parts)}
      BY <1>4, <2>2
    <2>4. changes = {To(g) : g \in moved}
      BY <1>1, <2>3 DEF Changes
    <2> QED BY <1>3, <1>4, <2>4
  <1>6. \A c \in changes : c \in RowChanges /\ c.guid \in moved /\ c = To(c.guid)
    BY <1>4, <1>5 DEF RowChanges, Contents
  <1>7. Resulting(changes) = target
    <2>1. ASSUME NEW g \in Guids
          PROVE  Resulting(changes)[g] = target[g]
      <3>1. CASE g \in moved
        <4>1. To(g) \in changes /\ \A c \in changes : c.guid = g => c = To(g)
          BY <1>5, <1>6, <3>1
        <4>2. (CHOOSE c \in changes : c.guid = g) = To(g)
          BY <4>1
        <4> QED BY <1>5, <3>1, <4>1, <4>2 DEF Resulting
      <3>2. CASE g \notin moved
        <4>1. ~\E c \in changes : c.guid = g
          BY <1>6, <3>2
        <4> QED BY <1>4, <3>2, <4>1 DEF Resulting
      <3> QED BY <3>1, <3>2
    <2>2. Resulting(changes) = [g \in Guids |-> Resulting(changes)[g]]
      BY DEF Resulting
    <2> QED BY <1>3, <2>1, <2>2 DEF Contents
  <1> DEFINE Sum(key) == [key |-> key, value |-> Summary(target, key)]
  <1>8. PICK touched : touched = Recomputed(changes)
    OBVIOUS
  <1>9. touched \subseteq Aggregates
    BY <1>6, <1>8 DEF Recomputed, Groups, Aggregates, RowChanges
  <1>10. ASSUME NEW key \in Aggregates, Summary(target, key) # Summary(table, key)
         PROVE  key \in touched
    <2>1. PICK g \in Guids : (key \in Groups(target[g]) /\ ~(key \in Groups(table[g]) /\ target[g] = table[g]))
                         \/ (key \in Groups(table[g]) /\ ~(key \in Groups(target[g]) /\ target[g] = table[g]))
      BY <1>10 DEF Summary
    <2>2. g \in moved
      BY <1>4, <2>1
    <2>3. To(g) \in changes /\ target[g] = next[g]
      BY <1>5, <2>2
    <2>4. key \in Groups(To(g).before) \cup Groups(To(g).after)
      BY <2>1, <2>3
    <2> QED BY <1>8, <2>3, <2>4 DEF Recomputed
  <1>11. IsFiniteSet(changes)
    <2>1. IsFiniteSet(moved)
      BY <1>4, DeltaConstants, FS_Subset
    <2>2. PICK f : f = [g \in moved |-> To(g)]
      OBVIOUS
    <2>3. changes = {f[g] : g \in moved}
      BY <1>5, <2>2
    <2> QED BY <2>1, <2>3, ImageIsFinite
  <1>12. PICK totals : totals = {Sum(key) : key \in touched}
    OBVIOUS
  <1>13. IsFiniteSet(totals)
    <2>1. IsFiniteSet(touched)
      BY <1>9, DeltaConstants, FS_Subset
    <2>2. PICK f : f = [key \in touched |-> Sum(key)]
      OBVIOUS
    <2>3. totals = {f[key] : key \in touched}
      BY <1>12, <2>2
    <2> QED BY <2>1, <2>3, ImageIsFinite
  <1>14. p.batches = SetToSeq(changes) \o SetToSeq(totals)
    BY <1>1, <1>7, <1>8, <1>12 DEF BatchesOf
  <1>15. \A x \in totals : x \in Recomputations /\ x.value = Summary(target, x.key)
    <2>1. \A key : Summary(target, key) \in Values
      BY <1>3 DEF Summary, Values, Contents
    <2> QED BY <1>9, <1>12, <2>1 DEF Recomputations
  <1>16. (\A c \in changes : IsChange(c)) /\ (\A x \in totals : ~IsChange(x))
    BY <1>6, <1>12 DEF IsChange
  <1> HIDE DEF To, Sum
  <1>17. /\ p.batches \in Seq(changes \cup totals)
         /\ \A n \in DOMAIN p.batches : p.batches[n] \in changes \/ p.batches[n] \in totals
         /\ \A c \in changes : \E n \in DOMAIN p.batches : p.batches[n] = c
         /\ \A x \in totals : \E n \in DOMAIN p.batches : p.batches[n] = x
    <2>1. ListsBoth(p.batches, changes, totals)
      BY <1>11, <1>13, <1>14, BothInTurn
    <2> QED BY <2>1 DEF ListsBoth
  <1>18. p.batches \in Seq(RowChanges \cup Recomputations)
    BY <1>6, <1>15, <1>17, SeqDef
  <1> USE DEF To, Sum
  <1>19. ASSUME NEW n \in DOMAIN p.batches
         PROVE  IF IsChange(p.batches[n])
                THEN p.batches[n].guid \in Guids /\ p.batches[n].after = target[p.batches[n].guid]
                ELSE p.batches[n].key \in Aggregates
                     /\ p.batches[n].value = Summary(target, p.batches[n].key)
    <2>1. PICK b : b = p.batches[n]
      OBVIOUS
    <2>2. CASE b \in changes
      <3>1. b.guid \in moved /\ b.after = next[b.guid] /\ IsChange(b)
        BY <1>6, <1>16, <2>2
      <3> QED BY <1>4, <1>5, <2>1, <3>1
    <2>3. CASE b \in totals
      BY <1>15, <1>16, <2>1, <2>3 DEF Recomputations
    <2> QED BY <1>17, <2>1, <2>2, <2>3
  <1>20. ASSUME NEW g \in Guids, target[g] # table[g]
         PROVE  \E n \in DOMAIN p.batches : Setting(p, n, g)
    <2>1. To(g) \in changes /\ To(g).guid = g
      BY <1>4, <1>5, <1>20
    <2>2. PICK n \in DOMAIN p.batches : p.batches[n] = To(g)
      BY <1>17, <2>1
    <2> QED BY <1>16, <2>1, <2>2 DEF Setting
  <1>21. ASSUME NEW key \in Aggregates, Summary(target, key) # Summary(table, key)
         PROVE  \E n \in DOMAIN p.batches : Summing(p, n, key)
    <2>1. Sum(key) \in totals /\ Sum(key).key = key
      BY <1>10, <1>12, <1>21
    <2>2. PICK n \in DOMAIN p.batches : p.batches[n] = Sum(key)
      BY <1>17, <2>1
    <2> QED BY <1>16, <2>1, <2>2 DEF Summing
  <1> QED BY <1>2, <1>18, <1>19, <1>20, <1>21 DEF GoodPlan

LEMMA PlanLength ==
  ASSUME plan # NoPlan, Planned
  PROVE  /\ Len(plan.batches) \in Nat /\ DOMAIN plan.batches = 1 .. Len(plan.batches)
         /\ \A n \in DOMAIN plan.batches : n \in Nat \ {0} /\ n <= Len(plan.batches) /\ applied[n] \in Nat
  <1>1. GoodPlan(plan) /\ applied \in [DOMAIN plan.batches -> Nat]
    BY DEF Planned
  <1>2. plan.batches \in Seq(RowChanges \cup Recomputations)
    BY <1>1 DEF GoodPlan
  <1>3. Len(plan.batches) \in Nat /\ DOMAIN plan.batches = 1 .. Len(plan.batches)
    BY <1>2, LenProperties
  <1> QED BY <1>1, <1>3

(* Once every batch took effect, the tables are where the plan takes them. *)
LEMMA Finished ==
  ASSUME DeltaTypes, Planned, Landed, InTurn, file # NoFile, file.complete
  PROVE  /\ \A g \in Guids : table[g] = Target(plan)[g]
         /\ \A key \in Aggregates : sums[key] = Summary(table, key)
  <1>1. plan # NoPlan /\ GoodPlan(plan)
    BY DEF Planned
  <1>2. \A n \in DOMAIN plan.batches : applied[n] > 0
    <2> TAKE n \in DOMAIN plan.batches
    <2>1. n <= file.done
      BY <1>1, PlanLength DEF InTurn
    <2> QED BY <2>1 DEF InTurn
  <1>3. \A g \in Guids : table[g] = Target(plan)[g]
    BY <1>1, <1>2 DEF Landed, GoodPlan
  <1>4. PICK target : target = Target(plan)
    OBVIOUS
  <1>5. target \in Contents /\ table \in Contents
    BY <1>1, <1>4 DEF Target, GoodPlan, Contents, DeltaTypes
  <1>6. table = target
    BY <1>3, <1>4, <1>5 DEF Contents
  <1>7. ASSUME NEW key \in Aggregates PROVE sums[key] = Summary(target, key)
    <2>1. CASE Summary(target, key) = Summary(plan.from, key)
      BY <1>4, <2>1 DEF Landed
    <2>2. CASE Summary(target, key) # Summary(plan.from, key)
      <3>1. \E n \in DOMAIN plan.batches : Summing(plan, n, key)
        BY <1>1, <1>4, <2>2 DEF GoodPlan
      <3> QED BY <1>2, <1>4, <3>1 DEF Landed
    <2> QED BY <2>1, <2>2
  <1> QED BY <1>3, <1>6, <1>7

LEMMA BatchIs ==
  ASSUME plan # NoPlan, Planned, NEW n \in DOMAIN plan.batches
  PROVE  IF IsChange(plan.batches[n])
         THEN /\ plan.batches[n].guid \in Guids
              /\ plan.batches[n].after = Target(plan)[plan.batches[n].guid]
         ELSE /\ plan.batches[n].key \in Aggregates
              /\ plan.batches[n].value = Summary(Target(plan), plan.batches[n].key)
  BY DEF Planned, GoodPlan

(* What a batch that takes effect for the first time changes. *)
LEMMA CommitLands ==
  ASSUME DeltaInv, file # NoFile, UNCHANGED plan, Current \in DOMAIN plan.batches,
         applied[Current] = 0, Commits, NEW f, file' = f, f # NoFile
  PROVE  /\ Landed'
         /\ table' \in Contents /\ sums' = [key \in Aggregates |-> sums'[key]]
         /\ applied' = [applied EXCEPT ![Current] = 1]
         /\ applied' \in [DOMAIN plan.batches -> Nat]
  <1> DEFINE B == plan.batches
  <1>1. PICK c : c = Current
    OBVIOUS
  <1>2. PICK b : b = B[c]
    OBVIOUS
  <1>3. PICK target : target = Target(plan)
    OBVIOUS
  <1>4. /\ plan # NoPlan /\ GoodPlan(plan) /\ applied \in [DOMAIN B -> Nat] /\ c \in DOMAIN B
        /\ applied[c] = 0
    BY <1>1 DEF DeltaInv, Planned
  <1>5. applied' = [applied EXCEPT ![c] = 1] /\ applied' \in [DOMAIN B -> Nat]
    BY <1>1, <1>4 DEF Commits
  <1>6. \A n \in DOMAIN B : applied'[n] > 0 <=> applied[n] > 0 \/ n = c
    BY <1>4, <1>5
  <1>7. IF IsChange(b) THEN b.guid \in Guids /\ b.after = target[b.guid]
        ELSE b.key \in Aggregates /\ b.value = Summary(target, b.key)
    BY <1>2, <1>3, <1>4, BatchIs DEF DeltaInv
  <1>8. \A g : Setting(plan, c, g) <=> IsChange(b) /\ b.guid = g
    BY <1>2 DEF Setting
  <1>9. \A key : Summing(plan, c, key) <=> ~IsChange(b) /\ b.key = key
    BY <1>2 DEF Summing
  <1>10. \A n, g : Setting(plan', n, g) <=> Setting(plan, n, g)
    BY DEF Setting
  <1>11. \A n, key : Summing(plan', n, key) <=> Summing(plan, n, key)
    BY DEF Summing
  <1> DEFINE Set(g) == \E n \in DOMAIN B : Setting(plan, n, g) /\ applied[n] > 0
             Summed(key) == \E n \in DOMAIN B : Summing(plan, n, key) /\ applied[n] > 0
  <1>12. \A g \in Guids : table[g] = IF Set(g) THEN target[g] ELSE plan.from[g]
    BY <1>3 DEF DeltaInv, Landed
  <1>13. \A key \in Aggregates : sums[key] = Summary(IF Summed(key) THEN target ELSE plan.from, key)
    BY <1>3 DEF DeltaInv, Landed
  <1>14. \A g : (\E n \in DOMAIN B : Setting(plan, n, g) /\ applied'[n] > 0)
                   <=> Set(g) \/ (IsChange(b) /\ b.guid = g)
    BY <1>4, <1>6, <1>8
  <1>15. \A key : (\E n \in DOMAIN B : Summing(plan, n, key) /\ applied'[n] > 0)
                     <=> Summed(key) \/ (~IsChange(b) /\ b.key = key)
    BY <1>4, <1>6, <1>9
  <1>16. /\ IF IsChange(b) THEN table' = [table EXCEPT ![b.guid] = b.after] /\ sums' = sums
            ELSE sums' = [sums EXCEPT ![b.key] = b.value] /\ table' = table
    BY <1>1, <1>2 DEF Commits
  <1>17. /\ table \in Contents /\ sums = [key \in Aggregates |-> sums[key]]
         /\ target \in Contents
    BY <1>3, <1>4 DEF DeltaInv, DeltaTypes, Target, GoodPlan, Contents
  <1>18. table' \in Contents /\ sums' = [key \in Aggregates |-> sums'[key]]
    BY <1>7, <1>16, <1>17 DEF Contents
  <1>19. \A g \in Guids : table'[g] = IF Set(g) \/ (IsChange(b) /\ b.guid = g) THEN target[g] ELSE plan.from[g]
    BY <1>7, <1>12, <1>16, <1>17 DEF Contents
  <1>20. \A key \in Aggregates :
           sums'[key] = Summary(IF Summed(key) \/ (~IsChange(b) /\ b.key = key) THEN target ELSE plan.from, key)
    BY <1>7, <1>13, <1>16, <1>17
  <1> HIDE DEF Set, Summed
  <1>21. Target(plan') = target /\ DOMAIN plan'.batches = DOMAIN B /\ plan'.from = plan.from
    BY <1>3
  <1>22. Landed'
    BY <1>10, <1>11, <1>14, <1>15, <1>19, <1>20, <1>21 DEF Landed
  <1> QED BY <1>1, <1>5, <1>18, <1>22

(* Nothing takes effect. *)
LEMMA NothingLands ==
  ASSUME DeltaInv, UNCHANGED <<table, sums, plan, applied>>, file # NoFile
  PROVE  Landed'
  <1>1. \A n, g : Setting(plan', n, g) <=> Setting(plan, n, g)
    BY DEF Setting
  <1>2. \A n, key : Summing(plan', n, key) <=> Summing(plan, n, key)
    BY DEF Summing
  <1> QED BY <1>1, <1>2 DEF DeltaInv, Landed

LEMMA FileIs ==
  ASSUME DeltaTypes, file # NoFile
  PROVE  /\ file \in Checkpoints /\ file.done \in Nat /\ file.tries \in Nat
         /\ file.reads \in Nat /\ file.writes \in Nat
         /\ file.blocked \in BOOLEAN /\ file.complete \in BOOLEAN
  BY DEF DeltaTypes, Checkpoints

LEMMA PlansKeep ==
  ASSUME DeltaInv, NEW parts, Plans(parts)
  PROVE  DeltaInv'
  <1>1. PICK next \in Releases, rejected \in SUBSET Guids, lost \in SUBSET Guids,
             vouched \in BOOLEAN, reviewed \in BOOLEAN :
          LET source == Staged(next, rejected, lost, vouched)
              changes == Changes(source, parts)
          IN /\ lost # {} => ~vouched
             /\ ~Blocked(source, parts, reviewed)
             /\ plan' = [parts |-> parts, from |-> table, to |-> next, batches |-> BatchesOf(changes)]
             /\ applied' = [n \in DOMAIN BatchesOf(changes) |-> 0]
    BY DEF Plans
  <1>2. PICK source : source = Staged(next, rejected, lost, vouched)
    OBVIOUS
  <1>3. /\ lost # {} => ~vouched
        /\ ~Blocked(source, parts, reviewed)
    BY <1>1, <1>2
  <1>4. /\ plan' = [parts |-> parts, from |-> table, to |-> next,
                    batches |-> BatchesOf(Changes(source, parts))]
        /\ applied' = [n \in DOMAIN BatchesOf(Changes(source, parts)) |-> 0]
    BY <1>1, <1>2
  <1>5. next \in Contents /\ table \in Contents
    BY DeltaConstants DEF DeltaInv, DeltaTypes, Contents
  <1>6. source.rows = next
    <2>1. rejected = {} /\ vouched
      BY <1>2, <1>3 DEF Blocked, Indeterminate, Staged
    <2>2. lost = {}
      BY <1>3, <2>1
    <2> QED BY <1>2, <1>5, <2>1, <2>2 DEF Staged, Contents
  <1>7. ~ComesFromOutside(source, parts)
    BY <1>3 DEF Blocked
  <1>8. PICK p : p = plan'
    OBVIOUS
  <1>9. p.from = table /\ p.to = next /\ p.parts = parts /\ p.batches = BatchesOf(Changes(source, parts))
    BY <1>4, <1>8
  <1>10. GoodPlan(p)
    BY <1>5, <1>6, <1>7, <1>9, PlansAreGood
  <1>11. applied' = [n \in DOMAIN p.batches |-> 0]
    BY <1>4, <1>9
  <1>12. /\ file' = NoFile /\ sent' = [reads |-> 0, writes |-> 0] /\ writer' = "none"
         /\ table' = table /\ sums' = sums
    BY DEF Plans
  <1>13. DeltaTypes'
    BY <1>12 DEF DeltaInv, DeltaTypes
  <1>14. ASSUME NEW key \in Aggregates
         PROVE  sums[key] = Summary(table, key)
    <2>1. CASE file = NoFile
      BY <2>1 DEF DeltaInv, Planned
    <2>2. CASE file # NoFile
      <3>1. file.complete
        BY <2>2 DEF Plans
      <3> QED BY <2>2, <3>1, Finished DEF DeltaInv
    <2> QED BY <2>1, <2>2
  <1>15. Planned'
    <2>1. plan' # NoPlan => GoodPlan(plan') /\ applied' \in [DOMAIN plan'.batches -> Nat]
      BY <1>8, <1>10, <1>11
    <2>2. plan' # NoPlan => table' = plan'.from /\ \A n \in DOMAIN plan'.batches : applied'[n] = 0
      BY <1>8, <1>9, <1>11, <1>12
    <2>3. \A key \in Aggregates : sums'[key] = Summary(table', key)
      BY <1>12, <1>14
    <2> QED BY <1>12, <2>1, <2>2, <2>3 DEF Planned
  <1>16. Landed' /\ InTurn' /\ Reserved'
    BY <1>12 DEF Landed, InTurn, Reserved
  <1> QED BY <1>13, <1>15, <1>16 DEF DeltaInv

LEMMA StartsKeep ==
  ASSUME DeltaInv, Starts
  PROVE  DeltaInv'
  <1>1. /\ plan # NoPlan /\ writer = "none" /\ writer' = "next"
        /\ UNCHANGED <<table, sums, plan, applied, sent>>
    BY DEF Starts
  <1>2. CASE file # NoFile
    <2>1. file' = file /\ ~file.complete
      BY <1>2 DEF Starts
    <2> QED BY <1>1, <1>2, <2>1, NothingLands DEF DeltaInv, DeltaTypes, Planned, InTurn, Reserved
  <1>3. CASE file = NoFile
    <2>1. PICK f : f = [done |-> 0, tries |-> 0, reads |-> 0, writes |-> 0,
                        blocked |-> FALSE, complete |-> FALSE]
      OBVIOUS
    <2>2. /\ file' = f /\ f \in Checkpoints /\ f # NoFile
          /\ f.done = 0 /\ f.reads = 0 /\ f.writes = 0 /\ ~f.complete
      <3>1. file' = f
        BY <1>3, <2>1 DEF Starts
      <3>2. f \in Checkpoints
        BY <2>1 DEF Checkpoints
      <3>3. f # NoFile
        BY <3>2, DeltaConstants
      <3> QED BY <2>1, <3>1, <3>2, <3>3
    <2>3. /\ table = plan.from /\ \A n \in DOMAIN plan.batches : applied[n] = 0
          /\ sent = [reads |-> 0, writes |-> 0]
          /\ \A key \in Aggregates : sums[key] = Summary(table, key)
      BY <1>1, <1>3 DEF DeltaInv, Planned
    <2>4. DeltaTypes' /\ Planned'
      BY <1>1, <2>2 DEF DeltaInv, DeltaTypes, Planned
    <2>5. Landed'
      <3>1. \A g \in Guids : ~\E n \in DOMAIN plan.batches : Setting(plan, n, g) /\ applied[n] > 0
        BY <2>3
      <3>2. \A key \in Aggregates : ~\E n \in DOMAIN plan.batches : Summing(plan, n, key) /\ applied[n] > 0
        BY <2>3
      <3>3. \A n, g : Setting(plan', n, g) <=> Setting(plan, n, g)
        BY <1>1 DEF Setting
      <3>4. \A n, key : Summing(plan', n, key) <=> Summing(plan, n, key)
        BY <1>1 DEF Summing
      <3> QED BY <1>1, <2>3, <3>1, <3>2, <3>3, <3>4 DEF Landed
    <2>6. InTurn' /\ Reserved'
      <3>1. Len(plan.batches) \in Nat /\ \A n \in DOMAIN plan.batches : n \in Nat \ {0}
        BY <1>1, PlanLength DEF DeltaInv
      <3> QED BY <1>1, <2>2, <2>3, <3>1, DeltaConstants DEF InTurn, Reserved
    <2> QED BY <2>4, <2>5, <2>6 DEF DeltaInv
  <1> QED BY <1>2, <1>3

(* A checkpoint that is saved, and what else a step does to the run. *)
LEMMA AsksKeep ==
  ASSUME DeltaInv, AsksReceipt
  PROVE  DeltaInv'
  <1>1. /\ writer = "next" /\ file # NoFile /\ ~file.complete /\ plan # NoPlan
        /\ file.done < Len(plan.batches)
        /\ UNCHANGED <<table, sums, plan, applied>>
    BY DEF AsksReceipt, DeltaInv, Planned
  <1>2. /\ file \in Checkpoints /\ file.done \in Nat /\ file.tries \in Nat
        /\ file.reads \in Nat /\ file.writes \in Nat
        /\ file.blocked \in BOOLEAN /\ file.complete \in BOOLEAN
    BY <1>1, FileIs DEF DeltaInv
  <1>3. CASE file.reads = ReadsCeiling
    <2>1. writer' = "none" /\ file' = file /\ sent' = sent
      BY <1>3 DEF AsksReceipt, Throws
    <2> QED BY <1>1, <2>1, NothingLands DEF DeltaInv, DeltaTypes, Planned, InTurn, Reserved
  <1>4. CASE file.reads # ReadsCeiling
    <2>1. PICK f : f = [file EXCEPT !.reads = @ + 1]
      OBVIOUS
    <2>2. PICK s : s = [sent EXCEPT !.reads = @ + 1]
      OBVIOUS
    <2>3. /\ f \in Checkpoints /\ f.reads = file.reads + 1 /\ f.done = file.done
          /\ f.writes = file.writes /\ f.complete = file.complete
      BY <1>2, <2>1 DEF Checkpoints
    <2>4. sent \in [reads : Nat, writes : Nat]
      BY DEF DeltaInv, DeltaTypes
    <2>5. s \in [reads : Nat, writes : Nat] /\ s.reads = sent.reads + 1 /\ s.writes = sent.writes
      BY <2>2, <2>4
    <2>6. file' = f /\ sent' = s /\ writer' = "receipt" /\ f # NoFile
      BY <1>4, <2>1, <2>2, <2>3, DeltaConstants DEF AsksReceipt
    <2>7. DeltaTypes' /\ Planned'
      BY <1>1, <2>3, <2>5, <2>6 DEF DeltaInv, DeltaTypes, Planned
    <2>8. InTurn'
      BY <1>1, <2>3, <2>6 DEF DeltaInv, InTurn
    <2>9. Reserved'
      BY <1>1, <1>2, <1>4, <2>3, <2>4, <2>5, <2>6, DeltaConstants DEF DeltaInv, Reserved
    <2> QED BY <1>1, <2>7, <2>8, <2>9, NothingLands DEF DeltaInv
  <1> QED BY <1>3, <1>4

(* The writer goes away, and what the file counts stays. *)
LEMMA ThrowsKeep ==
  ASSUME DeltaInv, UNCHANGED <<table, sums, plan, applied, sent>>, file # NoFile,
         NEW f \in Checkpoints, file' = f, f.done = file.done, f.reads = file.reads,
         f.writes = file.writes, f.complete => file.complete \/ file.done = Len(plan.batches),
         writer' \in {"none", "crashed"}, writer' # "none" => ~f.complete
  PROVE  DeltaInv'
  <1>1. f # NoFile /\ plan # NoPlan
    BY DeltaConstants DEF DeltaInv, Planned
  <1>2. DeltaTypes' /\ Planned'
    BY <1>1 DEF DeltaInv, DeltaTypes, Planned
  <1>3. InTurn' /\ Reserved'
    BY <1>1 DEF DeltaInv, InTurn, Reserved
  <1> QED BY <1>2, <1>3, NothingLands DEF DeltaInv

LEMMA NextBatch ==
  ASSUME NEW c \in Checkpoints, NEW f, f = [c EXCEPT !.done = @ + 1, !.tries = 0]
  PROVE  /\ f \in Checkpoints /\ f.done = c.done + 1 /\ f.reads = c.reads
         /\ f.writes = c.writes /\ f.complete = c.complete
  <1>1. PICK g : g = [c EXCEPT !.done = @ + 1]
    OBVIOUS
  <1>2. /\ g \in Checkpoints /\ g.done = c.done + 1 /\ g.reads = c.reads
        /\ g.writes = c.writes /\ g.complete = c.complete
    BY <1>1 DEF Checkpoints
  <1>3. f = [g EXCEPT !.tries = 0]
    BY <1>1
  <1> QED BY <1>2, <1>3 DEF Checkpoints

(* A batch is done that took effect, once. *)
LEMMA DoneKeeps ==
  ASSUME DeltaTypes, Planned, InTurn, Reserved, file # NoFile, ~file.complete,
         file.done < Len(plan.batches),
         UNCHANGED <<plan, sent>>, Done,
         applied' \in [DOMAIN plan.batches -> Nat], applied'[file.done + 1] = 1,
         \A n \in DOMAIN plan.batches \ {file.done + 1} : applied'[n] = applied[n]
  PROVE  InTurn' /\ Reserved' /\ Planned' /\ file' \in Checkpoints /\ writer' = "next"
  <1>1. /\ file \in Checkpoints /\ file.done \in Nat /\ file.tries \in Nat
        /\ file.reads \in Nat /\ file.writes \in Nat
        /\ file.blocked \in BOOLEAN /\ file.complete \in BOOLEAN
    BY FileIs
  <1>2. PICK f : f = [file EXCEPT !.done = @ + 1, !.tries = 0]
    OBVIOUS
  <1>3. /\ f \in Checkpoints /\ f.done = file.done + 1 /\ f.reads = file.reads
        /\ f.writes = file.writes /\ f.complete = file.complete
    BY <1>1, <1>2, NextBatch
  <1>4. file' = f /\ writer' = "next" /\ f # NoFile /\ plan # NoPlan
    BY <1>2, <1>3, DeltaConstants DEF Done, Planned
  <1>5. /\ Len(plan.batches) \in Nat /\ DOMAIN plan.batches = 1 .. Len(plan.batches)
        /\ \A n \in DOMAIN plan.batches : n \in Nat /\ applied'[n] \in Nat
    BY <1>4, PlanLength
  <1>6. ASSUME NEW n \in DOMAIN plan.batches
        PROVE  applied'[n] <= 1 /\ (n <= file.done + 1 => applied'[n] = 1)
               /\ (n > file.done + 1 + 1 => applied'[n] = 0)
    <2>1. CASE n = file.done + 1
      BY <1>1, <1>5, <2>1
    <2>2. CASE n # file.done + 1
      <3>1. applied'[n] = applied[n] /\ n \in Nat
        BY <1>5, <2>2
      <3>2. applied[n] <= 1 /\ (n <= file.done => applied[n] = 1) /\ (n > file.done + 1 => applied[n] = 0)
        BY DEF InTurn
      <3> QED BY <1>1, <2>2, <3>1, <3>2
    <2> QED BY <2>1, <2>2
  <1>7. InTurn'
    BY <1>1, <1>3, <1>4, <1>5, <1>6 DEF InTurn
  <1>8. Reserved' /\ Planned'
    BY <1>3, <1>4 DEF Reserved, Planned
  <1> QED BY <1>3, <1>4, <1>7, <1>8

LEMMA ReconcilesKeep ==
  ASSUME DeltaInv, Reconciles
  PROVE  DeltaInv'
  <1>1. /\ writer = "receipt" /\ file # NoFile /\ ~file.complete /\ plan # NoPlan
        /\ file.done < Len(plan.batches)
        /\ UNCHANGED <<table, sums, plan, applied>>
    BY DEF Reconciles, DeltaInv, Planned, InTurn
  <1>2. /\ file \in Checkpoints /\ file.done \in Nat /\ file.tries \in Nat
        /\ file.reads \in Nat /\ file.writes \in Nat
        /\ file.blocked \in BOOLEAN /\ file.complete \in BOOLEAN
    BY <1>1, FileIs DEF DeltaInv
  <1>3. /\ Len(plan.batches) \in Nat /\ DOMAIN plan.batches = 1 .. Len(plan.batches)
        /\ \A n \in DOMAIN plan.batches : n \in Nat \ {0} /\ n <= Len(plan.batches) /\ applied[n] \in Nat
    BY <1>1, PlanLength DEF DeltaInv
  <1>4. file.done + 1 \in DOMAIN plan.batches
    BY <1>1, <1>2, <1>3
  <1>5. CASE applied[Current] > 0 /\ Done /\ UNCHANGED <<sent, faults>>
    <2>1. applied[file.done + 1] = 1
      BY <1>3, <1>4, <1>5, <1>1 DEF Current, DeltaInv, InTurn
    <2>2. applied' \in [DOMAIN plan.batches -> Nat]
      BY <1>1 DEF DeltaInv, Planned
    <2>3. InTurn' /\ Reserved' /\ Planned' /\ file' \in Checkpoints /\ writer' = "next"
      BY <1>1, <1>5, <2>1, <2>2, DoneKeeps DEF DeltaInv
    <2>4. DeltaTypes'
      BY <1>1, <1>5, <2>3 DEF DeltaInv, DeltaTypes
    <2> QED BY <1>1, <2>3, <2>4, NothingLands DEF DeltaInv
  <1>6. CASE /\ applied[Current] = 0 /\ Applicable
             /\ file' = [file EXCEPT !.tries = @ + 1, !.writes = @ + 1]
             /\ sent' = [sent EXCEPT !.writes = @ + 1]
             /\ writer' = "apply"
    <2>1. PICK f : f = [file EXCEPT !.tries = @ + 1, !.writes = @ + 1]
      OBVIOUS
    <2>2. PICK s : s = [sent EXCEPT !.writes = @ + 1]
      OBVIOUS
    <2>3. /\ f \in Checkpoints /\ f.reads = file.reads /\ f.done = file.done
          /\ f.writes = file.writes + 1 /\ f.complete = file.complete
      <3>1. PICK g : g = [file EXCEPT !.tries = @ + 1]
        OBVIOUS
      <3>2. /\ g \in Checkpoints /\ g.done = file.done /\ g.reads = file.reads
            /\ g.writes = file.writes /\ g.complete = file.complete
        BY <1>2, <3>1 DEF Checkpoints
      <3>3. f = [g EXCEPT !.writes = @ + 1]
        BY <2>1, <3>1
      <3> QED BY <1>2, <3>2, <3>3 DEF Checkpoints
    <2>4. sent \in [reads : Nat, writes : Nat]
      BY DEF DeltaInv, DeltaTypes
    <2>5. s \in [reads : Nat, writes : Nat] /\ s.writes = sent.writes + 1 /\ s.reads = sent.reads
      BY <2>2, <2>4
    <2>6. file' = f /\ sent' = s /\ writer' = "apply" /\ f # NoFile
      BY <1>6, <2>1, <2>2, <2>3, DeltaConstants
    <2>7. DeltaTypes' /\ Planned'
      BY <1>1, <2>3, <2>5, <2>6 DEF DeltaInv, DeltaTypes, Planned
    <2>8. InTurn'
      BY <1>1, <1>6, <2>3, <2>6 DEF DeltaInv, InTurn, Current
    <2>9. Reserved'
      BY <1>1, <1>2, <1>6, <2>3, <2>4, <2>5, <2>6, DeltaConstants DEF DeltaInv, Reserved, Applicable
    <2> QED BY <1>1, <2>7, <2>8, <2>9, NothingLands DEF DeltaInv
  <1>7. CASE /\ Throws /\ UNCHANGED <<file, sent>>
    <2>1. file' = file /\ writer' = "none" /\ sent' = sent
      BY <1>7 DEF Throws
    <2> QED BY <1>1, <1>2, <2>1, ThrowsKeep
  <1>8. CASE Blocks /\ UNCHANGED sent
    <2>1. PICK f : f = [file EXCEPT !.blocked = TRUE]
      OBVIOUS
    <2>2. /\ f \in Checkpoints /\ f.reads = file.reads /\ f.done = file.done
          /\ f.writes = file.writes /\ f.complete = file.complete
      BY <1>2, <2>1 DEF Checkpoints
    <2>3. file' = f /\ writer' = "none" /\ sent' = sent
      BY <1>8, <2>1 DEF Blocks, Throws
    <2> QED BY <1>1, <2>2, <2>3, ThrowsKeep
  <1> QED BY <1>5, <1>6, <1>7, <1>8 DEF Reconciles

LEMMA AppliesKeep ==
  ASSUME DeltaInv, AppliesBatch
  PROVE  DeltaInv'
  <1>1. /\ writer = "apply" /\ file # NoFile /\ ~file.complete /\ plan # NoPlan
        /\ file.done < Len(plan.batches) /\ applied[file.done + 1] = 0
        /\ UNCHANGED <<plan, sent>>
    BY DEF AppliesBatch, DeltaInv, Planned, InTurn
  <1>2. /\ file \in Checkpoints /\ file.done \in Nat /\ file.tries \in Nat
        /\ file.reads \in Nat /\ file.writes \in Nat
        /\ file.blocked \in BOOLEAN /\ file.complete \in BOOLEAN
    BY <1>1, FileIs DEF DeltaInv
  <1>3. /\ Len(plan.batches) \in Nat /\ DOMAIN plan.batches = 1 .. Len(plan.batches)
        /\ \A n \in DOMAIN plan.batches : n \in Nat \ {0} /\ n <= Len(plan.batches) /\ applied[n] \in Nat
    BY <1>1, PlanLength DEF DeltaInv
  <1>4. file.done + 1 \in DOMAIN plan.batches
    BY <1>1, <1>2, <1>3
  <1>5. ASSUME Commits, NEW f, file' = f, f # NoFile
        PROVE  /\ Landed' /\ table' \in Contents /\ sums' = [key \in Aggregates |-> sums'[key]]
               /\ applied' \in [DOMAIN plan.batches -> Nat] /\ applied'[file.done + 1] = 1
               /\ \A n \in DOMAIN plan.batches \ {file.done + 1} : applied'[n] = applied[n]
    <2>1. /\ Landed' /\ table' \in Contents /\ sums' = [key \in Aggregates |-> sums'[key]]
          /\ applied' = [applied EXCEPT ![Current] = 1]
          /\ applied' \in [DOMAIN plan.batches -> Nat]
      BY <1>1, <1>4, <1>5, CommitLands DEF Current
    <2>2. applied \in [DOMAIN plan.batches -> Nat]
      BY <1>1 DEF DeltaInv, Planned
    <2> QED BY <1>4, <2>1, <2>2 DEF Current
  <1>6. CASE Commits /\ Done
    <2>1. PICK f : f = [file EXCEPT !.done = @ + 1, !.tries = 0]
      OBVIOUS
    <2>2. f \in Checkpoints
      BY <1>2, <2>1, NextBatch
    <2>3. file' = f /\ f # NoFile
      BY <1>6, <2>1, <2>2, DeltaConstants DEF Done
    <2>4. /\ Landed' /\ table' \in Contents /\ sums' = [key \in Aggregates |-> sums'[key]]
          /\ applied' \in [DOMAIN plan.batches -> Nat] /\ applied'[file.done + 1] = 1
          /\ \A n \in DOMAIN plan.batches \ {file.done + 1} : applied'[n] = applied[n]
      BY <1>5, <1>6, <2>3
    <2>5. InTurn' /\ Reserved' /\ Planned' /\ file' \in Checkpoints /\ writer' = "next"
      BY <1>1, <1>6, <2>4, DoneKeeps DEF DeltaInv
    <2>6. DeltaTypes'
      BY <1>1, <2>4, <2>5 DEF DeltaInv, DeltaTypes
    <2> QED BY <2>4, <2>5, <2>6 DEF DeltaInv
  <1>7. ASSUME Commits, NEW f \in Checkpoints, file' = f, f.done = file.done, f.reads = file.reads,
               f.writes = file.writes, f.complete = file.complete,
               writer' \in {"none", "next", "crashed"}
        PROVE  DeltaInv'
    <2>1. f # NoFile
      BY DeltaConstants
    <2>2. /\ Landed' /\ table' \in Contents /\ sums' = [key \in Aggregates |-> sums'[key]]
          /\ applied' \in [DOMAIN plan.batches -> Nat] /\ applied'[file.done + 1] = 1
          /\ \A n \in DOMAIN plan.batches \ {file.done + 1} : applied'[n] = applied[n]
      BY <1>5, <1>7, <2>1
    <2>3. DeltaTypes' /\ Planned'
      BY <1>1, <1>7, <2>1, <2>2 DEF DeltaInv, DeltaTypes, Planned
    <2>4. ASSUME NEW n \in DOMAIN plan.batches
          PROVE  applied'[n] <= 1 /\ (n <= file.done => applied'[n] = 1)
                 /\ (n > file.done + 1 => applied'[n] = 0)
      <3>1. CASE n = file.done + 1
        BY <1>2, <1>3, <2>2, <3>1
      <3>2. CASE n # file.done + 1
        BY <1>1, <2>2, <3>2 DEF DeltaInv, InTurn
      <3> QED BY <3>1, <3>2
    <2>5. InTurn'
      <3>1. file' = f /\ f.done = file.done /\ ~f.complete /\ plan' = plan
            /\ writer' \notin {"receipt", "apply"} /\ file.done <= Len(plan.batches)
        BY <1>1, <1>2, <1>3, <1>7
      <3> QED BY <2>4, <3>1 DEF InTurn
    <2>6. Reserved'
      BY <1>1, <1>7 DEF DeltaInv, Reserved
    <2> QED BY <2>2, <2>3, <2>5, <2>6 DEF DeltaInv
  <1>8. CASE Commits /\ Blocks
    <2>1. PICK f : f = [file EXCEPT !.blocked = TRUE]
      OBVIOUS
    <2>2. /\ f \in Checkpoints /\ f.reads = file.reads /\ f.done = file.done
          /\ f.writes = file.writes /\ f.complete = file.complete
      BY <1>2, <2>1 DEF Checkpoints
    <2>3. file' = f /\ writer' = "none"
      BY <1>8, <2>1 DEF Blocks, Throws
    <2> QED BY <1>7, <1>8, <2>2, <2>3
  <1>9. CASE Commits /\ writer' = "next" /\ UNCHANGED file
    BY <1>2, <1>7, <1>9
  <1>10. CASE RollsBack /\ writer' = "next" /\ UNCHANGED file
    <2>1. UNCHANGED <<table, sums, applied, plan, sent, file>>
      BY <1>1, <1>10 DEF RollsBack
    <2> QED BY <1>1, <1>10, <2>1, NothingLands DEF DeltaInv, DeltaTypes, Planned, InTurn, Reserved
  <1> QED BY <1>6, <1>8, <1>9, <1>10 DEF AppliesBatch

LEMMA CrashesKeep ==
  ASSUME DeltaInv, Crashes
  PROVE  DeltaInv'
  <1>1. /\ writer \in {"next", "receipt", "apply"} /\ writer' = "crashed"
        /\ file # NoFile /\ ~file.complete /\ plan # NoPlan
        /\ UNCHANGED <<plan, sent, file>>
    BY DEF Crashes, DeltaInv, Planned
  <1>2. file \in Checkpoints
    BY <1>1, FileIs DEF DeltaInv
  <1>3. CASE writer = "apply" /\ Commits
    <2>1. /\ file.done < Len(plan.batches) /\ applied[file.done + 1] = 0
      BY <1>1, <1>3 DEF DeltaInv, InTurn
    <2>2. /\ Len(plan.batches) \in Nat /\ DOMAIN plan.batches = 1 .. Len(plan.batches)
          /\ \A n \in DOMAIN plan.batches : n \in Nat \ {0} /\ n <= Len(plan.batches) /\ applied[n] \in Nat
      BY <1>1, PlanLength DEF DeltaInv
    <2>3. file.done \in Nat
      BY <1>1, FileIs DEF DeltaInv
    <2>4. file.done + 1 \in DOMAIN plan.batches
      BY <2>1, <2>2, <2>3
    <2>5. applied \in [DOMAIN plan.batches -> Nat]
      BY <1>1 DEF DeltaInv, Planned
    <2>6. PICK f : f = file
      OBVIOUS
    <2>7. /\ Landed' /\ table' \in Contents /\ sums' = [key \in Aggregates |-> sums'[key]]
          /\ applied' = [applied EXCEPT ![Current] = 1]
          /\ applied' \in [DOMAIN plan.batches -> Nat]
      BY <1>1, <1>3, <2>1, <2>4, <2>6, CommitLands DEF Current
    <2>8. DeltaTypes' /\ Planned'
      BY <1>1, <2>7 DEF DeltaInv, DeltaTypes, Planned
    <2>9. ASSUME NEW n \in DOMAIN plan.batches
          PROVE  applied'[n] <= 1 /\ (n <= file.done => applied'[n] = 1)
                 /\ (n > file.done + 1 => applied'[n] = 0)
      <3>1. CASE n = file.done + 1
        BY <2>2, <2>3, <2>5, <2>7, <3>1 DEF Current
      <3>2. CASE n # file.done + 1
        BY <1>1, <2>5, <2>7, <3>2 DEF DeltaInv, InTurn, Current
      <3> QED BY <3>1, <3>2
    <2>10. InTurn'
      BY <1>1, <2>1, <2>2, <2>3, <2>9 DEF InTurn
    <2>11. Reserved'
      BY <1>1 DEF DeltaInv, Reserved
    <2> QED BY <2>7, <2>8, <2>10, <2>11 DEF DeltaInv
  <1>4. CASE RollsBack
    <2>1. UNCHANGED <<table, sums, applied, plan, sent, file>>
      BY <1>1, <1>4 DEF RollsBack
    <2> QED BY <1>1, <1>2, <2>1, ThrowsKeep
  <1> QED BY <1>3, <1>4 DEF Crashes

LEMMA CompletesKeep ==
  ASSUME DeltaInv, Completes
  PROVE  DeltaInv'
  <1>1. /\ writer = "next" /\ file # NoFile /\ file.done = Len(plan.batches)
        /\ file' = [file EXCEPT !.complete = TRUE] /\ writer' = "none"
        /\ UNCHANGED <<table, sums, plan, applied, sent>>
    BY DEF Completes, Throws, DeltaInv, Planned
  <1>2. file \in Checkpoints
    BY <1>1, FileIs DEF DeltaInv
  <1>3. PICK f : f = [file EXCEPT !.complete = TRUE]
    OBVIOUS
  <1>4. /\ f \in Checkpoints /\ f.reads = file.reads /\ f.done = file.done
        /\ f.writes = file.writes /\ file' = f
    BY <1>1, <1>2, <1>3 DEF Checkpoints
  <1> QED BY <1>1, <1>4, ThrowsKeep

LEMMA UnlocksKeep ==
  ASSUME DeltaInv, Unlocks
  PROVE  DeltaInv'
  <1>1. /\ writer = "crashed" /\ writer' = "none" /\ file # NoFile
        /\ UNCHANGED <<table, sums, plan, file, applied, sent>>
    BY DEF Unlocks, DeltaInv, Planned
  <1>2. file \in Checkpoints
    BY <1>1, FileIs DEF DeltaInv
  <1> QED BY <1>1, <1>2, ThrowsKeep

LEMMA DeltaBegins == DeltaInit => DeltaInv
  <1> SUFFICES ASSUME DeltaInit PROVE DeltaInv
    OBVIOUS
  <1>1. table \in Contents
    BY DeltaConstants DEF DeltaInit, Contents
  <1>2. DeltaTypes
    BY <1>1 DEF DeltaInit, DeltaTypes
  <1>3. Planned /\ Landed /\ InTurn /\ Reserved
    BY DEF DeltaInit, Planned, Landed, InTurn, Reserved
  <1> QED BY <1>2, <1>3 DEF DeltaInv

LEMMA DeltaGoesOn == DeltaInv /\ [DeltaNext]_deltaVars => DeltaInv'
  <1> SUFFICES ASSUME DeltaInv, [DeltaNext]_deltaVars PROVE DeltaInv'
    OBVIOUS
  <1>1. CASE UNCHANGED deltaVars
    <2>1. UNCHANGED <<table, sums, plan, applied, file, writer, sent>>
      BY <1>1 DEF deltaVars
    <2>2. Landed'
      <3>1. CASE file = NoFile
        BY <2>1, <3>1 DEF Landed
      <3> QED BY <2>1, <3>1, NothingLands
    <2> QED BY <2>1, <2>2 DEF DeltaInv, DeltaTypes, Planned, InTurn, Reserved
  <1>2. CASE DeltaNext
    BY <1>2, PlansKeep, StartsKeep, AsksKeep, ReconcilesKeep, AppliesKeep, CompletesKeep,
       CrashesKeep, UnlocksKeep DEF DeltaNext
  <1> QED BY <1>1, <1>2

(* A completed plan has brought the province to its release within its      *)
(* partitions and left the rest, with every aggregate, and no batch takes   *)
(* effect twice or beyond what was reserved, through faults, crashes and    *)
(* restarts.                                                                *)
THEOREM ChangesLand == DeltaSpec => []DeltaLands
  <1>1. DeltaInv => DeltaLands
    <2> SUFFICES ASSUME DeltaInv PROVE DeltaLands
      OBVIOUS
    <2>1. RunAccounted
      <3> SUFFICES ASSUME file # NoFile
                   PROVE  /\ \A n \in DOMAIN applied : applied[n] <= 1 /\ (n <= file.done => applied[n] = 1)
                          /\ sent.reads <= file.reads /\ file.reads <= ReadsCeiling
                          /\ sent.writes <= file.writes /\ file.writes <= WritesCeiling
        BY DEF RunAccounted
      <3>1. DOMAIN applied = DOMAIN plan.batches
        BY DEF DeltaInv, Planned
      <3> QED BY <3>1 DEF DeltaInv, InTurn, Reserved
    <2>2. PlanLands
      <3> SUFFICES ASSUME file # NoFile, file.complete
                   PROVE  /\ \A g \in Guids :
                               table[g] = IF Within(plan.from[g], plan.parts) \/ Within(plan.to[g], plan.parts)
                                          THEN plan.to[g] ELSE plan.from[g]
                          /\ \A key \in Aggregates : sums[key] = Summary(table, key)
        BY DEF PlanLands
      <3>1. /\ \A g \in Guids : table[g] = Target(plan)[g]
            /\ \A key \in Aggregates : sums[key] = Summary(table, key)
        BY Finished DEF DeltaInv
      <3> QED BY <3>1 DEF Target
    <2> QED BY <2>1, <2>2 DEF DeltaLands
  <1> QED BY <1>1, DeltaBegins, DeltaGoesOn, PTL DEF DeltaSpec
=============================================================================
