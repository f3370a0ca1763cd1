------------------------------ MODULE Geocode ------------------------------
(***************************************************************************)
(* geocodeIfNeeded (geocoding.ts): the cascade from the local database of  *)
(* addresses (ODA) to GeoGratis to the configured external providers       *)
(* (geocoder-providers.ts), each entry with its cache, its gate, its stage *)
(* of the budget and, but for GeoGratis, its circuit breaker.              *)
(*                                                                         *)
(* withTimeout does not call off what it waits for: an operation outlives  *)
(* its stage, and the whole cascade its caller.  The two are apart here:   *)
(* at[r] is the entry request r is in, flight[r][s] the operation of its   *)
(* entry s, caller[r] what the caller was told.  Where there is no local   *)
(* database, the address of a point is asked of Google alone               *)
(* (normalizeAddressWithGoogle), an entry of its own.                      *)
(*                                                                         *)
(* CircuitBreaker.tla has the breaker in detail.  Here a key is one circuit*)
(* and its probes are one; its Durable Object answers, and an operation    *)
(* that fails is run again by the circuit of the isolate, which may also   *)
(* refuse it.  As everywhere, a cached entry may have expired: a read of   *)
(* the cache may always miss.                                              *)
(***************************************************************************)
EXTENDS Integers, Sequences, FiniteSets

CONSTANTS
  Requests, Queries,
  Deployments,               \* isOdaEnabled, with a query for each request
  PointQueries,                    \* the queries that want the address of a point
  Folded,                    \* of a query: how it is spelled in the key of a cache
  Hinted, CentroidOnly, PostalOnly,  \* queries with a city or province; the two postal kinds
  Providers,                 \* buildExternalProviderChain: names, in order
  MaxAttempts,               \* of withRetry
  FailureThreshold,
  Nil, TimedOut, Failed, Nameless   \* no entry; and what a caller can be told

Entries == {"oda", "geogratis", "external", "reverse"}
Keys == {"oda", "external", "reverse"}

(* An operation under way: its run by the breaker, the attempt, and where it*)
(* is in the chain of providers.                                            *)
Operation == [run : 1 .. 2, try : 1 .. MaxAttempts, provider : 1 .. Len(Providers)]

ASSUME GeocodeConstants ==
  /\ Deployments \subseteq [usesOda : BOOLEAN, asks : [Requests -> Queries]]
  /\ \A d \in Deployments, r \in Requests : d.usesOda => d.asks[r] \notin PointQueries
  /\ Hinted \subseteq Queries /\ CentroidOnly \subseteq Queries /\ PostalOnly \subseteq Queries
  /\ PointQueries \subseteq Queries
  /\ Folded \in [Queries -> Queries]
  /\ Providers \in Seq({"google", "mapbox", "nominatim"}) /\ Providers # <<>>
  /\ {MaxAttempts, FailureThreshold} \subseteq Nat \ {0}
  /\ Nil \notin Operation

VARIABLES
  usesOda,    \* isOdaEnabled
  query,      \* what each request asks
  at, flight, caller,
  cache,      \* GEOCODING_CACHE, by entry and query
  circuit,
  failed,     \* history: the requests each service failed since its circuit heard a success
  local       \* history: how the latest run of ODA for a request ended

cascadeVars == <<usesOda, query, at, flight, caller, cache, circuit, failed, local>>

Qualities == {"exact", "interpolated", "poor"}

CascadeInit ==
  /\ \E d \in Deployments : usesOda = d.usesOda /\ query = d.asks
  /\ at = [r \in Requests |-> "idle"]
  /\ flight = [r \in Requests |-> [s \in Entries |-> Nil]]
  /\ caller = [r \in Requests |-> Nil]
  /\ cache = [s \in Entries |-> [k \in {Folded[q] : q \in Queries} |-> Nil]]
  /\ circuit = [k \in Keys |-> [state |-> "CLOSED", failureCount |-> 0]]
  /\ failed = [k \in Keys |-> {}]
  /\ local = [r \in Requests |-> Nil]

(***************************************************************************)
(* The cache of an entry: case and blanks of a query, and the last digits  *)
(* of a point, make no difference to its key.                              *)
(***************************************************************************)
Key(q) == Folded[q]

Cached(s, q) == cache[s][Key(q)]

SetCached(s, q, answer) == cache' = [cache EXCEPT ![s][Key(q)] = answer]

(***************************************************************************)
(* How an entry judges an answer, fresh or cached.                         *)
(***************************************************************************)
(* The slip of a gate that only looks at the score.                         *)
ScoreOnly(s, q, answer) == s = "geogratis" => answer.quality # "poor"

(* GeoGratis: no poor score, and no interpolation without a city or a       *)
(* province.  Under Google's key only an answer that carries Google's label *)
(* can be compared with the region.                                         *)
Accepts(s, q, answer) ==
  /\ s = "geogratis" => /\ answer.quality # "poor"
                        /\ (answer.quality = "interpolated" => q \in Hinted)
  /\ s = "external" /\ Providers[1] = "google" => answer.from = "google"

(* What a fresh external answer has passed: Google's own region check.      *)
AcceptsFresh(s, q, answer) == s = "external" \/ Accepts(s, q, answer)

(***************************************************************************)
(* How an entry ends.                                                      *)
(***************************************************************************)
Tells(r, what) == caller' = [caller EXCEPT ![r] = IF @ = Nil THEN what ELSE @]

Ends(r, what) == Tells(r, what) /\ at' = [at EXCEPT ![r] = "done"]

Falls(r, s) == at' = [at EXCEPT ![r] = s] /\ UNCHANGED caller

(* The write is deferred and may fail.                                      *)
Returns(r, s, answer) ==
  /\ Ends(r, answer)
  /\ \/ UNCHANGED cache
     \/ SetCached(s, query[r], answer)

(* A centroid query is not asked elsewhere; another is after a miss or with *)
(* the circuit open, unless it is a postal code whose budget is gone.       *)
OdaFails(r, outcome) ==
  IF \/ query[r] \in CentroidOnly
     \/ outcome \notin {"miss", "open"}
     \/ query[r] \in PostalOnly /\ caller[r] = TimedOut
  THEN Ends(r, IF outcome = "timeout" THEN TimedOut ELSE Failed)
  ELSE Falls(r, "geogratis")

(***************************************************************************)
(* The circuits.                                                           *)
(***************************************************************************)
(* An open circuit refuses until its recovery time has passed.              *)
Allowed(k) == circuit' = [circuit EXCEPT ![k].state = IF @ = "OPEN" THEN "HALF_OPEN" ELSE @]

Succeeds(k) ==
  /\ circuit' = [circuit EXCEPT ![k] = [state |-> IF @.state = "HALF_OPEN" THEN "CLOSED" ELSE @.state,
                                        failureCount |-> 0]]
  /\ failed' = [failed EXCEPT ![k] = IF circuit[k].state = "OPEN" THEN @ ELSE {}]

Counts(k) ==
  LET c == circuit[k]
      n == IF c.failureCount < FailureThreshold THEN c.failureCount + 1 ELSE c.failureCount
  IN circuit' = [circuit EXCEPT ![k] =
       [state |-> IF n = FailureThreshold THEN "OPEN" ELSE c.state, failureCount |-> n]]

(* A plausible slip: a miss of ODA is a failure of ODA.                     *)
EveryErrorCounts(k, outcome) == TRUE

(* isOdaServiceFailure spares the misses of ODA; the other circuit has no   *)
(* such test.                                                               *)
ShouldCount(k, outcome) == k = "oda" => outcome # "miss"

(* How the first run of an operation is reported; the second is the         *)
(* isolate's.                                                               *)
Reports(k, r, run, outcome) ==
  IF run = 2 \/ (outcome # "found" /\ ~ShouldCount(k, outcome)) THEN UNCHANGED <<circuit, failed>>
  ELSE IF outcome = "found" THEN Succeeds(k)
  ELSE /\ Counts(k)
       /\ failed' = [failed EXCEPT ![k] = IF outcome = "miss" THEN @ ELSE @ \cup {r}]

(***************************************************************************)
(* A request enters an entry of the cascade: the cache, then the circuit.  *)
(***************************************************************************)
Starts(r, s) == flight' = [flight EXCEPT ![r][s] = [run |-> 1, try |-> 1, provider |-> 1]]

(* The address of a point is asked of Google, where there is a key for it.  *)
Begins(r) ==
  /\ at[r] = "idle"
  /\ \/ /\ at' = [at EXCEPT ![r] = IF query[r] \in PointQueries THEN "reverse"
                                   ELSE IF usesOda THEN "oda" ELSE "geogratis"]
        /\ UNCHANGED caller
     \/ query[r] \in PointQueries /\ Ends(r, Nameless)
  /\ UNCHANGED <<usesOda, query, flight, cache, circuit, failed, local>>

Hits(r) ==
  LET s == at[r] IN
  /\ s \in Entries /\ flight[r][s] = Nil
  /\ Cached(s, query[r]) # Nil /\ Accepts(s, query[r], Cached(s, query[r]))
  /\ Ends(r, Cached(s, query[r]))
  /\ UNCHANGED <<usesOda, query, flight, cache, circuit, failed, local>>

Misses(r) ==
  LET s == at[r] IN
  /\ s \in Entries /\ flight[r][s] = Nil
  /\ \/ /\ Starts(r, s)
        /\ IF s \in Keys THEN Allowed(s) ELSE UNCHANGED circuit
        /\ UNCHANGED <<at, caller, local>>
     \/ /\ s \in Keys /\ circuit[s].state = "OPEN"
        /\ IF s = "oda" THEN OdaFails(r, "open") /\ local' = [local EXCEPT ![r] = "open"]
           ELSE /\ Ends(r, IF s = "reverse" THEN Nameless ELSE Failed)
                /\ UNCHANGED local
        /\ UNCHANGED <<flight, circuit>>
  /\ UNCHANGED <<usesOda, query, cache, failed>>

(***************************************************************************)
(* The operations under way.                                               *)
(***************************************************************************)
Lands(r, s) == flight' = [flight EXCEPT ![r][s] = Nil]

(* Nobody waits for an operation that has outlived its stage.               *)
Awaited(r, s) == at[r] = s

OdaRuns(r, outcome) ==
  LET f == flight[r].oda IN
  /\ f # Nil
  /\ Reports("oda", r, f.run, outcome)
  /\ UNCHANGED <<usesOda, query>>
  /\ \/ /\ outcome = "found" /\ Lands(r, "oda")
        /\ IF Awaited(r, "oda") THEN Returns(r, "oda", [from |-> "oda", quality |-> "exact"])
           ELSE UNCHANGED <<at, caller, cache>>
        /\ UNCHANGED local
     \/ /\ outcome # "found" /\ f.run = 1
        /\ flight' = [flight EXCEPT ![r].oda.run = 2]
        /\ local' = [local EXCEPT ![r] = outcome]
        /\ UNCHANGED <<at, caller, cache>>
     \/ /\ outcome # "found" /\ Lands(r, "oda")
        /\ LET result == IF f.run = 1 THEN "open" ELSE outcome IN
             /\ local' = [local EXCEPT ![r] = result]
             /\ IF Awaited(r, "oda") THEN OdaFails(r, result) ELSE UNCHANGED <<at, caller>>
        /\ UNCHANGED cache

GeogratisRuns(r, outcome, quality) ==
  LET f == flight[r].geogratis
      answer == [from |-> "geogratis", quality |-> quality]
  IN
  /\ f # Nil
  /\ IF outcome = "fails" /\ f.try < MaxAttempts
     THEN /\ flight' = [flight EXCEPT ![r].geogratis.try = @ + 1]
          /\ UNCHANGED <<at, caller, cache>>
     ELSE /\ Lands(r, "geogratis")
          /\ IF ~Awaited(r, "geogratis") THEN UNCHANGED <<at, caller, cache>>
             ELSE IF outcome = "found" /\ AcceptsFresh("geogratis", query[r], answer)
             THEN Returns(r, "geogratis", answer)
             ELSE Falls(r, "external") /\ UNCHANGED cache
  /\ UNCHANGED <<usesOda, query, circuit, failed, local>>

(* One provider of the chain answers.  A miss hands over to the next; a     *)
(* failure starts the walk again, until the attempts are used up.           *)
ExternalRuns(r, outcome) ==
  LET f == flight[r].external
      over == \/ outcome = "miss" /\ f.provider = Len(Providers)
              \/ outcome = "fails" /\ f.try = MaxAttempts
              \/ outcome = "barred"
  IN
  /\ f # Nil
  /\ \/ /\ outcome = "found" /\ Lands(r, "external")
        /\ Reports("external", r, f.run, outcome)
        /\ IF Awaited(r, "external")
           THEN Returns(r, "external", [from |-> Providers[f.provider], quality |-> "exact"])
           ELSE UNCHANGED <<at, caller, cache>>
     \/ /\ outcome # "found" /\ ~over
        /\ flight' = [flight EXCEPT ![r].external =
             IF outcome = "miss" THEN [f EXCEPT !.provider = @ + 1]
             ELSE [f EXCEPT !.try = @ + 1, !.provider = 1]]
        /\ UNCHANGED <<at, caller, cache, circuit, failed>>
     \/ /\ over
        /\ Reports("external", r, f.run, outcome)
        /\ \/ /\ f.run = 1
              /\ flight' = [flight EXCEPT ![r].external = [run |-> 2, try |-> 1, provider |-> 1]]
              /\ UNCHANGED <<at, caller>>
           \/ /\ Lands(r, "external")
              /\ IF Awaited(r, "external") THEN Ends(r, Failed) ELSE UNCHANGED <<at, caller>>
        /\ UNCHANGED cache
  /\ UNCHANGED <<usesOda, query, local>>

(* Google names a point, has no name for it, or fails each attempt; a point *)
(* without a name is no failure, and nothing but a name is cached.          *)
ReverseRuns(r, outcome) ==
  LET f == flight[r].reverse IN
  /\ f # Nil
  /\ \/ /\ outcome = "fails" /\ f.try < MaxAttempts
        /\ flight' = [flight EXCEPT ![r].reverse.try = @ + 1]
        /\ UNCHANGED <<at, caller, cache, circuit, failed>>
     \/ /\ outcome = "fails" /\ f.try = MaxAttempts
        /\ Reports("reverse", r, f.run, "fails")
        /\ \/ /\ f.run = 1
              /\ flight' = [flight EXCEPT ![r].reverse = [run |-> 2, try |-> 1, provider |-> 1]]
              /\ UNCHANGED <<at, caller>>
           \/ Lands(r, "reverse") /\ Ends(r, Nameless)
        /\ UNCHANGED cache
     \/ /\ outcome \in {"found", "miss"} /\ Lands(r, "reverse")
        /\ Reports("reverse", r, f.run, "found")
        /\ IF outcome = "found" THEN Returns(r, "reverse", [from |-> "reverse", quality |-> "exact"])
           ELSE Ends(r, Nameless) /\ UNCHANGED cache
  /\ UNCHANGED <<usesOda, query, local>>

(***************************************************************************)
(* Time.                                                                   *)
(***************************************************************************)
(* A plausible slip: no limit for a service that mostly answers.            *)
TimesOutButGeogratis(r) ==
  /\ at[r] \in {"oda", "external"} /\ flight[r][at[r]] # Nil
  /\ IF at[r] = "oda" THEN OdaFails(r, "timeout") ELSE Ends(r, TimedOut)
  /\ UNCHANGED <<usesOda, query, flight, cache, circuit, failed, local>>

(* For the address of a point it is each attempt that has a limit, and it   *)
(* fails.                                                                   *)
StageTimesOut(r) ==
  /\ at[r] \in Entries \ {"reverse"} /\ flight[r][at[r]] # Nil
  /\ CASE at[r] = "oda" -> OdaFails(r, "timeout")
       [] at[r] = "geogratis" -> Falls(r, "external")
       [] OTHER -> Ends(r, TimedOut)
  /\ UNCHANGED <<usesOda, query, flight, cache, circuit, failed, local>>

(* The budget of the request: its caller hears, the cascade goes on.        *)
TotalTimesOut(r) ==
  /\ at[r] \notin {"idle", "reverse"} /\ caller[r] = Nil
  /\ Tells(r, TimedOut)
  /\ UNCHANGED <<usesOda, query, at, flight, cache, circuit, failed, local>>

(* What a provider that can be reached answers may be of no use, for good:  *)
(* no key, another shape than was expected.                                 *)
Responses == {"found", "fails", "barred"}

(* And it may have no match.                                                *)
Outcomes == Responses \cup {"miss"}

CascadeStep(r) ==
  \/ Begins(r) \/ Hits(r) \/ Misses(r)
  \/ \E o \in Outcomes \ {"barred"} : OdaRuns(r, o)
  \/ \E o \in Outcomes \ {"barred"} : ReverseRuns(r, o)
  \/ \E o \in Outcomes : ExternalRuns(r, o)
  \/ \E o \in Outcomes, q \in Qualities : GeogratisRuns(r, o, q)
  \/ StageTimesOut(r) \/ TotalTimesOut(r)

CascadeNext == \E r \in Requests : CascadeStep(r)

CascadeSpec == CascadeInit /\ [][CascadeNext]_cascadeVars

(* The runtime, its store and its timers answer; databases and providers    *)
(* need not, and nobody relies on the caller's own timer.                   *)
FairSpec == CascadeSpec /\ \A r \in Requests :
  /\ WF_cascadeVars(Begins(r)) /\ WF_cascadeVars(Misses(r))
  /\ WF_cascadeVars(StageTimesOut(r)) /\ WF_cascadeVars(ReverseRuns(r, "fails"))

(***************************************************************************)
(* Properties.                                                             *)
(***************************************************************************)
Told(r) == caller[r] \notin {Nil, TimedOut, Failed, Nameless}

(* No caller is given a poor answer of GeoGratis, nor an interpolated one   *)
(* unless its query names a city or a province - not through the cache, and *)
(* not because another request or a late operation put one there.           *)
AnswersPassGates ==
  \A r \in Requests : Told(r) /\ caller[r].from = "geogratis" =>
    /\ caller[r].quality # "poor"
    /\ caller[r].quality = "interpolated" => query[r] \in Hinted

(* With the local database, a request calls another provider only when the  *)
(* database's last word on it was a miss or a refusal of its circuit: an    *)
(* outage or a timeout of the database is not turned into paid traffic, and *)
(* a centroid query never leaves, also when its operation is run again or   *)
(* ends after its stage.                                                    *)
LeavesForAReason ==
  \A r \in Requests : usesOda /\ at[r] \in {"geogratis", "external"} =>
    local[r] \in {"miss", "open"} /\ query[r] \notin CentroidOnly

(* The circuit of ODA opens for its failures, and not for one caller's: when *)
(* it is open, as many requests as the threshold says have been failed by   *)
(* it since it last succeeded, however many addresses it missed and however *)
(* often each operation was run.                                            *)
OdaTripsOnFailure == circuit["oda"].state = "OPEN" => Cardinality(failed["oda"]) >= FailureThreshold

(* What leaves for another provider leaves for a reason: a miss, or failures. *)
LocalFirst == LeavesForAReason /\ OdaTripsOnFailure

(* Whatever hangs, the cascade comes to its end, entry by entry, and its    *)
(* caller hears.                                                            *)
EveryCascadeEnds == \A r \in Requests : <>(at[r] = "done" /\ caller[r] # Nil)
=============================================================================
