---------------------------- MODULE LookupProofs ----------------------------
(* Proofs about what a lookup is answered.  The cascade of geocoders: what  *)
(* a cache holds comes from the entry it is the cache of; a request that    *)
(* has left the local database has nothing under way there any more; and a  *)
(* request is among those the database failed at most once, however often   *)
(* its operation is run.  A riding: whatever is kept, loaded, stored or     *)
(* warmed says what some published version says, and what a published       *)
(* version says stays said.  A batch: each item is in one of the two lists, *)
(* and what was geocoded is in the order of the second.                     *)
EXTENDS Geocode, RidingLookup, BatchLookup, FiniteSetTheorems, SequenceTheorems, TLAPS

(***************************************************************************)
(* The cascade of geocoders.                                               *)
(***************************************************************************)
Folds == {Folded[q] : q \in Queries}
Sources == Entries \cup {"google", "mapbox", "nominatim"}
Answer == [from : Sources, quality : Qualities]
Words == {TimedOut, Failed, Nameless}
Circuit == [state : {"CLOSED", "OPEN", "HALF_OPEN"}, failureCount : Nat]

CascadeTypes ==
  /\ usesOda \in BOOLEAN /\ query \in [Requests -> Queries]
  /\ \A r \in Requests : usesOda => query[r] \notin PointQueries
  /\ at \in [Requests -> Entries \cup {"idle", "done"}]
  /\ flight \in [Requests -> [Entries -> Operation \cup {Nil}]]
  /\ caller \in [Requests -> Answer \cup Words \cup {Nil}]
  /\ cache \in [Entries -> [Folds -> Answer \cup {Nil}]]
  /\ circuit \in [Keys -> Circuit]
  /\ failed \in [Keys -> SUBSET Requests]
  /\ local \in [Requests -> {Nil, "found", "miss", "fails", "open"}]

(* Only the cache of GeoGratis holds answers of GeoGratis. *)
Fits(s, a) == a.from = "geogratis" => s = "geogratis"
Gate(q, a) ==
  a.from = "geogratis" => /\ a.quality # "poor"
                          /\ (a.quality = "interpolated" => q \in Hinted)
Gated ==
  /\ \A s \in Entries, k \in Folds : cache[s][k] # Nil => Fits(s, cache[s][k])
  /\ \A r \in Requests : Told(r) => Gate(query[r], caller[r])

(* A request that has left the local database. *)
Left ==
  /\ \A r \in Requests : usesOda /\ at[r] \in {"geogratis", "external"} =>
       local[r] \in {"miss", "open"} /\ query[r] \notin CentroidOnly /\ flight[r]["oda"] = Nil
  /\ \A r \in Requests : flight[r]["oda"] # Nil => at[r] # "idle"

(* A request the local database failed is not asked again of it. *)
Tripped ==
  /\ IsFiniteSet(failed["oda"])
  /\ circuit["oda"].failureCount <= Cardinality(failed["oda"])
  /\ OdaTripsOnFailure
  /\ \A r \in failed["oda"] : /\ at[r] # "idle"
                              /\ at[r] = "oda" => flight[r]["oda"] # Nil
                              /\ flight[r]["oda"] # Nil => flight[r]["oda"].run = 2

CascadeInv == CascadeTypes /\ Gated /\ Left /\ Tripped

(* What follows says once what the steps have in common. *)
LEMMA Constants ==
  /\ "geogratis" \in Entries /\ "oda" \in Entries /\ "external" \in Entries /\ "reverse" \in Entries
  /\ Keys \subseteq Entries /\ "oda" \in Keys /\ "external" \in Keys /\ "reverse" \in Keys
  /\ "geogratis" \notin Keys
  /\ \A q \in Queries : Key(q) \in Folds
  /\ MaxAttempts \in Nat \ {0} /\ FailureThreshold \in Nat \ {0}
  /\ Len(Providers) \in Nat \ {0} /\ Nil \notin Operation
  /\ \A i \in 1 .. Len(Providers) : Providers[i] \in Sources /\ Providers[i] # "geogratis"
  <1>1. Providers \in Seq({"google", "mapbox", "nominatim"}) /\ Providers # <<>>
    BY GeocodeConstants
  <1>2. Len(Providers) \in Nat /\ DOMAIN Providers = 1 .. Len(Providers)
    BY <1>1
  <1>3. \A i \in 1 .. Len(Providers) : Providers[i] \in {"google", "mapbox", "nominatim"}
    BY <1>1, <1>2
  <1>4. Len(Providers) # 0
    BY <1>1
  <1>5. \A i \in 1 .. Len(Providers) : Providers[i] \in Sources /\ Providers[i] # "geogratis"
    BY <1>3 DEF Sources
  <1>6. \A q \in Queries : Key(q) \in Folds
    BY DEF Folds, Key
  <1>7. /\ MaxAttempts \in Nat \ {0} /\ FailureThreshold \in Nat \ {0} /\ Nil \notin Operation
        /\ Len(Providers) \in Nat \ {0}
    BY <1>2, <1>4, GeocodeConstants
  <1> QED BY <1>5, <1>6, <1>7 DEF Entries, Keys

LEMMA CascadeBegins ==
  ASSUME CascadeInit
  PROVE  CascadeInv
  <1>1. CascadeTypes
    <2>1. usesOda \in BOOLEAN /\ query \in [Requests -> Queries]
          /\ \A r \in Requests : usesOda => query[r] \notin PointQueries
      <3>1. PICK d \in Deployments : usesOda = d.usesOda /\ query = d.asks
        BY DEF CascadeInit
      <3>2. d \in [usesOda : BOOLEAN, asks : [Requests -> Queries]]
            /\ \A r \in Requests : d.usesOda => d.asks[r] \notin PointQueries
        BY GeocodeConstants
      <3> QED BY <3>1, <3>2
    <2> QED BY <2>1 DEF CascadeInit, CascadeTypes, Circuit, Folds
  <1>2. Gated
    BY DEF CascadeInit, Gated, Told, Folds
  <1>3. Left
    BY Constants DEF CascadeInit, Left
  <1>4. Tripped
    BY Constants, FS_EmptySet DEF CascadeInit, Tripped, OdaTripsOnFailure
  <1> QED BY <1>1, <1>2, <1>3, <1>4 DEF CascadeInv

LEMMA TellsIs ==
  ASSUME CascadeTypes, NEW r \in Requests, NEW what \in Answer \cup Words, Tells(r, what)
  PROVE  /\ caller' \in [Requests -> Answer \cup Words \cup {Nil}]
         /\ \A q \in Requests : caller'[q] = caller[q] \/ (q = r /\ caller'[q] = what)
  BY DEF CascadeTypes, Tells

LEMMA EndsIs ==
  ASSUME CascadeTypes, NEW r \in Requests, NEW what \in Answer \cup Words, Ends(r, what)
  PROVE  /\ caller' \in [Requests -> Answer \cup Words \cup {Nil}]
         /\ \A q \in Requests : caller'[q] = caller[q] \/ (q = r /\ caller'[q] = what)
         /\ at' \in [Requests -> Entries \cup {"idle", "done"}]
         /\ \A q \in Requests : at'[q] = IF q = r THEN "done" ELSE at[q]
  BY TellsIs DEF Ends, CascadeTypes

LEMMA FallsIs ==
  ASSUME CascadeTypes, NEW r \in Requests, NEW s \in Entries, Falls(r, s)
  PROVE  /\ caller' = caller
         /\ at' \in [Requests -> Entries \cup {"idle", "done"}]
         /\ \A q \in Requests : at'[q] = IF q = r THEN s ELSE at[q]
  BY DEF Falls, CascadeTypes

LEMMA OdaFailsIs ==
  ASSUME CascadeTypes, NEW r \in Requests, NEW outcome, OdaFails(r, outcome)
  PROVE  /\ caller' \in [Requests -> Answer \cup Words \cup {Nil}]
         /\ \A q \in Requests : caller'[q] = caller[q] \/ (q = r /\ caller'[q] \in Words)
         /\ at' \in [Requests -> Entries \cup {"idle", "done"}]
         /\ \A q \in Requests : q # r => at'[q] = at[q]
         /\ \/ at'[r] = "done"
            \/ at'[r] = "geogratis" /\ outcome \in {"miss", "open"} /\ query[r] \notin CentroidOnly
  <1>1. CASE \/ query[r] \in CentroidOnly
             \/ outcome \notin {"miss", "open"}
             \/ query[r] \in PostalOnly /\ caller[r] = TimedOut
    <2> PICK what : what = IF outcome = "timeout" THEN TimedOut ELSE Failed
      OBVIOUS
    <2>1. what \in Words /\ Ends(r, what)
      BY <1>1 DEF OdaFails, Words
    <2> QED BY <2>1, EndsIs
  <1>2. CASE ~(\/ query[r] \in CentroidOnly
               \/ outcome \notin {"miss", "open"}
               \/ query[r] \in PostalOnly /\ caller[r] = TimedOut)
    <2>1. Falls(r, "geogratis")
      BY <1>2 DEF OdaFails
    <2> QED BY <1>2, <2>1, FallsIs, Constants DEF CascadeTypes
  <1> QED BY <1>1, <1>2

LEMMA ReturnsIs ==
  ASSUME CascadeTypes, NEW r \in Requests, NEW s \in Entries, NEW told \in Answer,
         Returns(r, s, told)
  PROVE  /\ Ends(r, told)
         /\ cache' \in [Entries -> [Folds -> Answer \cup {Nil}]]
         /\ \A t \in Entries, k \in Folds :
              cache'[t][k] = cache[t][k] \/ (t = s /\ cache'[t][k] = told)
  <1>1. query[r] \in Queries
    BY DEF CascadeTypes
  <1>2. Key(query[r]) \in Folds
    BY <1>1, Constants
  <1> PICK k : k = Key(query[r])
    OBVIOUS
  <1>3. Ends(r, told) /\ (cache' = cache \/ cache' = [cache EXCEPT ![s][k] = told])
    BY DEF Returns, SetCached
  <1>4. k \in Folds /\ cache \in [Entries -> [Folds -> Answer \cup {Nil}]]
    BY <1>2 DEF CascadeTypes
  <1> HIDE DEF Folds
  <1>5. CASE cache' = cache
    BY <1>3, <1>4, <1>5
  <1>6. CASE cache' = [cache EXCEPT ![s][k] = told]
    BY <1>3, <1>4, <1>6
  <1> QED BY <1>3, <1>5, <1>6

(* The circuits and their history, by a step of request r. *)
LEMMA ReportsIs ==
  ASSUME CascadeTypes, NEW k \in Keys, NEW r \in Requests, NEW run, NEW outcome,
         Reports(k, r, run, outcome)
  PROVE  /\ circuit' \in [Keys -> Circuit] /\ failed' \in [Keys -> SUBSET Requests]
         /\ k # "oda" => circuit'["oda"] = circuit["oda"] /\ failed'["oda"] = failed["oda"]
         /\ k = "oda" =>
            \/ circuit'["oda"] = circuit["oda"] /\ failed'["oda"] = failed["oda"]
            \/ /\ circuit'["oda"].failureCount = 0
               /\ \/ failed'["oda"] = {} /\ circuit'["oda"].state # "OPEN"
                  \/ failed'["oda"] = failed["oda"] /\ circuit["oda"].state = "OPEN"
            \/ /\ run # 2 /\ outcome # "miss" /\ outcome # "found"
               /\ failed'["oda"] = failed["oda"] \cup {r}
               /\ circuit'["oda"].failureCount <= circuit["oda"].failureCount + 1
               /\ \/ circuit'["oda"].state = circuit["oda"].state
                  \/ circuit'["oda"].failureCount = FailureThreshold
  <1>1. CASE UNCHANGED <<circuit, failed>>
    BY <1>1 DEF CascadeTypes
  <1>2. CASE Succeeds(k)
    <2> PICK c : c = [state |-> IF circuit[k].state = "HALF_OPEN" THEN "CLOSED" ELSE circuit[k].state,
                      failureCount |-> 0]
      OBVIOUS
    <2> PICK f : f = IF circuit[k].state = "OPEN" THEN failed[k] ELSE {}
      OBVIOUS
    <2>1. circuit[k] \in Circuit
      BY DEF CascadeTypes
    <2>2. c \in Circuit /\ c.failureCount = 0 /\ (c.state = "OPEN" => circuit[k].state = "OPEN")
      BY <2>1 DEF Circuit
    <2>3. circuit' = [circuit EXCEPT ![k] = c] /\ failed' = [failed EXCEPT ![k] = f]
      BY <1>2 DEF Succeeds
    <2> QED BY <2>2, <2>3, Constants DEF CascadeTypes
  <1>3. CASE /\ run # 2 /\ outcome # "found" /\ ShouldCount(k, outcome) /\ Counts(k)
             /\ failed' = [failed EXCEPT ![k] = IF outcome = "miss" THEN @ ELSE @ \cup {r}]
    <2> PICK n : n = IF circuit[k].failureCount < FailureThreshold THEN circuit[k].failureCount + 1
                     ELSE circuit[k].failureCount
      OBVIOUS
    <2> PICK c : c = [state |-> IF n = FailureThreshold THEN "OPEN" ELSE circuit[k].state,
                      failureCount |-> n]
      OBVIOUS
    <2> PICK f : f = IF outcome = "miss" THEN failed[k] ELSE failed[k] \cup {r}
      OBVIOUS
    <2>1. circuit[k] \in Circuit
      BY DEF CascadeTypes
    <2>2. n \in Nat /\ n <= circuit[k].failureCount + 1
      BY <2>1, Constants DEF Circuit
    <2>3. c \in Circuit /\ c.failureCount = n
          /\ (c.state = circuit[k].state \/ c.failureCount = FailureThreshold)
      BY <2>1, <2>2 DEF Circuit
    <2>4. circuit' = [circuit EXCEPT ![k] = c] /\ failed' = [failed EXCEPT ![k] = f]
      BY <1>3 DEF Counts
    <2>5. k = "oda" => outcome # "miss" /\ f = failed[k] \cup {r}
      BY <1>3 DEF ShouldCount
    <2>6. circuit' \in [Keys -> Circuit] /\ failed' \in [Keys -> SUBSET Requests]
      BY <2>3, <2>4 DEF CascadeTypes
    <2>7. \A j \in Keys : /\ circuit'[j] = IF j = k THEN c ELSE circuit[j]
                          /\ failed'[j] = IF j = k THEN f ELSE failed[j]
      BY <2>4 DEF CascadeTypes
    <2>8. k # "oda" => circuit'["oda"] = circuit["oda"] /\ failed'["oda"] = failed["oda"]
      BY <2>7, Constants
    <2>9. k = "oda" => circuit'["oda"] = c /\ failed'["oda"] = f
      BY <2>7, Constants
    <2> QED BY <1>3, <2>2, <2>3, <2>5, <2>6, <2>8, <2>9
  <1> QED BY <1>1, <1>2, <1>3 DEF Reports

(* What a step of request r leaves of the invariant. *)
LEMMA GatedKeeps ==
  ASSUME CascadeInv, NEW r \in Requests, query' = query,
         \A t \in Entries, k \in Folds :
           cache'[t][k] = cache[t][k] \/ Fits(t, cache'[t][k]),
         \A q \in Requests :
           \/ caller'[q] = caller[q]
           \/ q = r /\ (caller'[q] \in Words \/ Gate(query[r], caller'[q]))
  PROVE  Gated'
  <1>1. ASSUME NEW q \in Requests, Told(q)' PROVE Gate(query[q], caller'[q])
    BY <1>1 DEF CascadeInv, Gated, Told, Words
  <1>2. ASSUME NEW t \in Entries, NEW k \in Folds, cache'[t][k] # Nil PROVE Fits(t, cache'[t][k])
    BY <1>2 DEF CascadeInv, Gated
  <1> QED BY <1>1, <1>2 DEF Gated, Gate, Fits

LEMMA LeftKeeps ==
  ASSUME CascadeInv, NEW r \in Requests, UNCHANGED <<usesOda, query>>,
         \A q \in Requests \ {r} : /\ at'[q] = at[q] /\ local'[q] = local[q]
                                   /\ flight'[q]["oda"] = flight[q]["oda"],
         usesOda /\ at'[r] \in {"geogratis", "external"} =>
           /\ local'[r] \in {"miss", "open"} /\ query[r] \notin CentroidOnly
           /\ flight'[r]["oda"] = Nil,
         flight'[r]["oda"] # Nil => at'[r] # "idle"
  PROVE  Left'
  BY DEF CascadeInv, Left

LEMMA TrippedKeeps ==
  ASSUME CascadeInv, NEW r \in Requests,
         \A q \in Requests \ {r} : at'[q] = at[q] /\ flight'[q]["oda"] = flight[q]["oda"],
         failed'["oda"] = failed["oda"],
         circuit'["oda"].failureCount = circuit["oda"].failureCount,
         circuit'["oda"].state = "OPEN" => circuit["oda"].state = "OPEN",
         r \in failed["oda"] => /\ at'[r] # "idle"
                                /\ at'[r] = "oda" => flight'[r]["oda"] # Nil
                                /\ flight'[r]["oda"] # Nil => flight'[r]["oda"].run = 2
  PROVE  Tripped'
  <1>1. failed["oda"] \subseteq Requests
    BY Constants DEF CascadeInv, CascadeTypes
  <1>2. OdaTripsOnFailure'
    BY DEF CascadeInv, Tripped, OdaTripsOnFailure
  <1>3. IsFiniteSet(failed'["oda"]) /\ circuit'["oda"].failureCount <= Cardinality(failed'["oda"])
    BY DEF CascadeInv, Tripped
  <1>4. \A q \in failed'["oda"] : /\ at'[q] # "idle"
                                  /\ at'[q] = "oda" => flight'[q]["oda"] # Nil
                                  /\ flight'[q]["oda"] # Nil => flight'[q]["oda"].run = 2
    <2> SUFFICES ASSUME NEW q \in failed["oda"]
                 PROVE  /\ at'[q] # "idle"
                        /\ at'[q] = "oda" => flight'[q]["oda"] # Nil
                        /\ flight'[q]["oda"] # Nil => flight'[q]["oda"].run = 2
      OBVIOUS
    <2>1. CASE q = r
      BY <2>1
    <2>2. CASE q # r
      BY <2>2, <1>1 DEF CascadeInv, Tripped
    <2> QED BY <2>1, <2>2
  <1> QED BY <1>2, <1>3, <1>4 DEF Tripped

(* As TrippedKeeps, where the step may be reported to the circuit. *)
LEMMA ReportedKeeps ==
  ASSUME CascadeInv, NEW r \in Requests, NEW outcome, flight[r]["oda"] # Nil,
         Reports("oda", r, flight[r]["oda"].run, outcome),
         \A q \in Requests \ {r} : at'[q] = at[q] /\ flight'[q]["oda"] = flight[q]["oda"],
         at'[r] # "idle",
         at'[r] = "oda" => flight'[r]["oda"] # Nil,
         flight'[r]["oda"] # Nil => flight'[r]["oda"].run = 2
  PROVE  Tripped'
  <1>1. /\ failed["oda"] \subseteq Requests /\ circuit["oda"] \in Circuit /\ circuit'["oda"] \in Circuit
        /\ failed'["oda"] \subseteq Requests
    BY ReportsIs, Constants DEF CascadeInv, CascadeTypes
  <1>2. \/ circuit'["oda"] = circuit["oda"] /\ failed'["oda"] = failed["oda"]
        \/ /\ circuit'["oda"].failureCount = 0
           /\ \/ failed'["oda"] = {} /\ circuit'["oda"].state # "OPEN"
              \/ failed'["oda"] = failed["oda"] /\ circuit["oda"].state = "OPEN"
        \/ /\ flight[r]["oda"].run # 2
           /\ failed'["oda"] = failed["oda"] \cup {r}
           /\ circuit'["oda"].failureCount <= circuit["oda"].failureCount + 1
           /\ \/ circuit'["oda"].state = circuit["oda"].state
              \/ circuit'["oda"].failureCount = FailureThreshold
    BY ReportsIs, Constants DEF CascadeInv
  <1>3. failed'["oda"] \subseteq failed["oda"] \cup {r}
    BY <1>2
  <1>4. ASSUME NEW q \in failed'["oda"]
        PROVE  /\ at'[q] # "idle"
               /\ at'[q] = "oda" => flight'[q]["oda"] # Nil
               /\ flight'[q]["oda"] # Nil => flight'[q]["oda"].run = 2
    <2>1. CASE q = r
      BY <2>1
    <2>2. CASE q # r
      BY <2>2, <1>1, <1>3 DEF CascadeInv, Tripped
    <2> QED BY <2>1, <2>2
  <1>5. /\ IsFiniteSet(failed["oda"]) /\ Cardinality(failed["oda"]) \in Nat
        /\ circuit["oda"].failureCount <= Cardinality(failed["oda"])
        /\ circuit["oda"].state = "OPEN" => Cardinality(failed["oda"]) >= FailureThreshold
    BY FS_CardinalityType DEF CascadeInv, Tripped, OdaTripsOnFailure
  <1>6. /\ IsFiniteSet(failed'["oda"])
        /\ circuit'["oda"].failureCount <= Cardinality(failed'["oda"])
        /\ circuit'["oda"].state = "OPEN" => Cardinality(failed'["oda"]) >= FailureThreshold
    <2>1. CASE failed'["oda"] = failed["oda"]
      <3>1. \/ circuit'["oda"] = circuit["oda"]
            \/ circuit'["oda"].failureCount = 0 /\ circuit["oda"].state = "OPEN"
            \/ circuit'["oda"].failureCount = 0 /\ circuit'["oda"].state # "OPEN"
            \/ flight[r]["oda"].run # 2 /\ r \in failed["oda"]
        BY <2>1, <1>2
      <3>2. ~(flight[r]["oda"].run # 2 /\ r \in failed["oda"])
        BY DEF CascadeInv, Tripped
      <3> QED BY <2>1, <3>1, <3>2, <1>1, <1>5 DEF Circuit
    <2>2. CASE failed'["oda"] = {} /\ circuit'["oda"].failureCount = 0 /\ circuit'["oda"].state # "OPEN"
      BY <2>2, FS_EmptySet
    <2>3. CASE /\ flight[r]["oda"].run # 2
               /\ failed'["oda"] = failed["oda"] \cup {r}
               /\ circuit'["oda"].failureCount <= circuit["oda"].failureCount + 1
               /\ \/ circuit'["oda"].state = circuit["oda"].state
                  \/ circuit'["oda"].failureCount = FailureThreshold
      <3>1. r \notin failed["oda"]
        BY <2>3 DEF CascadeInv, Tripped
      <3>2. IsFiniteSet(failed'["oda"]) /\ Cardinality(failed'["oda"]) = Cardinality(failed["oda"]) + 1
        <4> PICK f : f = failed["oda"]
          OBVIOUS
        <4>1. IsFiniteSet(f) /\ r \notin f
          BY <3>1, <1>5
        <4>2. IsFiniteSet(f \cup {r}) /\ Cardinality(f \cup {r}) = Cardinality(f) + 1
          BY <4>1, FS_AddElement
        <4> QED BY <4>2, <2>3
      <3>3. circuit'["oda"].failureCount \in Nat /\ circuit["oda"].failureCount \in Nat
        BY <1>1 DEF Circuit
      <3> QED BY <2>3, <3>2, <3>3, <1>5, Constants
    <2> QED BY <1>2, <2>1, <2>2, <2>3
  <1> QED BY <1>4, <1>6 DEF Tripped, OdaTripsOnFailure

-----------------------------------------------------------------------------
(* The steps of the cascade. *)

LEMMA BeginsKeeps ==
  ASSUME CascadeInv, NEW r \in Requests, Begins(r)
  PROVE  CascadeInv'
  <1>1. at[r] = "idle" /\ flight[r]["oda"] = Nil /\ r \notin failed["oda"]
    BY DEF Begins, CascadeInv, Left, Tripped
  <1>2. UNCHANGED <<usesOda, query, flight, cache, circuit, failed, local>>
    BY DEF Begins
  <1>3. /\ at' \in [Requests -> Entries \cup {"idle", "done"}]
        /\ \A q \in Requests : q # r => at'[q] = at[q]
        /\ at'[r] \in {"reverse", "oda", "geogratis", "done"}
        /\ usesOda => at'[r] # "geogratis"
        /\ caller' \in [Requests -> Answer \cup Words \cup {Nil}]
        /\ \A q \in Requests : caller'[q] = caller[q] \/ (q = r /\ caller'[q] \in Words)
    <2>1. CASE /\ at' = [at EXCEPT ![r] = IF query[r] \in PointQueries THEN "reverse"
                                          ELSE IF usesOda THEN "oda" ELSE "geogratis"]
               /\ UNCHANGED caller
      BY <2>1, Constants DEF CascadeInv, CascadeTypes
    <2>2. CASE Ends(r, Nameless)
      BY <2>2, EndsIs DEF CascadeInv, Words
    <2> QED BY <2>1, <2>2 DEF Begins
  <1>4. CascadeTypes'
    BY <1>2, <1>3 DEF CascadeInv, CascadeTypes
  <1>5. Gated'
    BY <1>2, <1>3, GatedKeeps
  <1>6. Left'
    BY <1>1, <1>2, <1>3, LeftKeeps
  <1>7. Tripped'
    BY <1>1, <1>2, <1>3, TrippedKeeps
  <1> QED BY <1>4, <1>5, <1>6, <1>7 DEF CascadeInv

LEMMA HitsKeeps ==
  ASSUME CascadeInv, NEW r \in Requests, Hits(r)
  PROVE  CascadeInv'
  <1> PICK s \in Entries : s = at[r]
    BY DEF Hits
  <1> PICK k \in Folds : k = Key(query[r])
    BY Constants DEF CascadeInv, CascadeTypes
  <1> PICK a : a = cache[s][k]
    OBVIOUS
  <1>1. /\ a # Nil /\ Accepts(s, query[r], a) /\ Ends(r, a) /\ flight[r][s] = Nil
        /\ UNCHANGED <<usesOda, query, flight, cache, circuit, failed, local>>
    BY DEF Hits, Cached
  <1>2. a \in Answer /\ Fits(s, a)
    BY <1>1 DEF CascadeInv, CascadeTypes, Gated
  <1>3. Gate(query[r], a)
    BY <1>1, <1>2 DEF Accepts, Fits, Gate
  <1>4. /\ caller' \in [Requests -> Answer \cup Words \cup {Nil}]
        /\ \A q \in Requests : caller'[q] = caller[q] \/ (q = r /\ caller'[q] = a)
        /\ at' \in [Requests -> Entries \cup {"idle", "done"}]
        /\ \A q \in Requests : at'[q] = IF q = r THEN "done" ELSE at[q]
    BY <1>1, <1>2, EndsIs DEF CascadeInv
  <1>5. CascadeTypes'
    BY <1>1, <1>4 DEF CascadeInv, CascadeTypes
  <1>6. Gated'
    BY <1>1, <1>3, <1>4, GatedKeeps
  <1>7. Left'
    BY <1>1, <1>4, LeftKeeps
  <1>8. Tripped'
    BY <1>1, <1>4, TrippedKeeps DEF CascadeInv, Tripped
  <1> QED BY <1>5, <1>6, <1>7, <1>8 DEF CascadeInv

LEMMA MissesKeeps ==
  ASSUME CascadeInv, NEW r \in Requests, Misses(r)
  PROVE  CascadeInv'
  <1> PICK s \in Entries : s = at[r]
    BY DEF Misses
  <1>1. UNCHANGED <<usesOda, query, cache, failed>> /\ flight[r][s] = Nil
    BY DEF Misses
  <1>2. CASE /\ Starts(r, s)
             /\ IF s \in Keys THEN Allowed(s) ELSE UNCHANGED circuit
             /\ UNCHANGED <<at, caller, local>>
    <2> PICK o : o = [run |-> 1, try |-> 1, provider |-> 1]
      OBVIOUS
    <2>1. o \in Operation /\ flight' = [flight EXCEPT ![r][s] = o]
      BY <1>2, Constants DEF Starts, Operation
    <2>2. /\ flight' \in [Requests -> [Entries -> Operation \cup {Nil}]]
          /\ \A q \in Requests \ {r} : flight'[q] = flight[q]
          /\ flight'[r]["oda"] = IF s = "oda" THEN o ELSE flight[r]["oda"]
      BY <2>1, Constants DEF CascadeInv, CascadeTypes
    <2>3. /\ circuit' \in [Keys -> Circuit]
          /\ circuit'["oda"].failureCount = circuit["oda"].failureCount
          /\ circuit'["oda"].state = "OPEN" => circuit["oda"].state = "OPEN"
      <3>1. CASE s \in Keys /\ Allowed(s)
        <4> PICK c : c = [circuit[s] EXCEPT !.state = IF @ = "OPEN" THEN "HALF_OPEN" ELSE @]
          OBVIOUS
        <4>1. circuit[s] \in Circuit
          BY <3>1 DEF CascadeInv, CascadeTypes
        <4>2. c \in Circuit /\ c.failureCount = circuit[s].failureCount /\ c.state # "OPEN"
          BY <4>1 DEF Circuit
        <4>3. circuit' = [circuit EXCEPT ![s] = c]
          BY <3>1, <4>1 DEF Allowed
        <4> QED BY <3>1, <4>2, <4>3, Constants DEF CascadeInv, CascadeTypes
      <3>2. CASE UNCHANGED circuit
        BY <3>2 DEF CascadeInv, CascadeTypes
      <3> QED BY <1>2, <3>1, <3>2
    <2>4. CascadeTypes'
      BY <1>1, <1>2, <2>2, <2>3 DEF CascadeInv, CascadeTypes
    <2>5. Gated'
      BY <1>1, <1>2, GatedKeeps
    <2>6. Left'
      BY <1>1, <1>2, <2>2, LeftKeeps DEF CascadeInv, Left, Entries
    <2>7. r \in failed["oda"] => s # "oda"
      BY <1>1 DEF CascadeInv, Tripped
    <2>8. Tripped'
      BY <1>1, <1>2, <2>2, <2>3, <2>7, TrippedKeeps DEF CascadeInv, Tripped
    <2> QED BY <2>4, <2>5, <2>6, <2>8 DEF CascadeInv
  <1>3. CASE /\ s = "oda" /\ OdaFails(r, "open") /\ local' = [local EXCEPT ![r] = "open"]
             /\ UNCHANGED <<flight, circuit>>
    <2>1. /\ caller' \in [Requests -> Answer \cup Words \cup {Nil}]
          /\ \A q \in Requests : caller'[q] = caller[q] \/ (q = r /\ caller'[q] \in Words)
          /\ at' \in [Requests -> Entries \cup {"idle", "done"}]
          /\ \A q \in Requests : q # r => at'[q] = at[q]
          /\ at'[r] = "done" \/ (at'[r] = "geogratis" /\ query[r] \notin CentroidOnly)
      BY <1>3, OdaFailsIs DEF CascadeInv
    <2>2. /\ local' \in [Requests -> {Nil, "found", "miss", "fails", "open"}]
          /\ \A q \in Requests : local'[q] = IF q = r THEN "open" ELSE local[q]
      BY <1>3 DEF CascadeInv, CascadeTypes
    <2>3. CascadeTypes'
      BY <1>1, <1>3, <2>1, <2>2 DEF CascadeInv, CascadeTypes
    <2>4. Gated'
      BY <1>1, <2>1, GatedKeeps
    <2>5. Left'
      BY <1>1, <1>3, <2>1, <2>2, LeftKeeps
    <2>6. Tripped'
      BY <1>1, <1>3, <2>1, TrippedKeeps
    <2> QED BY <2>3, <2>4, <2>5, <2>6 DEF CascadeInv
  <1>4. CASE /\ s # "oda" /\ Ends(r, IF s = "reverse" THEN Nameless ELSE Failed)
             /\ UNCHANGED <<local, flight, circuit>>
    <2> PICK what : what = IF s = "reverse" THEN Nameless ELSE Failed
      OBVIOUS
    <2>1. /\ what \in Words
          /\ caller' \in [Requests -> Answer \cup Words \cup {Nil}]
          /\ \A q \in Requests : caller'[q] = caller[q] \/ (q = r /\ caller'[q] = what)
          /\ at' \in [Requests -> Entries \cup {"idle", "done"}]
          /\ \A q \in Requests : at'[q] = IF q = r THEN "done" ELSE at[q]
      <3>1. what \in Words /\ Ends(r, what)
        BY <1>4 DEF Words
      <3> QED BY <3>1, EndsIs DEF CascadeInv
    <2>3. CascadeTypes'
      BY <1>1, <1>4, <2>1 DEF CascadeInv, CascadeTypes
    <2>4. Gated'
      BY <1>1, <2>1, GatedKeeps
    <2>5. Left'
      BY <1>1, <1>4, <2>1, LeftKeeps
    <2>6. Tripped'
      BY <1>1, <1>4, <2>1, TrippedKeeps DEF CascadeInv, Tripped
    <2> QED BY <2>3, <2>4, <2>5, <2>6 DEF CascadeInv
  <1> QED BY <1>2, <1>3, <1>4 DEF Misses

(* Where the flight of an entry goes. *)
LEMMA FlightIs ==
  ASSUME CascadeTypes, NEW r \in Requests, NEW s \in Entries, NEW o \in Operation \cup {Nil},
         flight' = [flight EXCEPT ![r][s] = o]
  PROVE  /\ flight' \in [Requests -> [Entries -> Operation \cup {Nil}]]
         /\ \A q \in Requests \ {r} : flight'[q] = flight[q]
         /\ flight'[r][s] = o
         /\ \A t \in Entries \ {s} : flight'[r][t] = flight[r][t]
  BY DEF CascadeTypes

LEMMA OdaRunsKeeps ==
  ASSUME CascadeInv, NEW r \in Requests, NEW outcome \in {"found", "fails", "miss"},
         OdaRuns(r, outcome)
  PROVE  CascadeInv'
  <1> PICK f : f = flight[r]["oda"]
    OBVIOUS
  <1>1. /\ f # Nil /\ f \in Operation /\ at[r] # "idle"
        /\ Reports("oda", r, flight[r]["oda"].run, outcome) /\ UNCHANGED <<usesOda, query>>
    BY Constants DEF OdaRuns, CascadeInv, CascadeTypes, Left
  <1>2. circuit' \in [Keys -> Circuit] /\ failed' \in [Keys -> SUBSET Requests]
    BY <1>1, ReportsIs, Constants DEF CascadeInv
  <1>3. usesOda => at[r] \notin {"geogratis", "external"}
    BY <1>1 DEF CascadeInv, Left
  <1>4. CASE /\ outcome = "found" /\ Lands(r, "oda")
             /\ IF Awaited(r, "oda") THEN Returns(r, "oda", [from |-> "oda", quality |-> "exact"])
                ELSE UNCHANGED <<at, caller, cache>>
             /\ UNCHANGED local
    <2> PICK a : a = [from |-> "oda", quality |-> "exact"]
      OBVIOUS
    <2>1. a \in Answer /\ Fits("oda", a) /\ Gate(query[r], a)
      BY DEF Answer, Sources, Entries, Qualities, Fits, Gate
    <2>2. /\ flight' \in [Requests -> [Entries -> Operation \cup {Nil}]]
          /\ \A q \in Requests \ {r} : flight'[q] = flight[q]
          /\ flight'[r]["oda"] = Nil
      <3>1. flight' = [flight EXCEPT ![r]["oda"] = Nil] /\ CascadeTypes /\ "oda" \in Entries
        BY <1>4, Constants DEF Lands, CascadeInv
      <3>2. Nil \in Operation \cup {Nil}
        OBVIOUS
      <3> QED BY <3>1, <3>2, FlightIs
    <2>3. /\ caller' \in [Requests -> Answer \cup Words \cup {Nil}]
          /\ \A q \in Requests : caller'[q] = caller[q] \/ (q = r /\ caller'[q] = a)
          /\ at' \in [Requests -> Entries \cup {"idle", "done"}]
          /\ \A q \in Requests \ {r} : at'[q] = at[q]
          /\ at'[r] = "done" \/ (at'[r] = at[r] /\ at[r] # "oda")
          /\ cache' \in [Entries -> [Folds -> Answer \cup {Nil}]]
          /\ \A t \in Entries, k \in Folds :
               cache'[t][k] = cache[t][k] \/ (t = "oda" /\ cache'[t][k] = a)
      <3>1. CASE Returns(r, "oda", a)
        <4>1. Ends(r, a)
          BY <3>1 DEF Returns
        <4> QED BY <3>1, <4>1, <2>1, ReturnsIs, EndsIs, Constants DEF CascadeInv
      <3>2. CASE UNCHANGED <<at, caller, cache>> /\ at[r] # "oda"
        BY <3>2 DEF CascadeInv, CascadeTypes
      <3> QED BY <1>4, <3>1, <3>2 DEF Awaited
    <2>4. CascadeTypes'
      BY <1>1, <1>2, <1>4, <2>2, <2>3 DEF CascadeInv, CascadeTypes
    <2>5. Gated'
      BY <1>1, <2>1, <2>3, GatedKeeps
    <2>6. Left'
      BY <1>1, <1>3, <1>4, <2>2, <2>3, LeftKeeps
    <2>7. Tripped'
      BY <1>1, <2>2, <2>3, ReportedKeeps
    <2> QED BY <2>4, <2>5, <2>6, <2>7 DEF CascadeInv
  <1>5. CASE /\ outcome # "found" /\ f.run = 1
             /\ flight' = [flight EXCEPT ![r].oda.run = 2]
             /\ local' = [local EXCEPT ![r] = outcome]
             /\ UNCHANGED <<at, caller, cache>>
    <2> PICK g : g = [f EXCEPT !.run = 2]
      OBVIOUS
    <2>1. g \in Operation /\ g.run = 2 /\ g # Nil
      BY <1>1, Constants DEF Operation
    <2>2. flight' = [flight EXCEPT ![r]["oda"] = g]
      BY <1>5
    <2>3. /\ flight' \in [Requests -> [Entries -> Operation \cup {Nil}]]
          /\ \A q \in Requests \ {r} : flight'[q] = flight[q]
          /\ flight'[r]["oda"] = g
      <3>1. CascadeTypes /\ "oda" \in Entries /\ g \in Operation \cup {Nil}
        BY <2>1, Constants DEF CascadeInv
      <3>2. ASSUME NEW o \in Operation \cup {Nil}, flight' = [flight EXCEPT ![r]["oda"] = o]
            PROVE  /\ flight' \in [Requests -> [Entries -> Operation \cup {Nil}]]
                   /\ \A q \in Requests \ {r} : flight'[q] = flight[q]
                   /\ flight'[r]["oda"] = o
        BY <3>1, <3>2, FlightIs
      <3> QED BY <2>2, <3>1, <3>2
    <2>4. /\ local' \in [Requests -> {Nil, "found", "miss", "fails", "open"}]
          /\ \A q \in Requests \ {r} : local'[q] = local[q]
      BY <1>5 DEF CascadeInv, CascadeTypes
    <2>5. CascadeTypes'
      BY <1>1, <1>2, <1>5, <2>3, <2>4 DEF CascadeInv, CascadeTypes
    <2>6. Gated'
      BY <1>1, <1>5, GatedKeeps
    <2>7. Left'
      BY <1>1, <1>3, <1>5, <2>3, <2>4, LeftKeeps
    <2>8. Tripped'
      BY <1>1, <1>5, <2>1, <2>3, ReportedKeeps
    <2> QED BY <2>5, <2>6, <2>7, <2>8 DEF CascadeInv
  <1>6. CASE /\ outcome # "found" /\ Lands(r, "oda")
             /\ LET result == IF f.run = 1 THEN "open" ELSE outcome IN
                  /\ local' = [local EXCEPT ![r] = result]
                  /\ IF Awaited(r, "oda") THEN OdaFails(r, result) ELSE UNCHANGED <<at, caller>>
             /\ UNCHANGED cache
    <2> PICK result : result = IF f.run = 1 THEN "open" ELSE outcome
      OBVIOUS
    <2>1. /\ flight' \in [Requests -> [Entries -> Operation \cup {Nil}]]
          /\ \A q \in Requests \ {r} : flight'[q] = flight[q]
          /\ flight'[r]["oda"] = Nil
      <3>1. flight' = [flight EXCEPT ![r]["oda"] = Nil] /\ CascadeTypes /\ "oda" \in Entries
        BY <1>6, Constants DEF Lands, CascadeInv
      <3>2. Nil \in Operation \cup {Nil}
        OBVIOUS
      <3> QED BY <3>1, <3>2, FlightIs
    <2>2. /\ local' = [local EXCEPT ![r] = result]
          /\ IF Awaited(r, "oda") THEN OdaFails(r, result) ELSE UNCHANGED <<at, caller>>
          /\ UNCHANGED cache
      BY <1>6
    <2>3. /\ local' \in [Requests -> {Nil, "found", "miss", "fails", "open"}]
          /\ \A q \in Requests : local'[q] = IF q = r THEN result ELSE local[q]
      BY <2>2 DEF CascadeInv, CascadeTypes
    <2>4. /\ caller' \in [Requests -> Answer \cup Words \cup {Nil}]
          /\ \A q \in Requests : caller'[q] = caller[q] \/ (q = r /\ caller'[q] \in Words)
          /\ at' \in [Requests -> Entries \cup {"idle", "done"}]
          /\ \A q \in Requests \ {r} : at'[q] = at[q]
          /\ \/ at'[r] = "done"
             \/ at'[r] = "geogratis" /\ result \in {"miss", "open"} /\ query[r] \notin CentroidOnly
             \/ at'[r] = at[r] /\ at[r] # "oda"
      <3>1. CASE OdaFails(r, result)
        BY <3>1, OdaFailsIs DEF CascadeInv
      <3>2. CASE UNCHANGED <<at, caller>> /\ at[r] # "oda"
        BY <3>2 DEF CascadeInv, CascadeTypes
      <3> QED BY <2>2, <3>1, <3>2 DEF Awaited
    <2>5. CascadeTypes'
      BY <1>1, <1>2, <2>1, <2>2, <2>3, <2>4 DEF CascadeInv, CascadeTypes
    <2>6. Gated'
      BY <1>1, <2>2, <2>4, GatedKeeps
    <2>7. Left'
      BY <1>1, <1>3, <2>1, <2>3, <2>4, LeftKeeps
    <2>8. Tripped'
      BY <1>1, <2>1, <2>4, ReportedKeeps
    <2> QED BY <2>5, <2>6, <2>7, <2>8 DEF CascadeInv
  <1>7. OdaRuns(r, outcome)
    OBVIOUS
  <1> QED BY <1>4, <1>5, <1>6, <1>7 DEF OdaRuns

(* What the other entries do, which touch nothing of the local database: a  *)
(* request of theirs ends, goes on to the next, or stays where it is.       *)
LEMMA OthersKeep ==
  ASSUME CascadeInv, NEW r \in Requests, UNCHANGED <<usesOda, query, local>>,
         NEW s \in Entries \ {"oda"}, NEW o \in Operation \cup {Nil}, NEW a \in Answer,
         flight[r][s] # Nil,
         flight' = [flight EXCEPT ![r][s] = o],
         Fits(s, a), Gate(query[r], a),
         circuit' \in [Keys -> Circuit], failed' \in [Keys -> SUBSET Requests],
         circuit'["oda"] = circuit["oda"], failed'["oda"] = failed["oda"],
         \/ UNCHANGED <<at, caller, cache>>
         \/ (s = "reverse" \/ at[r] = s) /\ Returns(r, s, a)
         \/ (s = "reverse" \/ at[r] = s) /\ UNCHANGED cache /\ (Ends(r, Failed) \/ Ends(r, Nameless))
         \/ s = "geogratis" /\ at[r] = s /\ Falls(r, "external") /\ UNCHANGED cache
  PROVE  CascadeInv'
  <1>1. /\ flight' \in [Requests -> [Entries -> Operation \cup {Nil}]]
        /\ \A q \in Requests : flight'[q]["oda"] = flight[q]["oda"]
    <2>1. CascadeTypes /\ s \in Entries /\ "oda" \in Entries \ {s}
      BY Constants DEF CascadeInv
    <2>2. /\ flight' \in [Requests -> [Entries -> Operation \cup {Nil}]]
          /\ \A q \in Requests \ {r} : flight'[q] = flight[q]
          /\ \A t \in Entries \ {s} : flight'[r][t] = flight[r][t]
      BY <2>1, FlightIs
    <2> QED BY <2>1, <2>2
  <1>2. /\ caller' \in [Requests -> Answer \cup Words \cup {Nil}]
        /\ \A q \in Requests :
             caller'[q] = caller[q] \/ (q = r /\ (caller'[q] = a \/ caller'[q] \in Words))
        /\ at' \in [Requests -> Entries \cup {"idle", "done"}]
        /\ \A q \in Requests \ {r} : at'[q] = at[q]
        /\ \/ at'[r] = "done"
           \/ at'[r] = at[r]
           \/ at'[r] = "external" /\ at[r] = "geogratis"
        /\ cache' \in [Entries -> [Folds -> Answer \cup {Nil}]]
        /\ \A t \in Entries, k \in Folds : cache'[t][k] = cache[t][k] \/ (t = s /\ cache'[t][k] = a)
    <2>1. CASE UNCHANGED <<at, caller, cache>>
      BY <2>1 DEF CascadeInv, CascadeTypes
    <2>2. CASE Returns(r, s, a)
      <3>1. Ends(r, a)
        BY <2>2 DEF Returns
      <3> QED BY <2>2, <3>1, ReturnsIs, EndsIs DEF CascadeInv
    <2>3. CASE UNCHANGED cache /\ (Ends(r, Failed) \/ Ends(r, Nameless))
      <3>1. Failed \in Words /\ Nameless \in Words
        BY DEF Words
      <3>2. cache' \in [Entries -> [Folds -> Answer \cup {Nil}]]
        BY <2>3 DEF CascadeInv, CascadeTypes
      <3>3. CASE Ends(r, Failed)
        BY <2>3, <3>1, <3>2, <3>3, EndsIs DEF CascadeInv
      <3>4. CASE Ends(r, Nameless)
        BY <2>3, <3>1, <3>2, <3>4, EndsIs DEF CascadeInv
      <3> QED BY <2>3, <3>3, <3>4
    <2>4. CASE at[r] = "geogratis" /\ Falls(r, "external") /\ UNCHANGED cache
      BY <2>4, FallsIs, Constants DEF CascadeInv, CascadeTypes
    <2> QED BY <2>1, <2>2, <2>3, <2>4
  <1>3. CascadeTypes'
    BY <1>1, <1>2 DEF CascadeInv, CascadeTypes
  <1>4. Gated'
    BY <1>2, GatedKeeps
  <1>5. Left'
    BY <1>1, <1>2, LeftKeeps DEF CascadeInv, Left
  <1>6. Tripped'
    <2>1. r \in failed["oda"] => /\ at'[r] # "idle"
                                 /\ at'[r] = "oda" => flight'[r]["oda"] # Nil
                                 /\ flight'[r]["oda"] # Nil => flight'[r]["oda"].run = 2
      BY <1>1, <1>2 DEF CascadeInv, Tripped
    <2> QED BY <1>1, <1>2, <2>1, TrippedKeeps
  <1> QED BY <1>3, <1>4, <1>5, <1>6 DEF CascadeInv

LEMMA GeogratisRunsKeeps ==
  ASSUME CascadeInv, NEW r \in Requests, NEW outcome \in Outcomes, NEW quality \in Qualities,
         GeogratisRuns(r, outcome, quality)
  PROVE  CascadeInv'
  <1> PICK f : f = flight[r]["geogratis"]
    OBVIOUS
  <1> PICK a : a = [from |-> "geogratis", quality |-> quality]
    OBVIOUS
  <1>1. /\ f # Nil /\ f \in Operation /\ UNCHANGED <<usesOda, query, circuit, failed, local>>
        /\ "geogratis" \in Entries \ {"oda"}
    BY Constants DEF GeogratisRuns, CascadeInv, CascadeTypes
  <1>2. a \in Answer /\ Fits("geogratis", a) /\ a.from = "geogratis"
    BY DEF Answer, Sources, Entries, Fits
  <1>3. circuit' \in [Keys -> Circuit] /\ failed' \in [Keys -> SUBSET Requests]
    BY <1>1 DEF CascadeInv, CascadeTypes
  <1> PICK b \in Answer : b = IF AcceptsFresh("geogratis", query[r], a) THEN a
                              ELSE [from |-> "oda", quality |-> "exact"]
    BY <1>2 DEF Answer, Sources, Entries, Qualities
  <1>4. Fits("geogratis", b) /\ Gate(query[r], b)
    BY <1>2 DEF Fits, Gate, AcceptsFresh, Accepts
  <1>5. CASE outcome = "fails" /\ f.try < MaxAttempts
    <2> PICK o : o = [f EXCEPT !.try = f.try + 1]
      OBVIOUS
    <2>1. o \in Operation /\ flight' = [flight EXCEPT ![r]["geogratis"] = o]
          /\ UNCHANGED <<at, caller, cache>>
      BY <1>1, <1>5, Constants DEF GeogratisRuns, Operation
    <2> QED BY <1>1, <1>3, <1>4, <2>1, OthersKeep
  <1>6. CASE ~(outcome = "fails" /\ f.try < MaxAttempts)
    <2>1. flight' = [flight EXCEPT ![r]["geogratis"] = Nil]
      BY <1>6 DEF GeogratisRuns, Lands
    <2>2. \/ UNCHANGED <<at, caller, cache>>
          \/ at[r] = "geogratis" /\ Returns(r, "geogratis", b)
          \/ at[r] = "geogratis" /\ Falls(r, "external") /\ UNCHANGED cache
      BY <1>6 DEF GeogratisRuns, Awaited
    <2> QED BY <1>1, <1>3, <1>4, <2>1, <2>2, OthersKeep
  <1> QED BY <1>5, <1>6

LEMMA ExternalRunsKeeps ==
  ASSUME CascadeInv, NEW r \in Requests, NEW outcome \in Outcomes, ExternalRuns(r, outcome)
  PROVE  CascadeInv'
  <1> PICK f : f = flight[r]["external"]
    OBVIOUS
  <1>1. /\ f # Nil /\ f \in Operation /\ UNCHANGED <<usesOda, query, local>>
        /\ "external" \in Entries \ {"oda"} /\ "external" \in Keys
    BY Constants DEF ExternalRuns, CascadeInv, CascadeTypes
  <1>2. f.provider \in 1 .. Len(Providers) /\ f.try \in 1 .. MaxAttempts
    BY <1>1 DEF Operation
  <1> PICK a : a = [from |-> Providers[f.provider], quality |-> "exact"]
    OBVIOUS
  <1>3. a \in Answer /\ Fits("external", a) /\ Gate(query[r], a)
    BY <1>2, Constants DEF Answer, Qualities, Fits, Gate
  <1> PICK first : first = [run |-> 2, try |-> 1, provider |-> 1]
    OBVIOUS
  <1>4. first \in Operation
    BY Constants DEF Operation
  <1>5. ASSUME Reports("external", r, f.run, outcome)
        PROVE  /\ circuit' \in [Keys -> Circuit] /\ failed' \in [Keys -> SUBSET Requests]
               /\ circuit'["oda"] = circuit["oda"] /\ failed'["oda"] = failed["oda"]
    BY <1>1, <1>5, ReportsIs DEF CascadeInv
  <1>6. CASE /\ outcome = "found" /\ Lands(r, "external")
             /\ Reports("external", r, f.run, outcome)
             /\ IF Awaited(r, "external") THEN Returns(r, "external", a)
                ELSE UNCHANGED <<at, caller, cache>>
    <2>1. flight' = [flight EXCEPT ![r]["external"] = Nil]
      BY <1>6 DEF Lands
    <2>2. UNCHANGED <<at, caller, cache>> \/ (at[r] = "external" /\ Returns(r, "external", a))
      BY <1>6 DEF Awaited
    <2>3. /\ circuit' \in [Keys -> Circuit] /\ failed' \in [Keys -> SUBSET Requests]
          /\ circuit'["oda"] = circuit["oda"] /\ failed'["oda"] = failed["oda"]
      BY <1>5, <1>6
    <2> QED BY <1>1, <1>3, <2>1, <2>2, <2>3, OthersKeep
  <1>7. CASE /\ outcome # "found"
             /\ ~(\/ outcome = "miss" /\ f.provider = Len(Providers)
                  \/ outcome = "fails" /\ f.try = MaxAttempts
                  \/ outcome = "barred")
             /\ flight' = [flight EXCEPT ![r].external =
                  IF outcome = "miss" THEN [f EXCEPT !.provider = @ + 1]
                  ELSE [f EXCEPT !.try = @ + 1, !.provider = 1]]
             /\ UNCHANGED <<at, caller, cache, circuit, failed>>
    <2> PICK o : o = IF outcome = "miss" THEN [f EXCEPT !.provider = f.provider + 1]
                     ELSE [f EXCEPT !.try = f.try + 1, !.provider = 1]
      OBVIOUS
    <2>1. flight' = [flight EXCEPT ![r]["external"] = o]
      <3>1. o = IF outcome = "miss" THEN [f EXCEPT !.provider = @ + 1]
                ELSE [f EXCEPT !.try = @ + 1, !.provider = 1]
        OBVIOUS
      <3> QED BY <3>1, <1>7
    <2>2. o \in Operation
      <3>1. CASE outcome = "miss"
        <4> PICK m \in Nat \ {0} : m = Len(Providers)
          BY Constants
        <4>1. f.provider \in 1 .. m /\ f.provider # m
          BY <3>1, <1>7, <1>2
        <4>2. f.provider + 1 \in 1 .. m
          BY <4>1
        <4>3. f.provider + 1 \in 1 .. Len(Providers)
          BY <4>2
        <4> QED BY <3>1, <4>3, <1>1 DEF Operation
      <3>2. CASE outcome = "fails"
        <4>1. f.try + 1 \in 1 .. MaxAttempts /\ 1 \in 1 .. Len(Providers)
          BY <3>2, <1>7, <1>2, Constants
        <4> QED BY <3>2, <4>1, <1>1 DEF Operation
      <3> QED BY <1>7, <3>1, <3>2 DEF Outcomes, Responses
    <2>3. circuit' \in [Keys -> Circuit] /\ failed' \in [Keys -> SUBSET Requests]
          /\ circuit'["oda"] = circuit["oda"] /\ failed'["oda"] = failed["oda"]
      BY <1>7 DEF CascadeInv, CascadeTypes
    <2>4. UNCHANGED <<at, caller, cache>>
      BY <1>7
    <2> QED BY <1>1, <1>3, <2>1, <2>2, <2>3, <2>4, OthersKeep
  <1>8. CASE /\ Reports("external", r, f.run, outcome)
             /\ \/ /\ f.run = 1
                   /\ flight' = [flight EXCEPT ![r].external = first]
                   /\ UNCHANGED <<at, caller>>
                \/ /\ Lands(r, "external")
                   /\ IF Awaited(r, "external") THEN Ends(r, Failed) ELSE UNCHANGED <<at, caller>>
             /\ UNCHANGED cache
    <2>1. /\ circuit' \in [Keys -> Circuit] /\ failed' \in [Keys -> SUBSET Requests]
          /\ circuit'["oda"] = circuit["oda"] /\ failed'["oda"] = failed["oda"]
      BY <1>5, <1>8
    <2>2. PICK o \in Operation \cup {Nil} : flight' = [flight EXCEPT ![r]["external"] = o]
      BY <1>4, <1>8 DEF Lands
    <2>3. \/ UNCHANGED <<at, caller, cache>>
          \/ at[r] = "external" /\ Ends(r, Failed) /\ UNCHANGED cache
      BY <1>8 DEF Awaited
    <2> QED BY <1>1, <1>3, <2>1, <2>2, <2>3, OthersKeep
  <1>9. ExternalRuns(r, outcome)
    OBVIOUS
  <1> QED BY <1>6, <1>7, <1>8, <1>9 DEF ExternalRuns

LEMMA ReverseRunsKeeps ==
  ASSUME CascadeInv, NEW r \in Requests, NEW outcome \in Outcomes, ReverseRuns(r, outcome)
  PROVE  CascadeInv'
  <1> PICK f : f = flight[r]["reverse"]
    OBVIOUS
  <1>1. /\ f # Nil /\ f \in Operation /\ UNCHANGED <<usesOda, query, local>>
        /\ "reverse" \in Entries \ {"oda"} /\ "reverse" \in Keys
    BY Constants DEF ReverseRuns, CascadeInv, CascadeTypes
  <1> PICK a : a = [from |-> "reverse", quality |-> "exact"]
    OBVIOUS
  <1>2. a \in Answer /\ Fits("reverse", a) /\ Gate(query[r], a)
    BY DEF Answer, Sources, Entries, Qualities, Fits, Gate
  <1> PICK first : first = [run |-> 2, try |-> 1, provider |-> 1]
    OBVIOUS
  <1>3. first \in Operation
    BY Constants DEF Operation
  <1>4. ASSUME NEW told, Reports("reverse", r, f.run, told)
        PROVE  /\ circuit' \in [Keys -> Circuit] /\ failed' \in [Keys -> SUBSET Requests]
               /\ circuit'["oda"] = circuit["oda"] /\ failed'["oda"] = failed["oda"]
    BY <1>1, <1>4, ReportsIs DEF CascadeInv
  <1>5. CASE /\ outcome = "fails" /\ f.try < MaxAttempts
             /\ flight' = [flight EXCEPT ![r].reverse.try = @ + 1]
             /\ UNCHANGED <<at, caller, cache, circuit, failed>>
    <2> PICK o : o = [f EXCEPT !.try = f.try + 1]
      OBVIOUS
    <2>1. o \in Operation
      BY <1>1, <1>5, Constants DEF Operation
    <2>4. flight' = [flight EXCEPT ![r]["reverse"] = o]
      <3>1. flight[r]["reverse"].try = f.try
        OBVIOUS
      <3> QED BY <1>5
    <2>2. circuit' \in [Keys -> Circuit] /\ failed' \in [Keys -> SUBSET Requests]
          /\ circuit'["oda"] = circuit["oda"] /\ failed'["oda"] = failed["oda"]
      BY <1>5 DEF CascadeInv, CascadeTypes
    <2>3. UNCHANGED <<at, caller, cache>>
      BY <1>5
    <2> QED BY <1>1, <1>2, <2>1, <2>2, <2>3, <2>4, OthersKeep
  <1>6. CASE /\ Reports("reverse", r, f.run, "fails")
             /\ \/ /\ f.run = 1
                   /\ flight' = [flight EXCEPT ![r].reverse = first]
                   /\ UNCHANGED <<at, caller>>
                \/ Lands(r, "reverse") /\ Ends(r, Nameless)
             /\ UNCHANGED cache
    <2>1. /\ circuit' \in [Keys -> Circuit] /\ failed' \in [Keys -> SUBSET Requests]
          /\ circuit'["oda"] = circuit["oda"] /\ failed'["oda"] = failed["oda"]
      BY <1>4, <1>6
    <2>2. PICK o \in Operation \cup {Nil} : flight' = [flight EXCEPT ![r]["reverse"] = o]
      BY <1>3, <1>6 DEF Lands
    <2>3. \/ UNCHANGED <<at, caller, cache>>
          \/ Ends(r, Nameless) /\ UNCHANGED cache
      BY <1>6
    <2> QED BY <1>1, <1>2, <2>1, <2>2, <2>3, OthersKeep
  <1>7. CASE /\ Lands(r, "reverse")
             /\ Reports("reverse", r, f.run, "found")
             /\ IF outcome = "found" THEN Returns(r, "reverse", a)
                ELSE Ends(r, Nameless) /\ UNCHANGED cache
    <2>1. /\ circuit' \in [Keys -> Circuit] /\ failed' \in [Keys -> SUBSET Requests]
          /\ circuit'["oda"] = circuit["oda"] /\ failed'["oda"] = failed["oda"]
      BY <1>4, <1>7
    <2>2. flight' = [flight EXCEPT ![r]["reverse"] = Nil]
      BY <1>7 DEF Lands
    <2>3. \/ Returns(r, "reverse", a)
          \/ Ends(r, Nameless) /\ UNCHANGED cache
      BY <1>7
    <2> QED BY <1>1, <1>2, <2>1, <2>2, <2>3, OthersKeep
  <1>8. ReverseRuns(r, outcome)
    OBVIOUS
  <1> QED BY <1>5, <1>6, <1>7, <1>8 DEF ReverseRuns

LEMMA StageTimesOutKeeps ==
  ASSUME CascadeInv, NEW r \in Requests, StageTimesOut(r)
  PROVE  CascadeInv'
  <1>1. /\ at[r] \in {"oda", "geogratis", "external"} /\ flight[r][at[r]] # Nil
        /\ UNCHANGED <<usesOda, query, flight, cache, circuit, failed, local>>
    BY DEF StageTimesOut, Entries
  <1>2. /\ caller' \in [Requests -> Answer \cup Words \cup {Nil}]
        /\ \A q \in Requests : caller'[q] = caller[q] \/ (q = r /\ caller'[q] \in Words)
        /\ at' \in [Requests -> Entries \cup {"idle", "done"}]
        /\ \A q \in Requests \ {r} : at'[q] = at[q]
        /\ at'[r] = "done" \/ (at'[r] = "external" /\ at[r] = "geogratis")
    <2>1. CASE at[r] = "oda"
      <3>1. OdaFails(r, "timeout")
        BY <2>1 DEF StageTimesOut
      <3> QED BY <3>1, OdaFailsIs DEF CascadeInv
    <2>2. CASE at[r] = "geogratis"
      <3>1. Falls(r, "external")
        BY <2>2 DEF StageTimesOut
      <3> QED BY <2>2, <3>1, FallsIs, Constants DEF CascadeInv, CascadeTypes
    <2>3. CASE at[r] = "external"
      <3>1. Ends(r, TimedOut) /\ TimedOut \in Words
        BY <2>3 DEF StageTimesOut, Words
      <3> QED BY <3>1, EndsIs DEF CascadeInv
    <2> QED BY <1>1, <2>1, <2>2, <2>3
  <1>3. CascadeTypes'
    BY <1>1, <1>2 DEF CascadeInv, CascadeTypes
  <1>4. Gated'
    BY <1>1, <1>2, GatedKeeps
  <1>5. Left'
    BY <1>1, <1>2, LeftKeeps DEF CascadeInv, Left
  <1>6. Tripped'
    BY <1>1, <1>2, TrippedKeeps DEF CascadeInv, Tripped
  <1> QED BY <1>3, <1>4, <1>5, <1>6 DEF CascadeInv

LEMMA TotalTimesOutKeeps ==
  ASSUME CascadeInv, NEW r \in Requests, TotalTimesOut(r)
  PROVE  CascadeInv'
  <1>1. UNCHANGED <<usesOda, query, at, flight, cache, circuit, failed, local>>
    BY DEF TotalTimesOut
  <1>2. /\ caller' \in [Requests -> Answer \cup Words \cup {Nil}]
        /\ \A q \in Requests : caller'[q] = caller[q] \/ (q = r /\ caller'[q] \in Words)
    BY TellsIs DEF TotalTimesOut, Words, CascadeInv
  <1>3. CascadeTypes'
    BY <1>1, <1>2 DEF CascadeInv, CascadeTypes
  <1>4. Gated'
    BY <1>1, <1>2, GatedKeeps
  <1>5. Left' /\ Tripped'
    BY <1>1 DEF CascadeInv, Left, Tripped, OdaTripsOnFailure
  <1> QED BY <1>3, <1>4, <1>5 DEF CascadeInv

LEMMA CascadeGoesOn ==
  ASSUME CascadeInv, [CascadeNext]_cascadeVars
  PROVE  CascadeInv'
  <1>1. CASE UNCHANGED cascadeVars
    <2>1. CascadeTypes' /\ Left'
      BY <1>1 DEF CascadeInv, CascadeTypes, Left, cascadeVars
    <2>2. Gated' /\ Tripped'
      BY <1>1 DEF CascadeInv, Gated, Told, Tripped, OdaTripsOnFailure, cascadeVars
    <2> QED BY <2>1, <2>2 DEF CascadeInv
  <1>2. CASE CascadeNext
    <2>1. PICK r \in Requests : CascadeStep(r)
      BY <1>2 DEF CascadeNext
    <2>2. Outcomes \ {"barred"} = {"found", "fails", "miss"}
      BY DEF Outcomes, Responses
    <2>3. CASE Begins(r) \/ Hits(r) \/ Misses(r)
      BY <2>3, BeginsKeeps, HitsKeeps, MissesKeeps
    <2>4. CASE \E o \in Outcomes \ {"barred"} : OdaRuns(r, o)
      BY <2>2, <2>4, OdaRunsKeeps
    <2>5. CASE \E o \in Outcomes \ {"barred"} : ReverseRuns(r, o)
      BY <2>5, ReverseRunsKeeps
    <2>6. CASE \E o \in Outcomes : ExternalRuns(r, o)
      BY <2>6, ExternalRunsKeeps
    <2>7. CASE \E o \in Outcomes, q \in Qualities : GeogratisRuns(r, o, q)
      BY <2>7, GeogratisRunsKeeps
    <2>8. CASE StageTimesOut(r) \/ TotalTimesOut(r)
      BY <2>8, StageTimesOutKeeps, TotalTimesOutKeeps
    <2> QED BY <2>1, <2>3, <2>4, <2>5, <2>6, <2>7, <2>8 DEF CascadeStep
  <1> QED BY <1>1, <1>2

(* No caller is given an answer of GeoGratis that its own query would not   *)
(* have accepted, however caches are shared and however late an operation   *)
(* of geocoding.ts ends, for any requests, queries and providers.           *)
THEOREM AnswersPassTheirGates == CascadeSpec => []AnswersPassGates
  <1>1. CascadeInit => CascadeInv
    BY CascadeBegins
  <1>2. CascadeInv /\ [CascadeNext]_cascadeVars => CascadeInv'
    BY CascadeGoesOn
  <1>3. CascadeInv => AnswersPassGates
    BY DEF CascadeInv, Gated, Gate, AnswersPassGates
  <1> QED BY <1>1, <1>2, <1>3, PTL DEF CascadeSpec

(* A request leaves the local database for a miss or a refusal, never a     *)
(* centroid query, and its circuit opens for as many requests it failed as  *)
(* the threshold says (oda-geocoding.ts), for any requests and thresholds   *)
(* and however operations outlive their stages or are run again.            *)
THEOREM LocalDatabaseFirst == CascadeSpec => []LocalFirst
  <1>1. CascadeInit => CascadeInv
    BY CascadeBegins
  <1>2. CascadeInv /\ [CascadeNext]_cascadeVars => CascadeInv'
    BY CascadeGoesOn
  <1>3. CascadeInv => LocalFirst
    BY DEF CascadeInv, Left, Tripped, LocalFirst, LeavesForAReason
  <1> QED BY <1>1, <1>2, <1>3, PTL DEF CascadeSpec

(***************************************************************************)
(* The ridings a lookup tells, whatever is cached, loaded or synchronised. *)
(***************************************************************************)
(* What a version published by now says of a point stays what a published   *)
(* version says; so each of the following, once true of a value, stays true.*)
TrueRow(d, r) == \E v \in 1 .. published[d] : r \in Range(File[d][v])

TrueMemory(d, m) == /\ m.file # None => m.file \in 1 .. published[d]
                    /\ m.index # None => m.index \in 1 .. published[d]

TrueLoad(x) == x # None => x[1] \in Datasets /\ x[2] \in 1 .. published[x[1]]

TrueSync(d, s) == s # None => s.version \in 1 .. published[d]

TrueWork(l, w) ==
  /\ w.of \in Datasets /\ w.point \in Points \cup {None}
  /\ w.at \in {"database", "index", "file"} => w.point \in Points
  /\ w.at = "geocoder" => w.point = None
  /\ w.at = "cache" /\ w.of = Query[l].path /\ Query[l].at = None => w.point = None
  /\ Query[l].at # None => w.point = Query[l].at
  /\ w.of = Query[l].path => w.riding = None
  /\ w.of # Query[l].path => /\ w.riding # None /\ w.of = ProvinceOf[w.riding]
                             /\ w.point \in Points
                             /\ TrueFor(l, w.point, w.riding)

TrueAnswer(l, a) ==
  a \notin {None, Error} =>
    /\ TrueFor(l, a.point, a.riding)
    /\ a.province # <<>> => /\ ProvinceOf[a.riding] \in Datasets
                            /\ NearlyTrue(ProvinceOf[a.riding], a.point, a.province[1])

TrueEntry(e, x) ==
  /\ e[1] \in Datasets /\ x.point \in Points
  /\ e[2][1] = "coordinate" => Rounded[x.point] = e[2][2]
  /\ TrueOf(e[1], x.point, x.riding)

(* What is warmed for a place: under its coordinates, and its postal code.  *)
EntriesFor(k, p) ==
  {<<d, key>> : d \in Datasets, key \in {KeyAt(p), <<"postal", Brief[k[2]]>>}}

TrueWarm(k, w) ==
  /\ w.at \in {"next", "keep"} => /\ w.todo \in Seq(EntriesFor(k, w.point)) /\ w.todo # <<>>
                                 /\ w.point \in Points
  /\ w.at = "keep" => TrueOf(w.todo[1][1], w.point, w.riding)

Filed == /\ memory = [d \in Datasets |-> memory[d]] /\ \A d \in Datasets : TrueMemory(d, memory[d])
         /\ loading = [l \in Lookups |-> loading[l]] /\ \A l \in Lookups : TrueLoad(loading[l])
         /\ sync = [d \in Datasets |-> sync[d]] /\ \A d \in Datasets : TrueSync(d, sync[d])
Tabled == /\ rows = [d \in Datasets |-> rows[d]]
          /\ \A d \in Datasets : \A i \in DOMAIN rows[d] : TrueRow(d, rows[d][i])
Worked == /\ work = [l \in Lookups |-> work[l]] /\ \A l \in Lookups : TrueWork(l, work[l])
          /\ answer = [l \in Lookups |-> answer[l]] /\ \A l \in Lookups : TrueAnswer(l, answer[l])
KeptTrue == \A e \in DOMAIN kept : TrueEntry(e, kept[e])
Warmed == warm = [k \in Popular |-> warm[k]] /\ \A k \in Popular : TrueWarm(k, warm[k])

(* A lookup waits for the file of the dataset it asks. *)
Waiting == \A l \in Lookups : work[l].at = "file" => loading[l][1] = work[l].of

LookupInv ==
  /\ published \in [Datasets -> 1 .. LastVersion]
  /\ Filed /\ Tabled /\ Worked /\ KeptTrue /\ Warmed /\ Waiting

Rises == /\ published \in [Datasets -> 1 .. LastVersion]
         /\ published' \in [Datasets -> 1 .. LastVersion]
         /\ \A d \in Datasets : published[d] <= published'[d]

LEMMA StaysTrue ==
  ASSUME Rises
  PROVE  /\ \A d \in Datasets : \A p, r : TrueOf(d, p, r) => TrueOf(d, p, r)'
         /\ \A d \in Datasets : \A p, r : NearlyTrue(d, p, r) => NearlyTrue(d, p, r)'
         /\ \A l \in Lookups : \A p, r : TrueFor(l, p, r) => TrueFor(l, p, r)'
         /\ \A d \in Datasets : \A r : TrueRow(d, r) => TrueRow(d, r)'
         /\ \A d \in Datasets : \A m : TrueMemory(d, m) => TrueMemory(d, m)'
         /\ \A x : TrueLoad(x) => TrueLoad(x)'
         /\ \A d \in Datasets : \A s : TrueSync(d, s) => TrueSync(d, s)'
         /\ \A l \in Lookups : \A w : TrueWork(l, w) => TrueWork(l, w)'
         /\ \A l \in Lookups : \A a : TrueAnswer(l, a) => TrueAnswer(l, a)'
         /\ \A e, x : TrueEntry(e, x) => TrueEntry(e, x)'
         /\ \A k, w : TrueWarm(k, w) => TrueWarm(k, w)'
  <1>1. \A d \in Datasets : 1 .. published[d] \subseteq 1 .. published'[d]
    BY LookupConstants DEF Rises
  <1>2. \A d \in Datasets : \A p, r : TrueOf(d, p, r) => TrueOf(d, p, r)'
    BY <1>1 DEF TrueOf, RidingsAt, Holding, Candidates, IndexOf
  <1>3. \A d \in Datasets : \A r : TrueRow(d, r) => TrueRow(d, r)'
    BY <1>1 DEF TrueRow
  <1>4. \A d \in Datasets : \A m : TrueMemory(d, m) => TrueMemory(d, m)'
    BY <1>1 DEF TrueMemory
  <1>5. \A x : TrueLoad(x) => TrueLoad(x)'
    BY <1>1 DEF TrueLoad
  <1>6. \A d \in Datasets : \A s : TrueSync(d, s) => TrueSync(d, s)'
    BY <1>1 DEF TrueSync
  <1>7. \A l \in Lookups : Query[l].path \in Datasets
    BY LookupConstants DEF LookupQueries
  <1>12. \A d \in Datasets : \A p, r : NearlyTrue(d, p, r) => NearlyTrue(d, p, r)'
    BY <1>2 DEF NearlyTrue
  <1>13. \A l \in Lookups : \A p, r : TrueFor(l, p, r) => TrueFor(l, p, r)'
    BY <1>2, <1>7, <1>12 DEF TrueFor
  <1>8. \A l \in Lookups : \A w : TrueWork(l, w) => TrueWork(l, w)'
    BY <1>13 DEF TrueWork
  <1>9. \A l \in Lookups : \A a : TrueAnswer(l, a) => TrueAnswer(l, a)'
    BY <1>12, <1>13 DEF TrueAnswer
  <1>10. \A e, x : TrueEntry(e, x) => TrueEntry(e, x)'
    BY <1>2 DEF TrueEntry
  <1>11. ASSUME NEW k, NEW w, TrueWarm(k, w) PROVE TrueWarm(k, w)'
    <2>1. CASE w.at = "keep"
      <3>1. w.todo \in Seq(EntriesFor(k, w.point)) /\ w.todo # <<>>
        BY <1>11, <2>1 DEF TrueWarm
      <3>2. w.todo[1] \in EntriesFor(k, w.point)
        BY <3>1, EmptySeq, ElementOfSeq
      <3>3. w.todo[1][1] \in Datasets
        BY <3>2 DEF EntriesFor
      <3> QED  BY <1>2, <1>11, <3>1, <3>3 DEF TrueWarm, EntriesFor
    <2> QED  BY <1>11, <2>1 DEF TrueWarm, EntriesFor
  <1> QED  BY <1>2, <1>3, <1>4, <1>5, <1>6, <1>8, <1>9, <1>10, <1>11, <1>12, <1>13

(* Each part of the invariant is kept when what changes of it is true.      *)
LEMMA FiledKeeps ==
  ASSUME Rises, Filed,
         memory' = [d \in Datasets |-> memory'[d]],
         loading' = [l \in Lookups |-> loading'[l]], sync' = [d \in Datasets |-> sync'[d]],
         \A d \in Datasets : memory'[d] = memory[d] \/ \E m : m = memory'[d] /\ TrueMemory(d, m),
         \A l \in Lookups : loading'[l] = loading[l] \/ \E x : x = loading'[l] /\ TrueLoad(x),
         \A d \in Datasets : sync'[d] = sync[d] \/ \E s : s = sync'[d] /\ TrueSync(d, s)
  PROVE  Filed'
  <1>1. ASSUME NEW d \in Datasets PROVE TrueMemory(d, memory[d])'
    <2> PICK m : m = memory'[d]  OBVIOUS
    <2>1. TrueMemory(d, m)  BY DEF Filed
    <2>2. TrueMemory(d, m)'  BY <2>1, StaysTrue
    <2> QED  BY <2>2 DEF TrueMemory
  <1>2. ASSUME NEW l \in Lookups PROVE TrueLoad(loading[l])'
    <2> PICK m : m = loading'[l]  OBVIOUS
    <2>1. TrueLoad(m)  BY DEF Filed
    <2>2. TrueLoad(m)'  BY <2>1, StaysTrue
    <2> QED  BY <2>2 DEF TrueLoad
  <1>3. ASSUME NEW d \in Datasets PROVE TrueSync(d, sync[d])'
    <2> PICK m : m = sync'[d]  OBVIOUS
    <2>1. TrueSync(d, m)  BY DEF Filed
    <2>2. TrueSync(d, m)'  BY <2>1, StaysTrue
    <2> QED  BY <2>2 DEF TrueSync
  <1> QED  BY <1>1, <1>2, <1>3 DEF Filed

LEMMA TabledKeeps ==
  ASSUME Rises, Tabled, rows' = [d \in Datasets |-> rows'[d]],
         \A d \in Datasets : \A i \in DOMAIN rows'[d] :
           \/ i \in DOMAIN rows[d] /\ rows'[d][i] = rows[d][i]
           \/ \E r : r = rows'[d][i] /\ TrueRow(d, r)
  PROVE  Tabled'
  <1>1. ASSUME NEW d \in Datasets, NEW i \in DOMAIN rows'[d] PROVE TrueRow(d, rows[d][i])'
    <2> PICK r : r = rows'[d][i]  OBVIOUS
    <2>1. TrueRow(d, r)  BY DEF Tabled
    <2>2. TrueRow(d, r)'  BY <2>1, StaysTrue
    <2> QED  BY <2>2 DEF TrueRow
  <1> QED  BY <1>1 DEF Tabled

LEMMA WorkedKeeps ==
  ASSUME Rises, Worked,
         work' = [l \in Lookups |-> work'[l]], answer' = [l \in Lookups |-> answer'[l]],
         \A l \in Lookups : work'[l] = work[l] \/ \E w : w = work'[l] /\ TrueWork(l, w),
         \A l \in Lookups : answer'[l] = answer[l] \/ \E a : a = answer'[l] /\ TrueAnswer(l, a)
  PROVE  Worked'
  <1>1. ASSUME NEW l \in Lookups PROVE TrueWork(l, work[l])'
    <2> PICK w : w = work'[l]  OBVIOUS
    <2>1. TrueWork(l, w)  BY DEF Worked
    <2>2. TrueWork(l, w)'  BY <2>1, StaysTrue
    <2> QED  BY <2>2 DEF TrueWork, TrueFor, NearlyTrue, TrueOf
  <1>2. ASSUME NEW l \in Lookups PROVE TrueAnswer(l, answer[l])'
    <2> PICK a : a = answer'[l]  OBVIOUS
    <2>1. TrueAnswer(l, a)  BY DEF Worked
    <2>2. TrueAnswer(l, a)'  BY <2>1, StaysTrue
    <2> QED  BY <2>2 DEF TrueAnswer, TrueFor, NearlyTrue, TrueOf
  <1> QED  BY <1>1, <1>2 DEF Worked

LEMMA KeptKeeps ==
  ASSUME Rises, KeptTrue,
         \A e \in DOMAIN kept' : \/ e \in DOMAIN kept /\ kept'[e] = kept[e]
                                 \/ \E x : x = kept'[e] /\ TrueEntry(e, x)
  PROVE  KeptTrue'
  <1>1. ASSUME NEW e \in DOMAIN kept' PROVE TrueEntry(e, kept[e])'
    <2> PICK x : x = kept'[e]  OBVIOUS
    <2>1. TrueEntry(e, x)  BY DEF KeptTrue
    <2>2. TrueEntry(e, x)'  BY <2>1, StaysTrue
    <2> QED  BY <2>2 DEF TrueEntry, TrueOf
  <1> QED  BY <1>1 DEF KeptTrue

LEMMA WarmedKeeps ==
  ASSUME Rises, Warmed, warm' = [k \in Popular |-> warm'[k]],
         \A k \in Popular : warm'[k] = warm[k] \/ \E w : w = warm'[k] /\ TrueWarm(k, w)
  PROVE  Warmed'
  <1>1. ASSUME NEW k \in Popular PROVE TrueWarm(k, warm[k])'
    <2> PICK w : w = warm'[k]  OBVIOUS
    <2>1. TrueWarm(k, w)  BY DEF Warmed
    <2>2. TrueWarm(k, w)'  BY <2>1, StaysTrue
    <2> QED  BY <2>2 DEF TrueWarm, TrueOf, EntriesFor
  <1> QED  BY <1>1 DEF Warmed

-----------------------------------------------------------------------------
(* The places a riding is found in say what a published version says. *)
LEMMA DatabaseSaysTrue ==
  ASSUME LookupInv, NEW d \in Datasets, NEW p, NEW r \in InDatabase(d, p)
  PROVE  TrueOf(d, p, r)
  <1>1. PICK i \in DOMAIN rows[d] : r = rows[d][i] /\ p \in Land[Stored[r]]
    BY DEF InDatabase
  <1>2. PICK v \in 1 .. published[d] : r \in Range(File[d][v])
    BY <1>1 DEF LookupInv, Tabled, TrueRow
  <1> QED  BY <1>1, <1>2 DEF TrueOf

LEMMA FileSaysTrue ==
  ASSUME NEW d \in Datasets, NEW v \in 1 .. published[d], NEW p, NEW r \in RidingsAt(d, v, p)
  PROVE  TrueOf(d, p, r)
  BY DEF TrueOf

(* Of a neighbour it is told what is told of a point that rounds to the same.*)
LEMMA TrueIsNearlyTrue ==
  ASSUME NEW d, NEW p \in Points, NEW q \in Points, Rounded[p] = Rounded[q], NEW r, TrueOf(d, p, r)
  PROVE  NearlyTrue(d, q, r)
  BY DEF NearlyTrue

LEMMA TellsFromAFile ==
  ASSUME LookupInv, NEW d \in Datasets, NEW p, NEW r, TrueOf(d, p, r)
  PROVE  \E v \in 1 .. LastVersion : r \in Range(File[d][v]) \cup {None}
  <1>1. PICK v \in 1 .. published[d] : r \in RidingsAt(d, v, p) \/ r \in Range(File[d][v])
    BY DEF TrueOf
  <1>2. v \in 1 .. LastVersion
    BY <1>1, LookupConstants DEF LookupInv
  <1> QED  BY <1>1, <1>2 DEF RidingsAt, Holding, Candidates, IndexOf

LEMMA TellsARiding ==
  ASSUME LookupInv, NEW d \in Datasets, NEW p, NEW r, NearlyTrue(d, p, r)
  PROVE  r \in Ridings \cup {None}
  <1>1. PICK q \in Points : TrueOf(d, q, r)
    BY DEF NearlyTrue
  <1> QED  BY <1>1, TellsFromAFile DEF Ridings

LEMMA TellsOwnRiding ==
  ASSUME LookupInv, NEW l \in Lookups, NEW p, NEW r, TrueFor(l, p, r)
  PROVE  r \in Ridings \cup {None}
  <1>1. Query[l].path \in Datasets
    BY LookupConstants DEF LookupQueries
  <1> QED  BY <1>1, TellsARiding, TellsFromAFile DEF TrueFor, Ridings

(* A lookup that has a riding of the dataset it asks goes on truly, and     *)
(* keeps the riding it had.                                                 *)
Survives(l) == work[l].riding # None /\ answer'[l] # answer[l] =>
                 answer'[l] # Error /\ answer'[l].riding = work[l].riding

SurvivesAll == \A m \in Lookups : Survives(m)

(* What a step says of the lookups, and of what is kept. *)
WorksTruly ==
  /\ work' = [m \in Lookups |-> work'[m]] /\ answer' = [m \in Lookups |-> answer'[m]]
  /\ \A m \in Lookups : work'[m] = work[m] \/ \E w : w = work'[m] /\ TrueWork(m, w)
  /\ \A m \in Lookups : answer'[m] = answer[m] \/ \E a : a = answer'[m] /\ TrueAnswer(m, a)
  /\ \A m \in Lookups : \/ work'[m] = work[m] \/ work'[m].at # "file"
                        \/ loading'[m][1] = work'[m].of

AddsTruly ==
  \A y \in DOMAIN kept' : \/ y \in DOMAIN kept /\ kept'[y] = kept[y]
                          \/ \E x : x = kept'[y] /\ TrueEntry(y, x)

(* Nothing happens to the lookups, or one of them moves on. *)
LEMMA WorkStays ==
  ASSUME LookupInv, UNCHANGED <<work, answer>>
  PROVE  WorksTruly /\ SurvivesAll
  BY DEF LookupInv, Worked, WorksTruly, SurvivesAll, Survives

LEMMA MovesTruly ==
  ASSUME LookupInv, NEW l \in Lookups, NEW w, TrueWork(l, w), 
         w.at # "file" \/ loading'[l][1] = w.of, work' = [work EXCEPT ![l] = w], UNCHANGED answer
  PROVE  WorksTruly /\ SurvivesAll /\ work'[l] = w
  BY DEF LookupInv, Worked, WorksTruly, SurvivesAll, Survives

LEMMA AnswersTruly ==
  ASSUME LookupInv, NEW l \in Lookups, NEW a, Answers(l, a), TrueAnswer(l, a),
         work[l].riding # None => a.riding = work[l].riding /\ a # Error
  PROVE  WorksTruly /\ SurvivesAll /\ work'[l].at # "file"
  <1>1. /\ TrueWork(l, work[l])
        /\ work = [m \in Lookups |-> work[m]] /\ answer = [m \in Lookups |-> answer[m]]
    BY DEF LookupInv, Worked
  <1>2. answer'[l] = a /\ \A m \in Lookups \ {l} : answer'[m] = answer[m]
    BY <1>1 DEF Answers
  <1>3. PICK x : x = [work[l] EXCEPT !.at = "done"]
    OBVIOUS
  <1>4. TrueWork(l, x)
    BY <1>1, <1>3 DEF TrueWork
  <1>5. work'[l] = x /\ x.at # "file" /\ \A m \in Lookups \ {l} : work'[m] = work[m]
    BY <1>1, <1>3 DEF Answers
  <1>6. work' = [m \in Lookups |-> work'[m]] /\ answer' = [m \in Lookups |-> answer'[m]]
    BY <1>1 DEF Answers
  <1>7. WorksTruly
    BY <1>2, <1>4, <1>5, <1>6 DEF WorksTruly
  <1> QED  BY <1>2, <1>5, <1>7 DEF SurvivesAll, Survives

LEMMA ObtainsTruly ==
  ASSUME LookupInv, NEW l \in Lookups, NEW p, NEW r, Obtains(l, p, r),
         NearlyTrue(work[l].of, p, r), p \in Points,
         Base(l) => TrueFor(l, p, r), ~Base(l) => p = work[l].point
  PROVE  WorksTruly /\ SurvivesAll /\ work'[l].at # "file"
  <1> DEFINE w == [at |-> "cache", of |-> ProvinceOf[r], point |-> p, riding |-> r]
             a == IF Base(l) THEN [point |-> p, riding |-> r, province |-> <<>>]
                  ELSE [point |-> work[l].point, riding |-> work[l].riding, province |-> <<r>>]
  <1>1. /\ Query[l].path \in Datasets /\ TrueWork(l, work[l])
        /\ work = [m \in Lookups |-> work[m]] /\ answer = [m \in Lookups |-> answer[m]]
    BY LookupConstants DEF LookupQueries, LookupInv, Worked
  <1>2. CASE /\ Base(l) /\ Query[l].path = Federal /\ r # None /\ ProvinceOf[r] # None
             /\ work' = [work EXCEPT ![l] = w] /\ answer' = answer
    <2>1. PICK q \in Points : TrueOf(Federal, q, r)
      BY <1>2 DEF Base, NearlyTrue
    <2>2. PICK v \in 1 .. LastVersion : r \in Range(File[Federal][v])
      BY <1>2, <2>1, LookupConstants, TellsFromAFile
    <2>3. ProvinceOf[r] \in Datasets \ {Federal}
      BY <1>2, <2>2, LookupConstants
    <2>4. TrueFor(l, p, r) /\ (Query[l].at # None => p = Query[l].at)
      BY <1>2 DEF TrueFor
    <2>5. TrueWork(l, w)
      BY <1>2, <2>3, <2>4 DEF TrueWork
    <2>6. w.at # "file"
      OBVIOUS
    <2> HIDE DEF w
    <2> QED  BY <1>2, <2>5, <2>6, MovesTruly
  <1>3. CASE Answers(l, a)
    <2>1. TrueAnswer(l, a)
      <3>1. CASE Base(l)
        BY <3>1 DEF Base, TrueAnswer
      <3>2. CASE ~Base(l)
        <4>1. a = [point |-> work[l].point, riding |-> work[l].riding, province |-> <<r>>]
          BY <3>2
        <4>2. TrueFor(l, work[l].point, work[l].riding) /\ ProvinceOf[work[l].riding] = work[l].of
          BY <1>1, <3>2 DEF Base, TrueWork
        <4>3. work[l].of \in Datasets /\ NearlyTrue(work[l].of, work[l].point, r)
          BY <1>1, <3>2 DEF TrueWork
        <4> QED  BY <4>1, <4>2, <4>3 DEF TrueAnswer
      <3> QED  BY <3>1, <3>2
    <2>2. work[l].riding # None => a.riding = work[l].riding /\ a # Error
      <3> SUFFICES ASSUME work[l].riding # None PROVE a.riding = work[l].riding /\ a # Error
        OBVIOUS
      <3>1. ~Base(l)
        BY <1>1 DEF Base, TrueWork
      <3>2. a = [point |-> work[l].point, riding |-> work[l].riding, province |-> <<r>>]
        BY <3>1
      <3>3. work[l].riding \in Ridings \cup {None} /\ work[l].point \in Points /\ work[l].of \in Datasets
        BY <1>1, <3>1, TellsOwnRiding DEF Base, TrueWork
      <3>4. r \in Ridings \cup {None}
        BY <3>3, TellsARiding
      <3> QED  BY <3>2, <3>3, <3>4, LookupConstants DEF LookupAnswers
    <2> HIDE DEF a
    <2> QED  BY <1>3, <2>1, <2>2, AnswersTruly
  <1>4. Base(l) => Continues(l, p, r)
    BY DEF Obtains
  <1> QED  BY <1>2, <1>3, <1>4 DEF Obtains, Continues

LEMMA FailsTruly ==
  ASSUME LookupInv, NEW l \in Lookups, Fails(l)
  PROVE  WorksTruly /\ SurvivesAll /\ work'[l].at # "file"
  <1> DEFINE b == [point |-> work[l].point, riding |-> work[l].riding, province |-> <<>>]
  <1>1. /\ Query[l].path \in Datasets /\ TrueWork(l, work[l])
        /\ work = [m \in Lookups |-> work[m]] /\ answer = [m \in Lookups |-> answer[m]]
    BY LookupConstants DEF LookupQueries, LookupInv, Worked
  <1>2. PICK a : a = IF Base(l) THEN Error ELSE b
    OBVIOUS
  <1>3. Answers(l, a)
    BY <1>2 DEF Fails
  <1>4. TrueAnswer(l, a)
    BY <1>1, <1>2 DEF Base, TrueAnswer, TrueWork
  <1>5. work[l].riding # None => a.riding = work[l].riding /\ a # Error
    <2> SUFFICES ASSUME work[l].riding # None PROVE a.riding = work[l].riding /\ a # Error
      OBVIOUS
    <2>1. ~Base(l)
      BY <1>1 DEF Base, TrueWork
    <2>2. work[l].riding \in Ridings \cup {None} /\ work[l].point \in Points
      BY <1>1, <2>1, TellsOwnRiding DEF Base, TrueWork
    <2>3. b \in LookupAnswers
      BY <2>2 DEF LookupAnswers
    <2> QED  BY <1>2, <2>1, <2>3, LookupConstants
  <1> QED  BY <1>3, <1>4, <1>5, AnswersTruly

LEMMA KeepsTruly ==
  ASSUME LookupInv, NEW e, NEW p, NEW r, Keeps(e, p, r), TrueEntry(e, [point |-> p, riding |-> r])
  PROVE  AddsTruly
  <1> PICK x : x = [point |-> p, riding |-> r]  OBVIOUS
  <1>1. TrueEntry(e, x)  OBVIOUS
  <1>2. CASE kept' = [y \in DOMAIN kept \cup {e} |-> IF y = e THEN x ELSE kept[y]]
    BY <1>1, <1>2 DEF AddsTruly
  <1> QED  BY <1>2 DEF Keeps, AddsTruly

(* The entry a lookup keeps its riding under is one of the dataset and of   *)
(* the point it was found at.                                               *)
LEMMA FindsTruly ==
  ASSUME LookupInv, NEW l \in Lookups, NEW r, Finds(l, r), TrueOf(work[l].of, work[l].point, r),
         work[l].point \in Points
  PROVE  WorksTruly /\ SurvivesAll /\ work'[l].at # "file" /\ AddsTruly
  <1>1. TrueWork(l, work[l])
    BY DEF LookupInv, Worked
  <1>2. Query[l].at # None => work[l].point = Query[l].at
    BY <1>1 DEF TrueWork
  <1>3. KeyIn(l)[1] = "coordinate" => Rounded[work[l].point] = KeyIn(l)[2]
    <2>1. CASE ~Base(l)
      BY <2>1 DEF Base, KeyIn, KeyAt
    <2>2. CASE Base(l) /\ Query[l].at # None
      BY <1>2, <2>2 DEF Base, KeyIn, KeyOf, KeyAt
    <2>3. CASE Base(l) /\ Query[l].at = None
      BY <2>3 DEF Base, KeyIn, KeyOf
    <2> QED  BY <2>1, <2>2, <2>3
  <1> PICK p : p = work[l].point  OBVIOUS
  <1> PICK e : e = <<work[l].of, KeyIn(l)>>  OBVIOUS
  <1>4. TrueEntry(e, [point |-> p, riding |-> r])
    BY <1>1, <1>3 DEF TrueEntry, TrueWork
  <1>5. Keeps(e, p, r) /\ Obtains(l, p, r)
    BY DEF Finds, MayKeep
  <1>6. AddsTruly
    BY <1>4, <1>5, KeepsTruly
  <1>7. NearlyTrue(work[l].of, p, r)
    BY TrueIsNearlyTrue
  <1>8. Base(l) => TrueFor(l, p, r)
    BY <1>2, <1>7 DEF Base, TrueFor
  <1> QED  BY <1>5, <1>6, <1>7, <1>8, ObtainsTruly

LEMMA LookupBegins == Init => LookupInv
  <1> SUFFICES ASSUME Init PROVE LookupInv
    OBVIOUS
  <1>1. published \in [Datasets -> 1 .. LastVersion]
    BY LookupConstants DEF Init
  <1>2. Filed
    BY DEF Init, Filed, TrueMemory, TrueLoad, TrueSync
  <1>3. Tabled
    BY DEF Init, Tabled
  <1>4. \A l \in Lookups : Query[l].path \in Datasets /\ Query[l].at \in Points \cup {None}
    BY LookupConstants DEF LookupQueries
  <1>5. Worked
    BY <1>4 DEF Init, Worked, TrueWork, TrueAnswer
  <1>6. KeptTrue
    BY DEF Init, KeptTrue
  <1>7. Warmed
    BY DEF Init, Warmed, TrueWarm, Cold
  <1>8. Waiting
    BY DEF Init, Waiting
  <1> QED  BY <1>1, <1>2, <1>3, <1>5, <1>6, <1>7, <1>8 DEF LookupInv

LEMMA KeptStays == ASSUME UNCHANGED kept PROVE AddsTruly
  BY DEF AddsTruly

LEMMA ReadsCacheTruly ==
  ASSUME LookupInv, NEW l \in Lookups, ReadsCache(l)
  PROVE  WorksTruly /\ SurvivesAll
  <1>1. TrueWork(l, work[l]) /\ work = [m \in Lookups |-> work[m]]
    BY DEF LookupInv, Worked
  <1>2. CASE /\ <<work[l].of, KeyIn(l)>> \in DOMAIN kept
             /\ LET e == kept[<<work[l].of, KeyIn(l)>>]
                IN Obtains(l, IF work[l].point = None THEN e.point ELSE work[l].point, e.riding)
    <2>1. PICK e : e = <<work[l].of, KeyIn(l)>>
      OBVIOUS
    <2>2. PICK x : x = kept[e]
      OBVIOUS
    <2>3. TrueEntry(e, x)
      BY <1>2, <2>1, <2>2 DEF LookupInv, KeptTrue
    <2>4. PICK p : p = IF work[l].point = None THEN x.point ELSE work[l].point
      OBVIOUS
    <2>5. Obtains(l, p, x.riding)
      BY <1>2, <2>1, <2>2, <2>4
    <2>6. p \in Points /\ x.point \in Points /\ TrueOf(work[l].of, x.point, x.riding)
      BY <1>1, <2>1, <2>3, <2>4 DEF TrueEntry, TrueWork
    <2>7. ~Base(l) => p = work[l].point
      BY <1>1, <2>4, LookupConstants DEF Base, TrueWork
    <2>8. Query[l].at # None => p = Query[l].at
      BY <1>1, <2>4, LookupConstants DEF TrueWork, LookupQueries
    <2>9. Rounded[x.point] = Rounded[p]
      <3>1. CASE ~Base(l)
        BY <2>1, <2>3, <2>7, <3>1 DEF TrueEntry, KeyIn, KeyAt, Base
      <3>2. CASE Base(l) /\ Query[l].at # None
        BY <2>1, <2>3, <2>8, <3>2 DEF TrueEntry, KeyIn, KeyOf, KeyAt, Base
      <3>3. CASE Base(l) /\ Query[l].at = None
        <4>1. CASE work[l].point = None
          BY <2>4, <4>1
        <4>2. CASE work[l].point # None
          BY <1>1, <3>3, <4>2 DEF TrueWork, Base, ReadsCache
        <4> QED  BY <4>1, <4>2
      <3> QED  BY <3>1, <3>2, <3>3
    <2>10. work[l].of \in Datasets /\ NearlyTrue(work[l].of, p, x.riding)
      BY <1>1, <2>6, <2>9, TrueIsNearlyTrue DEF TrueWork
    <2>11. ASSUME Base(l) PROVE TrueFor(l, p, x.riding)
      <3>1. CASE Query[l].at # None
        BY <2>8, <2>10, <2>11, <3>1 DEF TrueFor, Base
      <3>2. CASE Query[l].at = None
        <4>1. p = x.point
          BY <1>1, <2>4, <2>11, <3>2 DEF TrueWork, Base, ReadsCache
        <4> QED  BY <2>6, <2>11, <3>2, <4>1 DEF TrueFor, Base
      <3> QED  BY <3>1, <3>2
    <2> QED  BY <2>5, <2>6, <2>7, <2>10, <2>11, ObtainsTruly
  <1>3. CASE /\ UNCHANGED answer
             /\ work' = [work EXCEPT ![l].at = IF work[l].point = None THEN "geocoder" ELSE "database"]
    <2>1. PICK w : w = [work[l] EXCEPT !.at = IF work[l].point = None THEN "geocoder" ELSE "database"]
      OBVIOUS
    <2>2. TrueWork(l, w) /\ w.at # "file"
      BY <1>1, <2>1, LookupConstants DEF TrueWork
    <2>3. work' = [work EXCEPT ![l] = w]
      BY <1>1, <1>3, <2>1
    <2> QED  BY <1>3, <2>2, <2>3, MovesTruly
  <1> QED  BY <1>2, <1>3 DEF ReadsCache

LEMMA GeocodesTruly ==
  ASSUME LookupInv, NEW l \in Lookups, Geocodes(l)
  PROVE  WorksTruly /\ SurvivesAll
  <1>1. TrueWork(l, work[l]) /\ work = [m \in Lookups |-> work[m]]
    BY DEF LookupInv, Worked
  <1>2. CASE /\ UNCHANGED answer
             /\ work' = [work EXCEPT ![l].at = "database",
                                     ![l].point = Located[<<Query[l].postal, Query[l].address>>]]
    <2>1. PICK w : w = [work[l] EXCEPT !.at = "database",
                                       !.point = Located[<<Query[l].postal, Query[l].address>>]]
      OBVIOUS
    <2>2. TrueWork(l, w) /\ w.at # "file"
      <3>1. work[l].point = None /\ None \notin Points
        BY <1>1, LookupConstants DEF Geocodes, TrueWork
      <3>2. Query[l].path = work[l].of /\ Query[l].at \in Points \cup {None}
        BY <1>1, <3>1, LookupConstants DEF TrueWork, LookupQueries
      <3>3. Query[l].at = None
        BY <1>1, <3>1, <3>2 DEF TrueWork
      <3> QED  BY <1>1, <2>1, <3>2, <3>3, LookupConstants DEF TrueWork
    <2>3. work' = [work EXCEPT ![l] = w]
      BY <1>1, <1>2, <2>1
    <2> QED  BY <1>2, <2>2, <2>3, MovesTruly
  <1>3. CASE Fails(l)
    BY <1>3, FailsTruly
  <1> QED  BY <1>2, <1>3 DEF Geocodes

(* Steps that publish nothing. *)
LEMMA NothingNew ==
  ASSUME LookupInv, UNCHANGED published
  PROVE  Rises
  BY LookupConstants DEF LookupInv, Rises

LEMMA AsksDatabaseTruly ==
  ASSUME LookupInv, NEW l \in Lookups, AsksDatabase(l)
  PROVE  WorksTruly /\ AddsTruly /\ SurvivesAll
  <1>1. TrueWork(l, work[l]) /\ work = [m \in Lookups |-> work[m]] /\ work[l].point \in Points
    BY DEF LookupInv, Worked, TrueWork, AsksDatabase
  <1>2. CASE \E r \in InDatabase(work[l].of, work[l].point) : Finds(l, r)
    BY <1>1, <1>2, DatabaseSaysTrue, FindsTruly DEF TrueWork
  <1>3. CASE work' = [work EXCEPT ![l].at = "index"] /\ UNCHANGED <<answer, kept>>
    <2>1. PICK w : w = [work[l] EXCEPT !.at = "index"]
      OBVIOUS
    <2>2. TrueWork(l, w) /\ w.at # "file"
      BY <1>1, <2>1 DEF TrueWork
    <2>3. work' = [work EXCEPT ![l] = w]
      BY <1>1, <1>3, <2>1
    <2> QED  BY <1>3, <2>2, <2>3, MovesTruly, KeptStays
  <1> QED  BY <1>2, <1>3 DEF AsksDatabase

LoadsTruly == /\ memory' = [d \in Datasets |-> memory'[d]]
              /\ \A d \in Datasets : memory'[d] = memory[d] \/ \E m : m = memory'[d] /\ TrueMemory(d, m)
              /\ loading' = [l \in Lookups |-> loading'[l]]
              /\ \A l \in Lookups : loading'[l] = loading[l] \/ \E x : x = loading'[l] /\ TrueLoad(x)

LEMMA AsksIndexTruly ==
  ASSUME LookupInv, NEW l \in Lookups, AsksIndex(l)
  PROVE  WorksTruly /\ AddsTruly /\ SurvivesAll /\ LoadsTruly
  <1> PICK d : d = work[l].of  OBVIOUS
  <1>1. TrueWork(l, work[l]) /\ work = [m \in Lookups |-> work[m]] /\ work[l].point \in Points
    BY DEF LookupInv, Worked, TrueWork, AsksIndex
  <1>2. /\ d \in Datasets /\ TrueMemory(d, memory[d]) /\ published[d] \in 1 .. LastVersion
        /\ memory = [y \in Datasets |-> memory[y]] /\ loading = [m \in Lookups |-> loading[m]]
    BY <1>1 DEF LookupInv, Filed, TrueWork
  <1>3. memory' = memory
    BY DEF AsksIndex
  <1>4. UNCHANGED loading => LoadsTruly
    BY <1>2, <1>3 DEF LoadsTruly
  <1>5. ASSUME NEW r \in RidingsAt(d, memory[d].index, work[l].point), Finds(l, r),
               memory[d].index # None, UNCHANGED loading
        PROVE  WorksTruly /\ AddsTruly /\ SurvivesAll /\ LoadsTruly
    <2>1. memory[d].index \in 1 .. published[d]
      BY <1>2, <1>5 DEF TrueMemory
    <2>2. TrueOf(work[l].of, work[l].point, r)
      BY <1>2, <1>5, <2>1, FileSaysTrue
    <2> QED  BY <1>1, <1>4, <1>5, <2>2, FindsTruly
  <1>6. CASE Fails(l) /\ UNCHANGED <<loading, kept>>
    BY <1>4, <1>6, FailsTruly, KeptStays
  <1>7. CASE /\ loading' = [loading EXCEPT ![l] = <<d, published[d]>>]
             /\ work' = [work EXCEPT ![l].at = "file"]
             /\ UNCHANGED <<answer, kept>>
    <2>1. PICK w : w = [work[l] EXCEPT !.at = "file"]
      OBVIOUS
    <2>2. TrueWork(l, w)
      BY <1>1, <2>1 DEF TrueWork
    <2>3. work' = [work EXCEPT ![l] = w]
      BY <1>1, <1>7, <2>1
    <2>4. PICK x : x = <<d, published[d]>>
      OBVIOUS
    <2>5. TrueLoad(x)
      BY <1>2, <2>4 DEF TrueLoad
    <2>6. LoadsTruly
      BY <1>2, <1>3, <1>7, <2>4, <2>5 DEF LoadsTruly
    <2>7. loading'[l][1] = w.of
      BY <1>1, <1>2, <1>7, <2>1, <2>4 DEF TrueWork
    <2> QED  BY <1>7, <2>2, <2>3, <2>6, <2>7, MovesTruly, KeptStays
  <1> QED  BY <1>5, <1>6, <1>7 DEF AsksIndex

LEMMA LoadsATruth ==
  ASSUME LookupInv, NEW l \in Lookups, Loads(l)
  PROVE  WorksTruly /\ AddsTruly /\ SurvivesAll /\ LoadsTruly /\ work'[l].at # "file"
  <1> PICK d, v : d = loading[l][1] /\ v = loading[l][2]  OBVIOUS
  <1>1. TrueWork(l, work[l]) /\ work = [m \in Lookups |-> work[m]]
    BY DEF LookupInv, Worked
  <1>2. /\ d \in Datasets /\ v \in 1 .. published[d]
        /\ memory = [y \in Datasets |-> memory[y]] /\ loading = [m \in Lookups |-> loading[m]]
        /\ TrueMemory(d, memory[d])
    BY DEF LookupInv, Filed, TrueLoad, Loads
  <1>3. LoadsTruly
    <2>1. loading' = [m \in Lookups |-> loading'[m]]
      BY <1>2 DEF Loads
    <2>2. \A m \in Lookups : loading'[m] = loading[m] \/ loading'[m] = None
      BY <1>2 DEF Loads
    <2>3. TrueLoad(None)
      BY DEF TrueLoad
    <2>4. PICK m : m = IF memory' = [memory EXCEPT ![d].file = v] THEN [memory[d] EXCEPT !.file = v]
                       ELSE [file |-> v, index |-> v]
      OBVIOUS
    <2>5. memory' = [memory EXCEPT ![d] = m]
      BY <1>2, <2>4 DEF Loads
    <2>6. TrueMemory(d, m)
      BY <1>2, <2>4 DEF TrueMemory
    <2> QED  BY <1>2, <2>1, <2>2, <2>3, <2>5, <2>6 DEF LoadsTruly
  <1>4. ASSUME work[l].at = "file", NEW r \in RidingsAt(d, v, work[l].point), Finds(l, r)
        PROVE  WorksTruly /\ AddsTruly /\ SurvivesAll /\ work'[l].at # "file"
    <2>1. d = work[l].of
      BY <1>4 DEF LookupInv, Waiting
    <2>2. TrueOf(work[l].of, work[l].point, r) /\ work[l].point \in Points
      BY <1>1, <1>2, <1>4, <2>1, FileSaysTrue DEF TrueWork
    <2> QED  BY <1>4, <2>2, FindsTruly
  <1>5. CASE Fails(l) /\ UNCHANGED kept
    BY <1>3, <1>5, FailsTruly, KeptStays
  <1>6. CASE work[l].at # "file" /\ UNCHANGED <<work, answer, kept>>
    BY <1>3, <1>6, WorkStays, KeptStays
  <1> QED  BY <1>3, <1>4, <1>5, <1>6 DEF Loads

SyncsTruly == /\ sync' = [d \in Datasets |-> sync'[d]]
              /\ \A d \in Datasets : sync'[d] = sync[d] \/ \E s : s = sync'[d] /\ TrueSync(d, s)

RowsTruly == /\ rows' = [d \in Datasets |-> rows'[d]]
             /\ \A d \in Datasets : \A i \in DOMAIN rows'[d] :
                  \/ i \in DOMAIN rows[d] /\ rows'[d][i] = rows[d][i]
                  \/ \E r : r = rows'[d][i] /\ TrueRow(d, r)

WarmsTruly == /\ warm' = [k \in Popular |-> warm'[k]]
              /\ \A k \in Popular : warm'[k] = warm[k] \/ \E w : w = warm'[k] /\ TrueWarm(k, w)

LEMMA StepKeeps ==
  ASSUME LookupInv, Rises, LoadsTruly, SyncsTruly, RowsTruly, WorksTruly, AddsTruly, WarmsTruly,
         \A l \in Lookups : work'[l].at = "file" /\ work'[l] = work[l] => loading'[l] = loading[l]
  PROVE  LookupInv'
  <1>1. published' \in [Datasets -> 1 .. LastVersion]
    BY DEF Rises
  <1>2. Filed'
    BY FiledKeeps DEF LookupInv, LoadsTruly, SyncsTruly
  <1>3. Tabled'
    BY TabledKeeps DEF LookupInv, RowsTruly
  <1>4. Worked'
    BY WorkedKeeps DEF LookupInv, WorksTruly
  <1>5. KeptTrue'
    BY KeptKeeps DEF LookupInv, AddsTruly
  <1>6. Warmed'
    BY WarmedKeeps DEF LookupInv, WarmsTruly
  <1>7. Waiting'
    BY DEF LookupInv, Waiting, WorksTruly
  <1> QED  BY <1>1, <1>2, <1>3, <1>4, <1>5, <1>6, <1>7 DEF LookupInv

(* What a step leaves alone. *)
LEMMA LoadsStay == ASSUME LookupInv, UNCHANGED <<memory, loading>> PROVE LoadsTruly
  BY DEF LookupInv, Filed, LoadsTruly
LEMMA SyncsStay == ASSUME LookupInv, UNCHANGED sync PROVE SyncsTruly
  BY DEF LookupInv, Filed, SyncsTruly
LEMMA RowsStay == ASSUME LookupInv, UNCHANGED rows PROVE RowsTruly
  BY DEF LookupInv, Tabled, RowsTruly
LEMMA WarmsStay == ASSUME LookupInv, UNCHANGED warm PROVE WarmsTruly
  BY DEF LookupInv, Warmed, WarmsTruly

LEMMA ServingKeeps ==
  ASSUME LookupInv, NEW l \in Lookups, Step(l)
  PROVE  LookupInv' /\ SurvivesAll
  <1> USE NothingNew, StepKeeps, WorkStays, KeptStays, LoadsStay, SyncsStay, RowsStay, WarmsStay
  <1> DEFINE Frame == UNCHANGED <<published, sync, rows, warm>>
  <1>1. CASE ReadsCache(l)
    <2>1. Frame /\ UNCHANGED <<memory, loading, kept>>
      BY <1>1 DEF ReadsCache, warming, database
    <2> QED  BY <1>1, <2>1, ReadsCacheTruly
  <1>2. CASE Geocodes(l)
    <2>1. Frame /\ UNCHANGED <<memory, loading, kept>>
      BY <1>2 DEF Geocodes, warming, database
    <2> QED  BY <1>2, <2>1, GeocodesTruly
  <1>3. CASE AsksDatabase(l)
    <2>1. Frame /\ UNCHANGED <<memory, loading>>
      BY <1>3 DEF AsksDatabase, warming, database
    <2> QED  BY <1>3, <2>1, AsksDatabaseTruly
  <1>4. CASE AsksIndex(l)
    <2>1. Frame
      BY <1>4 DEF AsksIndex, warming, database
    <2>2. \A m \in Lookups : work[m].at = "file" => loading'[m] = loading[m]
      BY <1>4 DEF AsksIndex, LookupInv, Filed
    <2> QED  BY <1>4, <2>1, <2>2, AsksIndexTruly
  <1>5. CASE Loads(l)
    <2>1. Frame
      BY <1>5 DEF Loads, warming, database
    <2>2. \A m \in Lookups \ {l} : loading'[m] = loading[m]
      BY <1>5 DEF Loads, LookupInv, Filed
    <2> QED  BY <1>5, <2>1, <2>2, LoadsATruth
  <1>6. CASE TimesOut(l)
    <2>1. Frame /\ UNCHANGED <<memory, loading, kept>>
      BY <1>6 DEF TimesOut, warming, database
    <2>2. Fails(l)
      BY <1>6 DEF TimesOut
    <2> QED  BY <2>1, <2>2, FailsTruly
  <1> QED  BY <1>1, <1>2, <1>3, <1>4, <1>5, <1>6 DEF Step

LEMMA PublishesKeeps ==
  ASSUME LookupInv, NEW d \in Datasets, Publishes(d)
  PROVE  LookupInv' /\ SurvivesAll
  <1>1. Rises
    BY LookupConstants DEF LookupInv, Rises, Publishes
  <1>2. UNCHANGED <<memory, loading, kept, work, answer, sync, rows, warm>>
    BY DEF Publishes, warming, database
  <1> QED  BY <1>1, <1>2, StepKeeps, WorkStays, KeptStays, LoadsStay, SyncsStay, RowsStay, WarmsStay

(* Only the file a dataset has is brought, or the one it had is forgotten.  *)
LEMMA MemoryChanges ==
  ASSUME LookupInv, NEW d \in Datasets, NEW m, TrueMemory(d, m), memory' = [memory EXCEPT ![d] = m],
         UNCHANGED loading
  PROVE  LoadsTruly
  BY DEF LookupInv, Filed, LoadsTruly

LEMMA BroughtTruly ==
  ASSUME LookupInv, NEW d \in Datasets, memory' = Brought(d), UNCHANGED loading
  PROVE  /\ LoadsTruly /\ memory'[d].file \in 1 .. published[d]
         /\ memory'[d].index # None => memory'[d].index \in 1 .. published[d]
  <1>1. /\ published[d] \in 1 .. LastVersion /\ TrueMemory(d, memory[d])
        /\ memory = [y \in Datasets |-> memory[y]]
    BY DEF LookupInv, Filed
  <1>2. CASE memory[d].file # None
    <2>1. memory' = memory
      BY <1>2 DEF Brought
    <2> QED  BY <1>1, <1>2, <2>1, LoadsStay DEF TrueMemory
  <1>3. CASE memory[d].file = None
    <2>1. PICK m : m = [file |-> published[d], index |-> published[d]]
      OBVIOUS
    <2>2. memory' = [memory EXCEPT ![d] = m] /\ memory'[d] = m
      BY <1>1, <1>3, <2>1 DEF Brought
    <2>3. TrueMemory(d, m) /\ published[d] \in 1 .. published[d]
      BY <1>1, <2>1, LookupConstants DEF TrueMemory
    <2>4. LoadsTruly
      BY <2>2, <2>3, MemoryChanges
    <2>5. memory'[d].file = published[d] /\ memory'[d].index = published[d]
      BY <2>1, <2>2
    <2> QED  BY <2>3, <2>4, <2>5
  <1> QED  BY <1>2, <1>3

LEMMA ExpiresKeeps ==
  ASSUME LookupInv, NEW d \in Datasets, Expires(d)
  PROVE  LookupInv' /\ SurvivesAll
  <1>1. PICK m : m = [file |-> None, index |-> IF memory[d].file = None THEN None ELSE memory[d].index]
    OBVIOUS
  <1>2. memory' = [memory EXCEPT ![d] = m]
    BY <1>1 DEF Expires, LookupInv, Filed
  <1>3. TrueMemory(d, m)
    BY <1>1 DEF TrueMemory, LookupInv, Filed
  <1>4. UNCHANGED <<published, loading, kept, work, answer, sync, rows, warm>>
    BY DEF Expires, warming, database
  <1>5. LoadsTruly
    BY <1>2, <1>3, <1>4, MemoryChanges
  <1> QED  BY <1>4, <1>5, NothingNew, StepKeeps, WorkStays, KeptStays, SyncsStay, RowsStay, WarmsStay

(* A synchronisation goes on with the version it began with. *)
LEMMA SyncGoesOn ==
  ASSUME LookupInv, NEW d \in Datasets, NEW s, TrueSync(d, s), sync' = [sync EXCEPT ![d] = s]
  PROVE  SyncsTruly
  BY DEF LookupInv, Filed, SyncsTruly

LEMMA SyncingKeeps ==
  ASSUME LookupInv, NEW d \in Datasets, Syncs(d)
  PROVE  LookupInv' /\ SurvivesAll
  <1> USE NothingNew, StepKeeps, WorkStays, KeptStays, LoadsStay, SyncsStay, RowsStay, WarmsStay
  <1> DEFINE Frame == UNCHANGED <<published, loading, kept, work, answer, warm>>
  <1>1. /\ sync = [y \in Datasets |-> sync[y]] /\ TrueSync(d, sync[d]) /\ TrueSync(d, None)
        /\ rows = [y \in Datasets |-> rows[y]] /\ published[d] \in 1 .. LastVersion
    BY DEF LookupInv, Filed, Tabled, TrueSync
  <1>2. CASE BeginsSync(d)
    <2>1. Frame /\ UNCHANGED rows /\ memory' = Brought(d)
      BY <1>2 DEF BeginsSync, warming
    <2>2. LoadsTruly /\ memory'[d].file \in 1 .. published[d]
      BY <2>1, BroughtTruly
    <2>3. PICK s : s = [at |-> "boxes", version |-> memory'[d].file, next |-> 1, failed |-> 0]
      OBVIOUS
    <2>4. sync' = [sync EXCEPT ![d] = s] /\ TrueSync(d, s)
      BY <1>2, <2>2, <2>3 DEF BeginsSync, TrueSync
    <2> QED  BY <2>1, <2>2, <2>4, SyncGoesOn
  <1>3. CASE DeletesBoxes(d)
    <2>1. Frame /\ UNCHANGED <<rows, memory>>
      BY <1>3 DEF DeletesBoxes, warming
    <2>2. PICK s : s = [sync[d] EXCEPT !.at = "rows"]
      OBVIOUS
    <2>3. sync' = [sync EXCEPT ![d] = s] /\ TrueSync(d, s)
      BY <1>1, <1>3, <2>2 DEF DeletesBoxes, TrueSync
    <2> QED  BY <2>1, <2>3, SyncGoesOn
  <1>4. CASE DeletesRows(d)
    <2>1. Frame /\ UNCHANGED <<memory>>
      BY <1>4 DEF DeletesRows, warming
    <2>2. PICK s : s = [sync[d] EXCEPT !.at = "features"]
      OBVIOUS
    <2>3. sync' = [sync EXCEPT ![d] = s] /\ TrueSync(d, s)
      BY <1>1, <1>4, <2>2 DEF DeletesRows, TrueSync
    <2>4. RowsTruly
      BY <1>1, <1>4 DEF DeletesRows, RowsTruly
    <2> QED  BY <2>1, <2>3, <2>4, SyncGoesOn
  <1>5. CASE InsertsFeature(d)
    <2>1. Frame /\ UNCHANGED <<memory>>
      BY <1>5 DEF InsertsFeature, warming
    <2> PICK v, n, r : v = sync[d].version /\ n = sync[d].next /\ r = File[d][v][n]
      OBVIOUS
    <2>2. sync[d] # None /\ n \in DOMAIN File[d][v]
      BY <1>5 DEF InsertsFeature
    <2>3. v \in 1 .. published[d] /\ r \in Range(File[d][v])
      BY <1>1, <2>2 DEF TrueSync, Range
    <2>4. TrueRow(d, r)
      BY <2>3 DEF TrueRow
    <2>5. \/ rows' = [rows EXCEPT ![d] = Put(rows[d], n - 1, r)] \/ rows' = rows
      BY <1>5 DEF InsertsFeature
    <2>6. RowsTruly
      BY <1>1, <2>4, <2>5 DEF Put, RowsTruly
    <2>7. PICK s : s = [sync[d] EXCEPT !.next = sync[d].next + 1]
      OBVIOUS
    <2>8. PICK x : x = [sync[d] EXCEPT !.next = sync[d].next + 1, !.failed = sync[d].failed + 1]
      OBVIOUS
    <2>9. TrueSync(d, s) /\ TrueSync(d, x)
      BY <2>2, <2>3, <2>7, <2>8 DEF TrueSync
    <2>10. sync' = [sync EXCEPT ![d] = s] \/ sync' = [sync EXCEPT ![d] = x]
      BY <1>1, <1>5, <2>7, <2>8 DEF InsertsFeature
    <2> QED  BY <2>1, <2>6, <2>9, <2>10, SyncGoesOn
  <1>6. CASE EndsSync(d) \/ AbortsSync(d)
    <2>1. Frame /\ UNCHANGED <<memory, rows>> /\ sync' = [sync EXCEPT ![d] = None]
      BY <1>6 DEF EndsSync, AbortsSync, warming
    <2> QED  BY <1>1, <2>1, SyncGoesOn
  <1> QED  BY <1>2, <1>3, <1>4, <1>5, <1>6 DEF Syncs

LEMMA WarmGoesOn ==
  ASSUME LookupInv, NEW k \in Popular, NEW w, TrueWarm(k, w), warm' = [warm EXCEPT ![k] = w]
  PROVE  WarmsTruly
  BY DEF LookupInv, Warmed, WarmsTruly

LEMMA EntriesAreFor ==
  ASSUME NEW k \in Popular, NEW p
  PROVE  EntriesAt(k, p) \in Seq(EntriesFor(k, p)) /\ EntriesAt(k, p) # <<>>
  <1> DEFINE under(key) == [n \in DOMAIN Targets |-> <<Targets[n], key>>]
             E == EntriesFor(k, p)
  <1>1. /\ Len(Targets) \in Nat \ {0} /\ DOMAIN Targets = 1 .. Len(Targets)
        /\ \A n \in 1 .. Len(Targets) : Targets[n] \in Datasets
    BY LookupConstants, EmptySeq, LenProperties, ElementOfSeq
  <1>2. PICK s : s = under(KeyAt(p))
    OBVIOUS
  <1>3. PICK t : t = IF k[1] = "postal" THEN under(<<"postal", Brief[k[2]]>>) ELSE <<>>
    OBVIOUS
  <1>4. s \in Seq(E) /\ Len(s) = Len(Targets)
    <2>1. s \in [1 .. Len(Targets) -> E]
      BY <1>1, <1>2 DEF EntriesFor
    <2> QED  BY <1>1, <2>1, SeqDef, LenProperties
  <1>5. t \in Seq(E)
    <2>1. CASE k[1] = "postal"
      <3>1. t \in [1 .. Len(Targets) -> E]
        BY <1>1, <1>3, <2>1 DEF EntriesFor
      <3> QED  BY <1>1, <3>1, SeqDef
    <2> QED  BY <1>3, <2>1, EmptySeq
  <1>6. EntriesAt(k, p) = s \o t
    BY <1>2, <1>3 DEF EntriesAt
  <1> HIDE DEF E, under
  <1>7. s \o t \in Seq(E) /\ Len(s \o t) = Len(s) + Len(t) /\ Len(t) \in Nat
    BY <1>4, <1>5, ConcatProperties, LenProperties
  <1>8. Len(s \o t) # 0
    BY <1>1, <1>4, <1>7
  <1> QED  BY <1>6, <1>7, <1>8, EmptySeq DEF E

LEMMA NextEntryTruly ==
  ASSUME LookupInv, NEW k \in Popular, warm[k].at \in {"next", "keep"}, NextEntry(k)
  PROVE  WarmsTruly
  <1> DEFINE E == EntriesFor(k, warm[k].point)
  <1>1. /\ warm[k].todo \in Seq(E) /\ warm[k].todo # <<>> /\ warm[k].point \in Points
        /\ warm = [y \in Popular |-> warm[y]]
    BY DEF LookupInv, Warmed, TrueWarm
  <1>2. PICK t : t = Tail(warm[k].todo)
    OBVIOUS
  <1> HIDE DEF E
  <1>3. t \in Seq(E) /\ Len(t) = Len(warm[k].todo) - 1 /\ Len(warm[k].todo) \in Nat
    BY <1>1, <1>2, HeadTailProperties, LenProperties
  <1>4. Len(warm[k].todo) # 1 => t # <<>>
    <2> SUFFICES ASSUME t = <<>> PROVE Len(warm[k].todo) = 1
      OBVIOUS
    <2>1. Len(t) = 0
      BY EmptySeq
    <2> QED  BY <1>3, <2>1
  <1>5. PICK w : w = [warm[k] EXCEPT !.todo = t, !.riding = None,
                                     !.at = IF Len(warm[k].todo) = 1 THEN "done" ELSE "next"]
    OBVIOUS
  <1>6. warm' = [warm EXCEPT ![k] = w]
    BY <1>1, <1>2, <1>5 DEF NextEntry
  <1>7. w.point = warm[k].point /\ w.todo = t /\ w.at = IF Len(warm[k].todo) = 1 THEN "done" ELSE "next"
    BY <1>5
  <1>8. TrueWarm(k, w)
    BY <1>1, <1>3, <1>4, <1>7 DEF TrueWarm, E
  <1> QED  BY <1>6, <1>8, WarmGoesOn

LEMMA WarmingKeeps ==
  ASSUME LookupInv, NEW k \in Popular, BeginsPlace(k) \/ LooksUpFor(k) \/ KeepsFor(k)
  PROVE  LookupInv' /\ SurvivesAll
  <1> USE NothingNew, StepKeeps, WorkStays, KeptStays, LoadsStay, SyncsStay, RowsStay, WarmsStay
  <1> DEFINE Frame == UNCHANGED <<published, loading, work, answer, sync, rows>>
  <1>1. warm = [y \in Popular |-> warm[y]] /\ TrueWarm(k, warm[k])
    BY DEF LookupInv, Warmed
  <1>2. CASE BeginsPlace(k)
    <2>1. Frame /\ UNCHANGED <<memory, kept>>
      BY <1>2 DEF BeginsPlace, database
    <2>2. TrueWarm(k, Cold)
      BY DEF TrueWarm, Cold
    <2>3. PICK p : p = IF k[1] = "postal" THEN Located[<<k[2], None>>] ELSE k[2]
      OBVIOUS
    <2>4. PICK w : w = [at |-> "next", todo |-> EntriesAt(k, p), point |-> p, riding |-> None]
      OBVIOUS
    <2>5. warm' = [warm EXCEPT ![k] = w] \/ warm' = [warm EXCEPT ![k] = Cold]
      BY <1>2, <2>3, <2>4 DEF BeginsPlace, Cold
    <2>6. p \in Points
      BY <1>2, <2>3, LookupConstants
    <2>7. TrueWarm(k, w)
      BY <2>4, <2>6, EntriesAreFor DEF TrueWarm
    <2> QED  BY <2>1, <2>2, <2>5, <2>7, WarmGoesOn
  <1>3. CASE LooksUpFor(k)
    <2> PICK e, p : e = warm[k].todo[1] /\ p = warm[k].point
      OBVIOUS
    <2> PICK d : d = e[1]
      OBVIOUS
    <2>1. Frame /\ UNCHANGED <<kept>> /\ warm[k].at = "next"
      BY <1>3 DEF LooksUpFor, database
    <2>2. warm[k].todo \in Seq(EntriesFor(k, p)) /\ warm[k].todo # <<>>
      BY <1>1, <2>1 DEF TrueWarm
    <2>3. e \in EntriesFor(k, p)
      BY <2>2, EmptySeq, ElementOfSeq
    <2>4. d \in Datasets
      BY <2>3 DEF EntriesFor
    <2>5. LoadsTruly
      BY <1>3, <2>1, <2>4, BroughtTruly DEF LooksUpFor
    <2>6. ASSUME NEW r, warm' = [warm EXCEPT ![k].at = "keep", ![k].riding = r], TrueOf(d, p, r)
          PROVE  WarmsTruly
      <3>1. PICK w : w = [warm[k] EXCEPT !.at = "keep", !.riding = r]
        OBVIOUS
      <3>2. w.todo = warm[k].todo /\ w.point = p /\ w.riding = r /\ w.at = "keep"
        BY <3>1
      <3>3. warm' = [warm EXCEPT ![k] = w]
        BY <1>1, <2>6, <3>1
      <3>4. TrueWarm(k, w)
        BY <1>1, <2>1, <2>2, <2>6, <3>2 DEF TrueWarm
      <3> QED  BY <3>3, <3>4, WarmGoesOn
    <2>7. ASSUME NEW r \in InDatabase(d, p) PROVE TrueOf(d, p, r)
      BY <2>4, DatabaseSaysTrue
    <2>8. NextEntry(k) => WarmsTruly
      BY <2>1, NextEntryTruly
    <2>9. ASSUME memory' = Brought(d), memory'[d].index # None,
                 NEW r \in RidingsAt(d, memory'[d].index, p)
          PROVE  TrueOf(d, p, r)
      <3>1. PICK v : v = memory'[d].index
        OBVIOUS
      <3>2. v \in 1 .. published[d]
        BY <2>1, <2>4, <2>9, <3>1, BroughtTruly
      <3> QED  BY <2>4, <2>9, <3>1, <3>2, FileSaysTrue
    <2>10. WarmsTruly
      <3>1. CASE \E r \in InDatabase(d, p) : warm' = [warm EXCEPT ![k].at = "keep", ![k].riding = r]
        BY <2>6, <2>7, <3>1
      <3>2. CASE /\ memory' = Brought(d) /\ memory'[d].index # None
                 /\ \E r \in RidingsAt(d, memory'[d].index, p) :
                      warm' = [warm EXCEPT ![k].at = "keep", ![k].riding = r]
        BY <2>6, <2>9, <3>2
      <3> QED  BY <1>3, <2>8, <3>1, <3>2 DEF LooksUpFor
    <2> QED  BY <2>1, <2>5, <2>10
  <1>4. CASE KeepsFor(k)
    <2> PICK e, p, r : e = warm[k].todo[1] /\ p = warm[k].point /\ r = warm[k].riding
      OBVIOUS
    <2>1. Frame /\ UNCHANGED <<memory>> /\ warm[k].at = "keep" /\ Keeps(e, p, r) /\ NextEntry(k)
      BY <1>4 DEF KeepsFor, database
    <2>2. /\ warm[k].todo \in Seq(EntriesFor(k, p)) /\ warm[k].todo # <<>>
          /\ TrueOf(e[1], p, r) /\ p \in Points
      BY <1>1, <2>1 DEF TrueWarm
    <2>3. e \in EntriesFor(k, p)
      BY <2>2, EmptySeq, ElementOfSeq
    <2>4. TrueEntry(e, [point |-> p, riding |-> r])
      BY <2>2, <2>3 DEF TrueEntry, EntriesFor, KeyAt
    <2>5. AddsTruly
      BY <2>1, <2>4, KeepsTruly
    <2> QED  BY <2>1, <2>5, NextEntryTruly
  <1> QED  BY <1>2, <1>3, <1>4

LEMMA RoundsKeep ==
  ASSUME LookupInv, BeginsRound \/ EndsBatch \/ ComesDue
  PROVE  LookupInv' /\ SurvivesAll
  <1>1. UNCHANGED <<published, memory, loading, kept, work, answer, sync, rows>>
    BY DEF BeginsRound, EndsBatch, ComesDue, database
  <1>2. /\ warm' = [k \in Popular |-> warm'[k]]
        /\ \A k \in Popular : \/ warm'[k] = warm[k]
                              \/ warm'[k] \in {Cold, [Cold EXCEPT !.at = "begin"]}
    BY DEF BeginsRound, EndsBatch, ComesDue, LookupInv, Warmed
  <1>3. \A k \in Popular : \A w \in {Cold, [Cold EXCEPT !.at = "begin"]} : TrueWarm(k, w)
    BY DEF TrueWarm, Cold
  <1>4. WarmsTruly
    BY <1>2, <1>3 DEF WarmsTruly
  <1> QED  BY <1>1, <1>4, NothingNew, StepKeeps, WorkStays, KeptStays, LoadsStay, SyncsStay, RowsStay

LEMMA IdleKeeps ==
  ASSUME LookupInv, UNCHANGED <<published, loading, kept, work, answer, sync, rows, warm>>,
         UNCHANGED memory \/ memory' = Brought(Federal)
  PROVE  LookupInv' /\ SurvivesAll
  <1>1. LoadsTruly
    BY LoadsStay, BroughtTruly, LookupConstants
  <1> QED  BY <1>1, NothingNew, StepKeeps, WorkStays, KeptStays, SyncsStay, RowsStay, WarmsStay

LEMMA LookupGoesOn == LookupInv /\ [Next]_vars => LookupInv' /\ SurvivesAll
  <1> SUFFICES ASSUME LookupInv, [Next]_vars PROVE LookupInv' /\ SurvivesAll
    OBVIOUS
  <1>1. CASE Serves
    BY <1>1, ServingKeeps, PublishesKeeps, ExpiresKeeps DEF Serves
  <1>2. CASE Keeping
    <2>1. CASE InitsTables
      BY <2>1, IdleKeeps DEF InitsTables, warming
    <2> QED  BY <1>2, <2>1, SyncingKeeps DEF Keeping
  <1>3. CASE Warms
    <2>1. CASE LoadsFederal
      BY <2>1, IdleKeeps DEF LoadsFederal, warming, database
    <2> QED  BY <1>3, <2>1, RoundsKeep, WarmingKeeps DEF Warms
  <1>4. CASE UNCHANGED vars
    BY <1>4, IdleKeeps DEF vars
  <1> QED  BY <1>1, <1>2, <1>3, <1>4 DEF Next

(* What is answered and what is kept is what a published version says.      *)
THEOREM AnswersAreTrue == Spec => []AnswersTrue
  <1>1. Init => LookupInv
    BY LookupBegins
  <1>2. LookupInv /\ [Next]_vars => LookupInv'
    BY LookupGoesOn
  <1>3. LookupInv => AnswersTrue
    BY DEF LookupInv, Worked, KeptTrue, TrueAnswer, TrueEntry, AnswersTrue, Served
  <1> QED  BY <1>1, <1>2, <1>3, PTL DEF Spec

(* The riding of a federal lookup outlives whatever happens to the lookup   *)
(* of its province.                                                         *)
THEOREM RidingIsNeverLost == Spec => RidingSurvives
  <1>1. Init => LookupInv
    BY LookupBegins
  <1>2. LookupInv /\ [Next]_vars => LookupInv'
    BY LookupGoesOn
  <1>3. LookupInv /\ [Next]_vars => [\A l \in Lookups : work[l].riding # None /\ answer'[l] # answer[l] =>
                                       answer'[l] # Error /\ answer'[l].riding = work[l].riding]_vars
    BY LookupGoesOn DEF SurvivesAll, Survives
  <1> QED  BY <1>1, <1>2, <1>3, PTL DEF Spec, RidingSurvives

(***************************************************************************)
(* The items of a batch and their answers.                                 *)
(***************************************************************************)
Outcome == [of : Asked \cup {NoBatch}, error : BOOLEAN, riding : BOOLEAN, found : BOOLEAN]
Places(b) == 1 .. Len(b.items)

ItemLists == Seq(Asked)
PlaceLists(P) == Seq(P)
Geocodings == Seq([of : Asked, ok : BOOLEAN])
OutcomesAt(P) == [P -> Outcome]
Positives == Nat \ {0}
Steps == {"partition", "coordinates", "geocode", "lookup", "bill"}

BatchesOver(P) ==
  [items : ItemLists, customer : BOOLEAN, denied : BOOLEAN, at : Positives, step : Steps,
   provided : PlaceLists(P), needed : PlaceLists(P), geocoded : Geocodings, results : OutcomesAt(P)]
BatchOf(b) == b \in BatchesOver(Places(b))

(* Every item is in one of the two lists; what was geocoded is in its order.*)
Listed(b, i) == \/ \E n \in 1 .. Len(b.provided) : b.provided[n] = i
                \/ \E n \in 1 .. Len(b.needed) : b.needed[n] = i
Done(b, i) == b.results[i].of = b.items[i]

Lists(b) ==
  /\ IF b.step = "partition" THEN b.at <= Len(b.items) + 1 /\ \A i \in 1 .. b.at - 1 : Listed(b, i)
                             ELSE \A i \in Places(b) : Listed(b, i)
  /\ Len(b.geocoded) <= Len(b.needed)
  /\ \A n \in 1 .. Len(b.geocoded) : b.geocoded[n].of = b.items[b.needed[n]]
  /\ b.step \in {"partition", "coordinates"} => b.geocoded = <<>>
  /\ b.step = "geocode" => Len(b.geocoded) = b.at - 1
  /\ b.step = "lookup" => Len(b.geocoded) = Len(b.needed)

DoneSoFar(b) ==
  /\ b.step = "coordinates" =>
       b.at <= Len(b.provided) + 1 /\ \A n \in 1 .. b.at - 1 : Done(b, b.provided[n])
  /\ b.step \in {"geocode", "lookup"} => \A n \in 1 .. Len(b.provided) : Done(b, b.provided[n])
  /\ b.step = "lookup" =>
       b.at <= Len(b.needed) + 1 /\ \A n \in 1 .. b.at - 1 : Done(b, b.needed[n])
  /\ b.step = "bill" => b.at <= Len(b.items) + 1 /\ \A i \in Places(b) : Done(b, i)

(* A result has a riding, or an error; what was refused has lost its own.   *)
Whole(x) == x.error = ~x.riding /\ x.found = x.riding

Billed(b, counted) ==
  IF b.step # "bill" THEN counted = {} /\ ~b.denied /\ \A i \in Places(b) : Whole(b.results[i])
  ELSE /\ \A i \in Places(b) : i >= b.at => Whole(b.results[i])
       /\ b.denied => b.customer
       /\ b.customer => counted = {i \in 1 .. b.at - 1 : b.results[i].riding}
       /\ ~b.denied => \A i \in 1 .. b.at - 1 : b.results[i].found => b.results[i].riding
       /\ \A i, j \in 1 .. b.at - 1 :
            i < j /\ b.results[j].riding /\ b.results[i].found => b.results[i].riding

Good(b, counted) == BatchOf(b) /\ Lists(b) /\ DoneSoFar(b) /\ Billed(b, counted)

BatchInv ==
  /\ batch # NoBatch => Good(batch, billed) /\ reply = NoBatch
  /\ AnsweredInPlace

LEMMA Results ==
  \A q \in Asked : /\ Answered(q) \in Outcome /\ InError(q) \in Outcome
                   /\ Whole(Answered(q)) /\ Whole(InError(q))
                   /\ Answered(q).of = q /\ InError(q).of = q
  BY DEF Answered, InError, Outcome, Whole

LEMMA AcceptsGood ==
  ASSUME NEW n \in 1 .. MaxBatchSize, NEW items \in [1 .. n -> Asked], NEW customer \in BOOLEAN,
         NEW b, b = [items |-> items, customer |-> customer, step |-> "partition", provided |-> <<>>,
                     needed |-> <<>>, geocoded |-> <<>>, at |-> 1,
                     results |-> [i \in DOMAIN items |-> Unanswered], denied |-> FALSE]
  PROVE  Good(b, {})
  <1>1. n \in Nat \ {0} /\ items \in Seq(Asked)
    BY BatchConstants, SeqDef
  <1>2. Len(items) = n /\ DOMAIN items = 1 .. n
    BY <1>1, LenProperties
  <1>3. b.items = items /\ b.provided = <<>> /\ b.needed = <<>> /\ b.geocoded = <<>> /\ b.at = 1
        /\ b.step = "partition" /\ b.denied = FALSE /\ b.results = [i \in 1 .. n |-> Unanswered]
    BY <1>2
  <1>4. Unanswered \in Outcome /\ Whole(Unanswered)
    BY DEF Unanswered, Outcome, Whole
  <1>5. Places(b) = 1 .. n /\ <<>> \in Seq(Places(b)) /\ <<>> \in Seq([of : Asked, ok : BOOLEAN])
    BY <1>2, <1>3, EmptySeq DEF Places
  <1>6. PICK r : r = [i \in DOMAIN items |-> Unanswered]
    OBVIOUS
  <1>7. BatchOf(b)
    <2>1. PICK P : P = Places(b)
      OBVIOUS
    <2>2. r \in [P -> Outcome] /\ <<>> \in Seq(P) /\ <<>> \in Seq([of : Asked, ok : BOOLEAN])
      BY <1>2, <1>4, <1>5, <1>6, <2>1
    <2>3. b = [items |-> items, customer |-> customer, step |-> "partition", provided |-> <<>>,
               needed |-> <<>>, geocoded |-> <<>>, at |-> 1, results |-> r, denied |-> FALSE]
      BY <1>6
    <2>4. b \in BatchesOver(P)
      BY <1>1, <2>2, <2>3 DEF BatchesOver, ItemLists, PlaceLists, Geocodings, OutcomesAt, Positives, Steps
    <2> QED  BY <2>1, <2>4 DEF BatchOf
  <1>8. Len(<<>>) = 0
    BY EmptySeq
  <1>9. Lists(b)
    BY <1>1, <1>2, <1>3, <1>8 DEF Lists
  <1>10. DoneSoFar(b) /\ Billed(b, {})
    BY <1>3, <1>4, <1>5 DEF DoneSoFar, Billed
  <1> QED  BY <1>7, <1>9, <1>10 DEF Good

(* What every step on a batch has in hand. *)
LEMMA Typed ==
  ASSUME NEW b, BatchOf(b)
  PROVE  /\ Len(b.items) \in Nat /\ Len(b.provided) \in Nat /\ Len(b.needed) \in Nat
         /\ Len(b.geocoded) \in Nat /\ DOMAIN b.items = Places(b)
         /\ \A i \in Places(b) : b.items[i] \in Asked
         /\ \A n \in 1 .. Len(b.provided) : b.provided[n] \in Places(b)
         /\ \A n \in 1 .. Len(b.needed) : b.needed[n] \in Places(b)
         /\ \A n \in 1 .. Len(b.geocoded) : b.geocoded[n] \in [of : Asked, ok : BOOLEAN]
         /\ b.at \in Nat \ {0} /\ \A i \in Places(b) : b.results[i] \in Outcome
  <1>1. /\ b.items \in Seq(Asked) /\ b.provided \in Seq(Places(b)) /\ b.needed \in Seq(Places(b))
        /\ b.geocoded \in Seq([of : Asked, ok : BOOLEAN])
        /\ b.at \in Nat \ {0} /\ b.results \in [Places(b) -> Outcome]
    BY DEF BatchOf, BatchesOver, ItemLists, PlaceLists, Geocodings, OutcomesAt, Positives
  <1> QED  BY <1>1, LenProperties, ElementOfSeq DEF Places

(* The next step begins. *)
LEMMA GoesToGood ==
  ASSUME NEW b, Good(b, {}), NEW s, NEW c, c = [b EXCEPT !.step = s, !.at = 1],
         \/ b.step = "partition" /\ b.at > Len(b.items) /\ s = "coordinates"
         \/ b.step = "coordinates" /\ b.at > Len(b.provided) /\ s = "geocode"
         \/ b.step = "geocode" /\ b.at > Len(b.needed) /\ s = "lookup"
         \/ b.step = "lookup" /\ b.at > Len(b.geocoded) /\ s = "bill"
  PROVE  Good(c, {})
  <1>1. BatchOf(b) /\ Lists(b) /\ DoneSoFar(b) /\ Billed(b, {})
    BY DEF Good
  <1>2. /\ c.items = b.items /\ c.provided = b.provided /\ c.needed = b.needed
        /\ c.geocoded = b.geocoded /\ c.results = b.results /\ c.denied = b.denied
        /\ c.step = s /\ c.at = 1 /\ Places(c) = Places(b) /\ c.customer = b.customer
    BY <1>1 DEF BatchOf, BatchesOver, Places
  <1>3. BatchOf(c)
    <2>1. s \in {"partition", "coordinates", "geocode", "lookup", "bill"}
      OBVIOUS
    <2>2. PICK P : P = Places(b)
      OBVIOUS
    <2>3. b \in BatchesOver(P)
      BY <1>1, <2>2 DEF BatchOf
    <2>4. c \in BatchesOver(P)
      <3>1. s \in Steps /\ 1 \in Positives
        BY <2>1 DEF Steps, Positives
      <3> QED  BY <2>3, <3>1 DEF BatchesOver
    <2> QED  BY <1>2, <2>2, <2>4 DEF BatchOf
  <1>4. \A i \in Places(b) : Listed(b, i) <=> Listed(c, i)
    BY <1>2 DEF Listed
  <1>5. \A i \in Places(b) : Done(b, i) <=> Done(c, i)
    BY <1>2 DEF Done
  <1>6. Lists(c)
    <2>1. \A i \in Places(b) : Listed(b, i)
      BY <1>1, Typed DEF Lists, Places
    <2>2. s # "partition"
      OBVIOUS
    <2>3. s = "geocode" => b.geocoded = <<>> /\ Len(<<>>) = 0
      BY <1>1, EmptySeq DEF Lists
    <2>4. s = "coordinates" => b.geocoded = <<>>
      BY <1>1 DEF Lists
    <2>5. s = "lookup" => Len(b.geocoded) = Len(b.needed)
      BY <1>1, Typed DEF Lists
    <2> QED  BY <1>1, <1>2, <1>4, <2>1, <2>2, <2>3, <2>4, <2>5 DEF Lists
  <1>7. DoneSoFar(c)
    <2>1. s = "geocode" => \A n \in 1 .. Len(b.provided) : Done(b, b.provided[n])
      BY <1>1, Typed DEF DoneSoFar
    <2>2. s = "lookup" => \A n \in 1 .. Len(b.provided) : Done(b, b.provided[n])
      BY <1>1 DEF DoneSoFar
    <2>3. ASSUME s = "bill" PROVE \A i \in Places(b) : Done(b, i)
      <3>1. \A n \in 1 .. Len(b.provided) : Done(b, b.provided[n])
        BY <1>1, <2>3 DEF DoneSoFar
      <3>2. b.step = "lookup" /\ b.at > Len(b.needed)
        BY <1>1, <2>3 DEF Lists
      <3>3. \A n \in 1 .. Len(b.needed) : Done(b, b.needed[n])
        BY <1>1, <3>2, Typed DEF DoneSoFar
      <3>4. \A i \in Places(b) : Listed(b, i)
        BY <1>1, <3>2 DEF Lists
      <3> QED  BY <3>1, <3>3, <3>4 DEF Listed
    <2>4. Len(b.provided) \in Nat /\ Len(b.needed) \in Nat /\ Len(b.items) \in Nat
      BY <1>1, Typed
    <2>5. \A n \in 1 .. Len(b.provided) : Done(b, b.provided[n]) => Done(c, b.provided[n])
      BY <1>1, <1>5, Typed
    <2> QED  BY <1>2, <1>5, <2>1, <2>2, <2>3, <2>4, <2>5 DEF DoneSoFar
  <1>8. Billed(c, {})
    BY <1>1, <1>2 DEF Billed
  <1> QED  BY <1>3, <1>6, <1>7, <1>8 DEF Good

(* Partition: an item is put into one list. *)
LEMMA PartitionsGood ==
  ASSUME NEW b, Good(b, {}), b.step = "partition", b.at <= Len(b.items), NEW c,
         \/ c = [b EXCEPT !.provided = Append(b.provided, b.at), !.at = b.at + 1]
         \/ c = [b EXCEPT !.needed = Append(b.needed, b.at), !.at = b.at + 1]
  PROVE  Good(c, {})
  <1>1. BatchOf(b) /\ Lists(b) /\ DoneSoFar(b) /\ Billed(b, {})
    BY DEF Good
  <1>2. b \in BatchesOver(Places(b)) /\ b.provided \in Seq(Places(b)) /\ b.needed \in Seq(Places(b))
    BY <1>1 DEF BatchOf, BatchesOver, PlaceLists
  <1>3. b.at \in Places(b) /\ b.at + 1 \in Positives
    BY <1>1, Typed DEF Places, Positives
  <1> PICK p, n : p = Append(b.provided, b.at) /\ n = Append(b.needed, b.at)
    OBVIOUS
  <1>4. /\ p \in PlaceLists(Places(b)) /\ Len(p) = Len(b.provided) + 1 /\ p[Len(b.provided) + 1] = b.at
        /\ \A m \in 1 .. Len(b.provided) : p[m] = b.provided[m]
        /\ n \in PlaceLists(Places(b)) /\ Len(n) = Len(b.needed) + 1 /\ n[Len(b.needed) + 1] = b.at
        /\ \A m \in 1 .. Len(b.needed) : n[m] = b.needed[m]
    BY <1>2, <1>3, AppendProperties DEF PlaceLists
  <1>5. /\ c.items = b.items /\ c.geocoded = b.geocoded /\ c.results = b.results /\ c.denied = b.denied
        /\ c.step = b.step /\ c.at = b.at + 1 /\ Places(c) = Places(b) /\ c \in BatchesOver(Places(b))
        /\ (c.provided = p /\ c.needed = b.needed) \/ (c.provided = b.provided /\ c.needed = n)
    <2>1. CASE c = [b EXCEPT !.provided = p, !.at = b.at + 1]
      BY <1>2, <1>3, <1>4, <2>1 DEF BatchesOver, Places
    <2>2. CASE c = [b EXCEPT !.needed = n, !.at = b.at + 1]
      BY <1>2, <1>3, <1>4, <2>2 DEF BatchesOver, Places
    <2> QED  BY <2>1, <2>2
  <1>6. Len(b.provided) \in Nat /\ Len(b.needed) \in Nat /\ b.at \in Nat
    BY <1>1, Typed
  <1>7. \A i \in 1 .. b.at : Listed(c, i)
    <2>1. Listed(c, b.at)
      <3>1. CASE c.provided = p
        <4>1. Len(b.provided) + 1 \in 1 .. Len(c.provided) /\ c.provided[Len(b.provided) + 1] = b.at
          BY <1>4, <1>6, <3>1
        <4> QED  BY <4>1 DEF Listed
      <3>2. CASE c.needed = n
        <4>1. Len(b.needed) + 1 \in 1 .. Len(c.needed) /\ c.needed[Len(b.needed) + 1] = b.at
          BY <1>4, <1>6, <3>2
        <4> QED  BY <4>1 DEF Listed
      <3> QED  BY <1>5, <3>1, <3>2
    <2>2. \A i \in 1 .. b.at - 1 : Listed(b, i)
      BY <1>1 DEF Lists
    <2>3. ASSUME NEW i, Listed(b, i) PROVE Listed(c, i)
      <3>1. \A m \in 1 .. Len(b.provided) :
              m \in 1 .. Len(c.provided) /\ c.provided[m] = b.provided[m]
        BY <1>4, <1>5, <1>6
      <3>2. \A m \in 1 .. Len(b.needed) : m \in 1 .. Len(c.needed) /\ c.needed[m] = b.needed[m]
        BY <1>4, <1>5, <1>6
      <3> QED  BY <2>3, <3>1, <3>2 DEF Listed
    <2> QED  BY <1>6, <2>1, <2>2, <2>3
  <1>8. Lists(c)
    <2>1. b.geocoded = <<>> /\ Len(<<>>) = 0 /\ Len(c.needed) \in Nat /\ Len(c.geocoded) = 0
      BY <1>1, <1>4, <1>5, <1>6, EmptySeq DEF Lists
    <2> QED  BY <1>1, <1>5, <1>6, <1>7, <2>1, Typed DEF Lists
  <1>9. DoneSoFar(c)
    BY <1>5 DEF DoneSoFar
  <1>10. Billed(c, {})
    BY <1>1, <1>5 DEF Billed
  <1> QED  BY <1>5, <1>8, <1>9, <1>10 DEF Good, BatchOf

(* One of the items is geocoded. *)
LEMMA GeocodesGood ==
  ASSUME NEW b, Good(b, {}), b.step = "geocode", b.at <= Len(b.needed), NEW ok \in BOOLEAN, NEW c,
         NEW e, e = [of |-> b.items[b.needed[b.at]], ok |-> ok],
         c = [b EXCEPT !.geocoded = Append(b.geocoded, e), !.at = b.at + 1]
  PROVE  Good(c, {})
  <1>1. BatchOf(b) /\ Lists(b) /\ DoneSoFar(b) /\ Billed(b, {})
    BY DEF Good
  <1>2. b \in BatchesOver(Places(b)) /\ b.geocoded \in Seq([of : Asked, ok : BOOLEAN])
    BY <1>1 DEF BatchOf, BatchesOver, Geocodings
  <1>3. b.at + 1 \in Positives /\ b.at \in 1 .. Len(b.needed) /\ Len(b.geocoded) \in Nat /\ Len(b.needed) \in Nat
    BY <1>1, Typed DEF Positives
  <1>4. e \in [of : Asked, ok : BOOLEAN] /\ e.of = b.items[b.needed[b.at]]
    BY <1>1, <1>3, Typed
  <1> PICK g : g = Append(b.geocoded, e)
    OBVIOUS
  <1>5. /\ g \in Geocodings /\ Len(g) = Len(b.geocoded) + 1 /\ g[Len(b.geocoded) + 1] = e
        /\ \A m \in 1 .. Len(b.geocoded) : g[m] = b.geocoded[m]
    BY <1>2, <1>4, AppendProperties DEF Geocodings
  <1>6. /\ c.items = b.items /\ c.results = b.results /\ c.denied = b.denied /\ c.provided = b.provided
        /\ c.step = b.step /\ c.at = b.at + 1 /\ Places(c) = Places(b) /\ c \in BatchesOver(Places(b))
        /\ c.needed = b.needed /\ c.geocoded = g
    BY <1>2, <1>3, <1>5 DEF BatchesOver, Places
  <1>7. Len(b.geocoded) = b.at - 1
    BY <1>1 DEF Lists
  <1>8. \A m \in 1 .. Len(g) : g[m].of = b.items[b.needed[m]]
    <2>1. \A m \in 1 .. Len(b.geocoded) : g[m].of = b.items[b.needed[m]]
      BY <1>1, <1>5 DEF Lists
    <2>2. g[b.at].of = b.items[b.needed[b.at]]
      BY <1>3, <1>4, <1>5, <1>7
    <2> QED  BY <1>3, <1>5, <1>7, <2>1, <2>2
  <1>9. \A i : (Listed(b, i) <=> Listed(c, i)) /\ (Done(b, i) <=> Done(c, i))
    BY <1>6 DEF Listed, Done
  <1>10. Lists(c)
    <2>1. \A j \in Places(c) : Listed(c, j)
      BY <1>1, <1>6, <1>9 DEF Lists
    <2>2. Len(c.geocoded) = c.at - 1 /\ Len(c.geocoded) <= Len(c.needed)
      BY <1>3, <1>5, <1>6, <1>7
    <2>3. \A m \in 1 .. Len(c.geocoded) : c.geocoded[m].of = c.items[c.needed[m]]
      BY <1>6, <1>8
    <2> QED  BY <1>6, <2>1, <2>2, <2>3 DEF Lists
  <1>11. DoneSoFar(c)
    BY <1>1, <1>6, <1>9 DEF DoneSoFar
  <1>12. Billed(c, {})
    BY <1>1, <1>6 DEF Billed
  <1> QED  BY <1>6, <1>10, <1>11, <1>12 DEF Good, BatchOf

WithResult(b, i, x) == [b EXCEPT !.results = [b.results EXCEPT ![i] = x], !.at = b.at + 1]
WithoutChange(b) == [b EXCEPT !.at = b.at + 1]
WithDenial(b, x) ==
  [b EXCEPT !.results = [b.results EXCEPT ![b.at] = x], !.denied = TRUE, !.at = b.at + 1]

(* A result is put into the place of its item. *)
LEMMA PutsGood ==
  ASSUME NEW b, Good(b, {}), NEW i, NEW x, NEW c,
         \/ b.step = "coordinates" /\ b.at <= Len(b.provided) /\ i = b.provided[b.at]
         \/ b.step = "lookup" /\ b.at <= Len(b.geocoded) /\ i = b.needed[b.at],
         x \in {Answered(b.items[i]), InError(b.items[i])},
         c = WithResult(b, i, x)
  PROVE  Good(c, {})
  <1>1. BatchOf(b) /\ Lists(b) /\ DoneSoFar(b) /\ Billed(b, {})
    BY DEF Good
  <1>2. b \in BatchesOver(Places(b)) /\ b.results \in [Places(b) -> Outcome]
    BY <1>1 DEF BatchOf, BatchesOver, OutcomesAt
  <1>3. /\ b.at + 1 \in Positives /\ b.at \in Nat \ {0} /\ Len(b.geocoded) \in Nat
        /\ Len(b.needed) \in Nat /\ Len(b.provided) \in Nat
    BY <1>1, Typed DEF Positives
  <1>4. i \in Places(b) /\ b.items[i] \in Asked
    BY <1>1, <1>3, Typed DEF Lists
  <1>5. x \in Outcome /\ Whole(x) /\ x.of = b.items[i]
    BY <1>4, Results
  <1> PICK y : y = [b.results EXCEPT ![i] = x]
    OBVIOUS
  <1>6. y \in OutcomesAt(Places(b)) /\ y[i] = x /\ \A j \in Places(b) \ {i} : y[j] = b.results[j]
    BY <1>2, <1>4, <1>5 DEF OutcomesAt
  <1>7. /\ c.items = b.items /\ c.results = y /\ c.denied = b.denied /\ c.provided = b.provided
        /\ c.step = b.step /\ c.at = b.at + 1 /\ Places(c) = Places(b) /\ c \in BatchesOver(Places(b))
        /\ c.needed = b.needed /\ c.geocoded = b.geocoded
    BY <1>2, <1>3, <1>6 DEF BatchesOver, Places, WithResult, WithoutChange, WithDenial
  <1>8. Done(c, i) /\ \A j \in Places(b) : Done(b, j) => Done(c, j)
    BY <1>4, <1>5, <1>6, <1>7 DEF Done
  <1>9. \A j : Listed(b, j) <=> Listed(c, j)
    BY <1>7 DEF Listed
  <1>10. Lists(c)
    BY <1>1, <1>7, <1>9 DEF Lists
  <1>11. DoneSoFar(c)
    <2>1. \A m \in 1 .. Len(b.provided) : b.provided[m] \in Places(b)
      BY <1>1, Typed
    <2>2. \A m \in 1 .. Len(b.needed) : b.needed[m] \in Places(b)
      BY <1>1, Typed
    <2>3. CASE b.step = "coordinates"
      BY <1>1, <1>3, <1>7, <1>8, <2>1, <2>3 DEF DoneSoFar
    <2>4. CASE b.step = "lookup"
      BY <1>1, <1>3, <1>7, <1>8, <2>1, <2>2, <2>4 DEF DoneSoFar, Lists
    <2> QED  BY <2>3, <2>4
  <1>12. Billed(c, {})
    BY <1>1, <1>5, <1>6, <1>7 DEF Billed
  <1> QED  BY <1>7, <1>10, <1>11, <1>12 DEF Good, BatchOf

(* Billing: an item is passed over, counted, or refused and redacted.       *)
LEMMA BillsGood ==
  ASSUME NEW b, NEW counted, Good(b, counted), b.step = "bill", b.at <= Len(b.items),
         NEW c, NEW more, NEW x, x = b.results[b.at],
         \/ /\ x.error \/ ~b.customer
            /\ c = WithoutChange(b) /\ more = counted
         \/ /\ ~x.error /\ b.customer /\ ~b.denied
            /\ c = WithoutChange(b) /\ more = counted \cup {b.at}
         \/ /\ ~x.error /\ b.customer /\ c = WithDenial(b, Redacted(x)) /\ more = counted
  PROVE  Good(c, more)
  <1>1. BatchOf(b) /\ Lists(b) /\ DoneSoFar(b) /\ Billed(b, counted)
    BY DEF Good
  <1>2. b \in BatchesOver(Places(b)) /\ b.results \in [Places(b) -> Outcome]
    BY <1>1 DEF BatchOf, BatchesOver, OutcomesAt
  <1>3. b.at + 1 \in Positives /\ b.at \in Places(b) /\ b.at \in Nat \ {0} /\ Len(b.items) \in Nat
    BY <1>1, Typed DEF Positives, Places
  <1>4. x \in Outcome /\ Whole(x) /\ Done(b, b.at)
    BY <1>1, <1>2, <1>3 DEF Billed, DoneSoFar
  <1> PICK z : z = Redacted(x)
    OBVIOUS
  <1>5. z \in Outcome /\ z.of = x.of /\ z.riding = FALSE /\ z.found = x.found
    BY <1>4 DEF Redacted, Outcome
  <1>6. /\ c.items = b.items /\ c.provided = b.provided /\ c.step = b.step /\ c.at = b.at + 1
        /\ Places(c) = Places(b) /\ c \in BatchesOver(Places(b)) /\ c.customer = b.customer
        /\ c.needed = b.needed /\ c.geocoded = b.geocoded
        /\ \/ c.results = b.results /\ c.denied = b.denied
           \/ c.results = [b.results EXCEPT ![b.at] = z] /\ c.denied = TRUE
    <2>1. CASE c = WithoutChange(b)
      BY <1>2, <1>3, <2>1 DEF BatchesOver, Places, WithResult, WithoutChange, WithDenial
    <2>2. CASE c = WithDenial(b, z)
      <3> PICK y : y = [b.results EXCEPT ![b.at] = z]
        OBVIOUS
      <3>1. y \in OutcomesAt(Places(b))
        BY <1>2, <1>3, <1>5 DEF OutcomesAt
      <3> QED  BY <1>2, <1>3, <2>2, <3>1 DEF BatchesOver, Places, WithResult, WithoutChange, WithDenial
    <2> QED  BY <2>1, <2>2
  <1>7. \A j \in Places(b) : /\ j # b.at => c.results[j] = b.results[j]
                             /\ c.results[j].of = b.results[j].of
    BY <1>2, <1>3, <1>5, <1>6
  <1>8. Lists(c)
    BY <1>1, <1>6 DEF Lists, Listed
  <1>9. DoneSoFar(c)
    BY <1>1, <1>3, <1>6, <1>7 DEF DoneSoFar, Done
  <1>10. Billed(c, more)
    <2>1. \A i \in 1 .. b.at - 1 : i \in Places(b) /\ c.results[i] = b.results[i]
      BY <1>3, <1>7 DEF Places
    <2>2. c.at - 1 = b.at /\ \A i \in 1 .. b.at : i = b.at \/ i \in 1 .. b.at - 1
      BY <1>3, <1>6
    <2>3. \A i \in Places(c) : i >= c.at => Whole(c.results[i])
      BY <1>1, <1>3, <1>6, <1>7 DEF Billed, Places
    <2>4. CASE c = WithoutChange(b) /\ (x.error \/ ~b.customer) /\ more = counted
      <3>1. c.results = b.results /\ c.denied = b.denied
        BY <1>2, <2>4 DEF BatchesOver, WithoutChange, WithDenial
      <3>2. c.denied => c.customer
        BY <1>1, <1>6, <3>1 DEF Billed
      <3>3. c.customer => ~x.riding /\ ~x.found
        BY <1>4, <1>6, <2>4 DEF Whole
      <3>4. c.customer => more = {i \in 1 .. b.at : c.results[i].riding}
        <4> SUFFICES ASSUME c.customer PROVE more = {i \in 1 .. b.at : c.results[i].riding}
          OBVIOUS
        <4>1. counted = {i \in 1 .. b.at - 1 : b.results[i].riding}
          BY <1>1, <1>6 DEF Billed
        <4>2. ~c.results[b.at].riding
          BY <3>1, <3>3
        <4>3. \A i \in 1 .. b.at - 1 : i \in 1 .. b.at /\ c.results[i] = b.results[i]
          BY <1>3, <2>1
        <4> QED  BY <2>2, <2>4, <4>1, <4>2, <4>3
      <3>5. ~c.denied => \A i \in 1 .. b.at : c.results[i].found => c.results[i].riding
        BY <1>1, <1>4, <2>2, <3>1 DEF Billed, Whole
      <3>6. \A i, j \in 1 .. b.at :
              i < j /\ c.results[j].riding /\ c.results[i].found => c.results[i].riding
        BY <1>1, <1>4, <1>6, <2>2, <3>1, <3>2, <3>3, <3>5 DEF Billed, Whole
      <3> QED  BY <1>6, <2>2, <2>3, <3>2, <3>4, <3>5, <3>6 DEF Billed
    <2>5. CASE /\ c = WithoutChange(b) /\ ~x.error /\ b.customer /\ ~b.denied
               /\ more = counted \cup {b.at}
      <3>1. c.results = b.results /\ c.denied = b.denied
        BY <1>2, <2>5 DEF BatchesOver, WithoutChange, WithDenial
      <3>2. x.riding
        BY <1>4, <2>5 DEF Whole, Outcome
      <3>3. more = {i \in 1 .. b.at : c.results[i].riding}
        BY <1>1, <1>3, <2>1, <2>2, <2>5, <3>1, <3>2 DEF Billed
      <3>4. \A i \in 1 .. b.at : c.results[i].found => c.results[i].riding
        BY <1>1, <2>2, <2>5, <3>1, <3>2 DEF Billed
      <3> QED  BY <1>6, <2>2, <2>3, <2>5, <3>1, <3>3, <3>4 DEF Billed
    <2>6. CASE b.customer /\ more = counted /\ c = WithDenial(b, z)
      <3>1. c.results[b.at] = z /\ c.denied = TRUE
        <4> PICK y : y = [b.results EXCEPT ![b.at] = z]
          OBVIOUS
        <4>1. y[b.at] = z
          BY <1>2, <1>3
        <4> QED  BY <1>2, <2>6, <4>1 DEF BatchesOver, WithoutChange, WithDenial
      <3>2. more = {i \in 1 .. b.at : c.results[i].riding}
        <4>1. counted = {i \in 1 .. b.at - 1 : b.results[i].riding}
          BY <1>1, <2>6 DEF Billed
        <4>2. ~c.results[b.at].riding
          BY <1>5, <3>1
        <4>3. \A i \in 1 .. b.at - 1 : i \in 1 .. b.at /\ c.results[i] = b.results[i]
          BY <1>3, <2>1
        <4> QED  BY <2>2, <2>6, <4>1, <4>2, <4>3
      <3>3. \A i, j \in 1 .. b.at :
              i < j /\ c.results[j].riding /\ c.results[i].found => c.results[i].riding
        BY <1>1, <1>3, <1>5, <2>1, <2>2, <3>1 DEF Billed
      <3> QED  BY <1>6, <2>2, <2>3, <2>6, <3>1, <3>2, <3>3 DEF Billed
    <2> QED  BY <2>4, <2>5, <2>6
  <1> QED  BY <1>6, <1>8, <1>9, <1>10 DEF Good, BatchOf

LEMMA RespondsInPlace ==
  ASSUME NEW b, NEW counted, Good(b, counted), b.step = "bill", b.at > Len(b.items), NEW r,
         r = [items |-> b.items, results |-> b.results, customer |-> b.customer]
  PROVE  /\ DOMAIN r.results = DOMAIN r.items
         /\ \A i \in DOMAIN r.results : r.results[i].of = r.items[i]
         /\ r.customer => /\ counted = {i \in DOMAIN r.results : r.results[i].riding}
                          /\ \A i, j \in DOMAIN r.results :
                               i < j /\ r.results[j].riding /\ r.results[i].found => r.results[i].riding
  <1>1. BatchOf(b) /\ DoneSoFar(b) /\ Billed(b, counted)
    BY DEF Good
  <1>2. DOMAIN b.items = Places(b) /\ Len(b.items) \in Nat /\ b.at \in Nat
    BY <1>1, Typed
  <1>3. b.results \in [Places(b) -> Outcome]
    BY <1>1 DEF BatchOf, BatchesOver, OutcomesAt
  <1>4. b.at = Len(b.items) + 1 /\ 1 .. b.at - 1 = Places(b)
    BY <1>1, <1>2 DEF DoneSoFar, Places
  <1> QED  BY <1>1, <1>2, <1>3, <1>4 DEF DoneSoFar, Done, Billed

LEMMA WorksGood ==
  ASSUME BatchInv, BatchWorks
  PROVE  BatchInv'
  <1> PICK b : b = batch  OBVIOUS
  <1>1. batch # NoBatch /\ Good(b, billed) /\ reply = NoBatch
    BY DEF BatchInv, BatchWorks, Partitions, LooksUpCoordinates, GeocodesNext, LooksUpGeocoded,
           BillsNext, Responds, AtStep
  <1>2. b.step # "bill" => billed = {}
    BY <1>1 DEF Good, Billed
  <1>3. ASSUME Good(b, {}) => Good(batch', {}), b.step # "bill", UNCHANGED <<reply, billed>>
        PROVE  BatchInv'
    BY <1>1, <1>2, <1>3 DEF BatchInv, AnsweredInPlace
  <1>4. CASE Partitions
    <2>1. b.step = "partition" /\ UNCHANGED <<reply, billed>>
      BY <1>4 DEF Partitions, AtStep
    <2>2. ASSUME Good(b, {}) PROVE Good(batch', {})
      <3>1. CASE b.at > Len(b.items)
        BY <1>4, <2>1, <2>2, <3>1, GoesToGood DEF Partitions, GoesTo
      <3>2. CASE ~(b.at > Len(b.items))
        <4>1. b.at <= Len(b.items)
          BY <2>2, <3>2, Typed DEF Good
        <4> QED  BY <1>4, <2>1, <2>2, <3>2, <4>1, PartitionsGood DEF Partitions
      <3> QED  BY <3>1, <3>2
    <2> QED  BY <1>3, <2>1, <2>2
  <1>5. CASE LooksUpCoordinates
    <2>1. b.step = "coordinates" /\ UNCHANGED <<reply, billed>>
      BY <1>5 DEF LooksUpCoordinates, AtStep
    <2>2. ASSUME Good(b, {}) PROVE Good(batch', {})
      <3>1. CASE b.at > Len(b.provided)
        BY <1>5, <2>1, <2>2, <3>1, GoesToGood DEF LooksUpCoordinates, GoesTo
      <3>2. CASE ~(b.at > Len(b.provided))
        <4>1. b.at <= Len(b.provided)
          BY <2>2, <3>2, Typed DEF Good
        <4> PICK i : i = b.provided[b.at]
          OBVIOUS
        <4>2. PICK x \in {Answered(b.items[i]), InError(b.items[i])} :
                batch' = [b EXCEPT !.results[i] = x, !.at = b.at + 1]
          BY <1>5, <3>2 DEF LooksUpCoordinates, Puts
        <4>3. batch' = WithResult(b, i, x)
          BY <2>2, <4>2 DEF Good, BatchOf, BatchesOver, WithResult
        <4>4. x \in {Answered(b.items[i]), InError(b.items[i])}
          OBVIOUS
        <4> QED  BY <2>1, <2>2, <4>1, <4>3, <4>4, PutsGood
      <3> QED  BY <3>1, <3>2
    <2> QED  BY <1>3, <2>1, <2>2
  <1>6. CASE GeocodesNext
    <2>1. b.step = "geocode" /\ UNCHANGED <<reply, billed>>
      BY <1>6 DEF GeocodesNext, AtStep
    <2>2. ASSUME Good(b, {}) PROVE Good(batch', {})
      <3>1. CASE b.at > Len(b.needed)
        BY <1>6, <2>1, <2>2, <3>1, GoesToGood DEF GeocodesNext, GoesTo
      <3>2. CASE ~(b.at > Len(b.needed))
        <4>1. b.at <= Len(b.needed)
          BY <2>2, <3>2, Typed DEF Good
        <4>2. PICK ok \in BOOLEAN :
                batch' = [b EXCEPT !.geocoded = Append(@, [of |-> b.items[b.needed[b.at]], ok |-> ok]),
                                   !.at = b.at + 1]
          BY <1>6, <3>2 DEF GeocodesNext
        <4>3. PICK e : e = [of |-> b.items[b.needed[b.at]], ok |-> ok]
          OBVIOUS
        <4>4. batch' = [b EXCEPT !.geocoded = Append(b.geocoded, e), !.at = b.at + 1]
          BY <4>2, <4>3
        <4> QED  BY <2>1, <2>2, <4>1, <4>3, <4>4, GeocodesGood
      <3> QED  BY <3>1, <3>2
    <2> QED  BY <1>3, <2>1, <2>2
  <1>7. CASE LooksUpGeocoded
    <2>1. b.step = "lookup" /\ UNCHANGED <<reply, billed>>
      BY <1>7 DEF LooksUpGeocoded, AtStep
    <2>2. ASSUME Good(b, {}) PROVE Good(batch', {})
      <3>1. CASE b.at > Len(b.geocoded)
        BY <1>7, <2>1, <2>2, <3>1, GoesToGood DEF LooksUpGeocoded, GoesTo
      <3>2. CASE ~(b.at > Len(b.geocoded))
        <4>1. b.at <= Len(b.geocoded) /\ b.at \in 1 .. Len(b.geocoded)
          BY <2>2, <3>2, Typed DEF Good
        <4> PICK i : i = b.needed[b.at]
          OBVIOUS
        <4>2. b.geocoded[b.at].of = b.items[i]
          BY <2>2, <4>1 DEF Good, Lists
        <4>3. PICK x \in {Answered(b.items[i]), InError(b.items[i])} :
                batch' = [b EXCEPT !.results[i] = x, !.at = b.at + 1]
          BY <1>7, <3>2, <4>2 DEF LooksUpGeocoded, Puts, PlaceOf
        <4>4. batch' = WithResult(b, i, x)
          BY <2>2, <4>3 DEF Good, BatchOf, BatchesOver, WithResult
        <4>5. x \in {Answered(b.items[i]), InError(b.items[i])}
          OBVIOUS
        <4> QED  BY <2>1, <2>2, <4>1, <4>4, <4>5, PutsGood
      <3> QED  BY <3>1, <3>2
    <2> QED  BY <1>3, <2>1, <2>2
  <1>8. CASE BillsNext
    <2>1. b.step = "bill" /\ b.at <= Len(b.items) /\ reply' = reply
      BY <1>8 DEF BillsNext, AtStep
    <2> PICK x : x = b.results[b.at]
      OBVIOUS
    <2>2. \/ /\ x.error \/ ~b.customer
             /\ batch' = WithoutChange(b) /\ billed' = billed
          \/ /\ ~x.error /\ b.customer /\ ~b.denied
             /\ batch' = WithoutChange(b) /\ billed' = billed \cup {b.at}
          \/ /\ ~x.error /\ b.customer
             /\ batch' = WithDenial(b, Redacted(x)) /\ billed' = billed
      <3>1. [b EXCEPT !.results[b.at] = Redacted(@), !.denied = TRUE, !.at = @ + 1] = WithDenial(b, Redacted(x))
        BY <1>1 DEF Good, BatchOf, BatchesOver, WithDenial
      <3> QED  BY <1>8, <3>1 DEF BillsNext, WithoutChange
    <2> PICK c, counted, more : c = batch' /\ counted = billed /\ more = billed'
      OBVIOUS
    <2>3. Good(c, more)
      <3>1. Good(b, counted)
        BY <1>1
      <3> QED  BY <2>1, <2>2, <3>1, BillsGood
    <2> QED  BY <1>1, <2>1, <2>3 DEF BatchInv, AnsweredInPlace
  <1>9. CASE Responds
    <2>1. PICK r : r = [items |-> b.items, results |-> b.results, customer |-> b.customer]
      OBVIOUS
    <2>2. reply' = r /\ batch' = NoBatch /\ billed' = billed /\ b.step = "bill" /\ b.at > Len(b.items)
      BY <1>9, <2>1 DEF Responds, AtStep
    <2>3. AnsweredInPlace'
      BY <1>1, <2>1, <2>2, RespondsInPlace DEF AnsweredInPlace
    <2> QED  BY <2>2, <2>3 DEF BatchInv
  <1> QED  BY <1>4, <1>5, <1>6, <1>7, <1>8, <1>9 DEF BatchWorks

(* Every item of a batch is answered in its own place, and where the work   *)
(* is billed a riding is given out for exactly what was counted.            *)
THEOREM BatchesAreAnsweredInPlace == BatchSpec => []AnsweredInPlace
  <1>1. BatchInit => BatchInv
    BY DEF BatchInit, BatchInv, AnsweredInPlace
  <1>2. BatchInv /\ [BatchNext]_batchVars => BatchInv'
    <2> SUFFICES ASSUME BatchInv, [BatchNext]_batchVars PROVE BatchInv'
      OBVIOUS
    <2>1. ASSUME NEW n \in 1 .. MaxBatchSize, NEW items \in [1 .. n -> Asked], NEW customer \in BOOLEAN,
                 AcceptsBatch(items, customer)
          PROVE  BatchInv'
      <3> PICK b : b = [items |-> items, customer |-> customer, step |-> "partition",
                        provided |-> <<>>, needed |-> <<>>, geocoded |-> <<>>, at |-> 1,
                        results |-> [i \in DOMAIN items |-> Unanswered], denied |-> FALSE]
        OBVIOUS
      <3>1. batch' = b /\ reply' = NoBatch /\ billed' = {}
        BY <2>1 DEF AcceptsBatch
      <3>2. Good(b, {})
        BY AcceptsGood
      <3> QED  BY <3>1, <3>2 DEF BatchInv, AnsweredInPlace
    <2>2. CASE UNCHANGED batchVars
      BY <2>2 DEF batchVars, BatchInv, AnsweredInPlace
    <2> QED  BY <2>1, <2>2, WorksGood DEF BatchNext
  <1>3. BatchInv => AnsweredInPlace
    BY DEF BatchInv
  <1> QED  BY <1>1, <1>2, <1>3, PTL DEF BatchSpec
=============================================================================
