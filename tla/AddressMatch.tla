---------------------------- MODULE AddressMatch ----------------------------
(* A lookup in the local database, tier by tier (src/oda-geocoding.ts, with *)
(* the queries of src/address-store.ts): the exact address under the city   *)
(* as it was named and under its other names, the street, the street within *)
(* the postal code, the code and its neighbours, the nearest address.  Each *)
(* tier is a query of its own to tables NarImport changes meanwhile.  What  *)
(* answers is stamped with the vintage its city is in, which each isolate   *)
(* remembers for five minutes (src/oda-source.ts).                          *)
(*                                                                          *)
(* Streets have one name, in every city.  The readings of an address text   *)
(* are the query they yield, distances are what they decide, and a city's   *)
(* centroid is always below the confidence asked for.  Not here: the zones  *)
(* of postal codes, which neither import fills.                             *)
EXTENDS NarImport

CONSTANTS
  Queries,      \* [kind, keys, civic, unit, postal, hint]; see Query
  CivicNo,      \* of each address
  UnitNo,       \* of each address; 0 without a unit
  Siblings,     \* the postal codes that share the prefix of one
  Scattered,    \* the sets of codes that lie too far apart to stand for one
  ExactLimit,   \* EXACT_FETCH_LIMIT
  MaxAsks,      \* bound: lookups
  Nobody

(* A city named in a query is its keys, as it was spelled first.  The hint  *)
(* is near or far from what there is, or none is given; a reverse lookup    *)
(* has no other part.                                                       *)
Query == [kind : {"forward", "postal", "reverse"}, keys : Seq(Keys), civic : Nat, unit : Nat,
          postal : Postals \cup {NoPostal}, hint : {"none", "near", "far"}]

(* expandCityCandidates lists no name twice. *)
ASSUME MatchConstants ==
  /\ Queries \subseteq Query /\ \A query \in Queries : IsInjective(query.keys)
  /\ ExactLimit \in Nat \ {0}

VARIABLES
  ask,      \* the lookup under way, and the tier it has come to, or Nobody
  told,     \* the answer to the last one, or Nobody
  asks,
  known     \* the vintage an isolate remembers for each key, or Nobody

matching == <<ask, told, asks, known>>
matchVars == <<vars, matching>>

sought == ask.query

CityRank(k) == CHOOSE i \in DOMAIN sought.keys : sought.keys[i] = k
OfCity(r) == \E i \in DOMAIN sought.keys : r.key = sought.keys[i]
AtCivic(r) == CivicNo[r.addr] = sought.civic
OfUnit(r) == sought.unit # 0 => UnitNo[r.addr] = sought.unit

Apart(m, n) == IF m < n THEN n - m ELSE m - n

(* The rows of S that nothing goes before. *)
First(S, GoesBefore(_, _)) == {r \in S : \A s \in S : ~GoesBefore(s, r)}

(* Auxiliary: the addresses asked for, in the city that was named. *)
Named(query) ==
  {r.addr : r \in {s \in rows : /\ query.kind = "forward" /\ query.keys # <<>>
                                /\ s.key = Head(query.keys) /\ CivicNo[s.addr] = query.civic
                                /\ query.unit # 0 => UnitNo[s.addr] = query.unit}}

FirstTier(query) ==
  CASE query.kind = "forward" -> IF query.keys = <<>> THEN "postal street" ELSE "exact"
    [] query.kind = "postal"  -> "postal"
    [] query.kind = "reverse" -> "neighbour"

Asks(query) ==
  /\ ask = Nobody /\ asks < MaxAsks
  /\ asks' = asks + 1
  /\ ask' = [query |-> query, row |-> Nobody, method |-> "none",
             there |-> Named(query), crowded |-> FALSE, at |-> FirstTier(query)]
  /\ UNCHANGED <<vars, told, known>>

Tries(tier) == ask' = [ask EXCEPT !.at = tier] /\ UNCHANGED told

Finds(method, r) ==
  /\ ask' = [ask EXCEPT !.at = "source", !.row = r, !.method = method]
  /\ UNCHANGED told

(* forwardAddressRow: the unit is shown only where the caller gave one. *)
Answer(method, r, vintage) ==
  [method |-> method, row |-> r, vintage |-> vintage, query |-> sought, there |-> ask.there,
   crowded |-> ask.crowded,
   unit |-> IF r = Nobody \/ (sought.unit = 0 /\ sought.kind = "forward") THEN 0 ELSE UnitNo[r.addr]]

Tells(answer) == told' = answer /\ ask' = Nobody

NotTold(why) == Tells(Answer(why, Nobody, 0))

-----------------------------------------------------------------------------
(* The tiers *)

(* MUTANT of ExactBefore: the base address before its units, in any city. *)
BaseFirst(r, s) == UnitNo[r.addr] = 0 /\ UnitNo[s.addr] # 0

ExactBefore(r, s) ==
  \/ CityRank(r.key) < CityRank(s.key)
  \/ r.key = s.key /\ UnitNo[r.addr] = 0 /\ UnitNo[s.addr] # 0

(* findExactMatch: as many as are fetched, in no order; other cities answer *)
(* only where they agree.                                                   *)
Exact ==
  /\ ask.at = "exact"
  /\ LET matched == {r \in rows : OfCity(r) /\ AtCivic(r) /\ OfUnit(r)}
         size == Lesser(ExactLimit, Cardinality(matched))
         crowded == size < Cardinality(matched)
     IN IF matched = {} THEN Tries("street")
        ELSE \E fetched \in {S \in SUBSET matched : Cardinality(S) = size} :
             \E best \in First(fetched, ExactBefore) :
               IF best.key # Head(sought.keys) /\ Cardinality({r.key : r \in fetched}) > 1
               THEN Tells([Answer("ambiguous", Nobody, 0) EXCEPT !.crowded = crowded])
               ELSE /\ ask' = [ask EXCEPT !.at = "source", !.row = best, !.method = "exact",
                                          !.crowded = crowded]
                    /\ UNCHANGED told

CityBefore(r, s) == CityRank(r.key) < CityRank(s.key)

(* findStreetInterpolated: the civic on the street, under any of the names; *)
(* with a unit, that one or none.                                           *)
OnStreet ==
  /\ ask.at = "street"
  /\ LET matched == {r \in rows : OfCity(r) /\ AtCivic(r) /\ OfUnit(r)}
     IN IF matched # {}
        THEN \E r \in First(matched, CityBefore) : Finds("street_interpolated", r)
        ELSE Tries(IF sought.unit # 0 THEN "postal street" ELSE "nearest civic")

CivicBefore(r, s) ==
  \/ CityRank(r.key) < CityRank(s.key)
  \/ r.key = s.key /\ Apart(CivicNo[r.addr], sought.civic) < Apart(CivicNo[s.addr], sought.civic)

NearestCivic ==
  /\ ask.at = "nearest civic"
  /\ LET matched == {r \in rows : OfCity(r)}
     IN IF matched # {}
        THEN \E r \in First(matched, CivicBefore) : Finds("street_interpolated", r)
        ELSE Tries("range")

HasRange == \E i \in DOMAIN sought.keys : ranges[sought.keys[i]] > 0

(* findStreetRange: a point of the street, said to be in the city as named. *)
StreetRange ==
  /\ ask.at = "range"
  /\ IF HasRange
     THEN Finds("street_interpolated", Nobody)
     ELSE Tries("postal street")

BaseBefore(r, s) == UnitNo[r.addr] = 0 /\ UnitNo[s.addr] # 0

PostalStreetRows == {r \in rows : sought.postal # NoPostal /\ r.postal = sought.postal /\ AtCivic(r)}

(* findByPostalStreet: whatever the city, and whatever the unit. *)
PostalStreet ==
  /\ ask.at = "postal street"
  /\ IF PostalStreetRows # {}
     THEN \E r \in First(PostalStreetRows, BaseBefore) : Finds("postal_street", r)
     ELSE Tries(IF sought.postal = NoPostal THEN "city" ELSE "postal")

AfterPostal == IF sought.kind = "postal" THEN NotTold("not found") ELSE Tries("city")

Loaded(p) == postals[p] > 0

LoadedSiblings == {p \in Siblings[sought.postal] : Loaded(p)}

(* findPostalCentroid: the code itself.  A point far from the hint is no    *)
(* answer to a forward lookup.                                              *)
PostalCentroid ==
  /\ ask.at = "postal"
  /\ IF ~Loaded(sought.postal) THEN Tries("prefix")
     ELSE IF sought.kind = "forward" /\ sought.hint = "far" THEN AfterPostal
     ELSE Tells(Answer("postal_centroid", Nobody, 0))

(* Then the codes that share its prefix, unless they lie far apart. *)
PostalPrefix ==
  /\ ask.at = "prefix"
  /\ IF LoadedSiblings \in {{}} \cup Scattered \/ (sought.kind = "forward" /\ sought.hint = "far")
     THEN AfterPostal
     ELSE Tells(Answer("postal_prefix", Nobody, 0))

Centred == \E i \in DOMAIN sought.keys : centroids[sought.keys[i]] > 0

(* findCityCentroid: one that is found is not good enough; and where there  *)
(* is none, several cities may begin with the name.                         *)
CityCentroid ==
  /\ ask.at = "city"
  /\ \/ Tries("neighbour")
     \/ sought.keys # <<>> /\ ~Centred /\ NotTold("ambiguous")

(* Of a forward lookup, those of the city as named and of the code. *)
RowsAbout ==
  {r \in rows : sought.kind = "forward" =>
                  /\ sought.keys # <<>> => r.key = Head(sought.keys)
                  /\ sought.postal # NoPostal => r.postal = sought.postal}

(* findNearestNeighbor: any of the rows about the hint. *)
Neighbour ==
  /\ ask.at = "neighbour"
  /\ IF sought.hint = "none" \/ RowsAbout = {} THEN NotTold("not found")
     ELSE IF sought.hint = "far" THEN NotTold("far away")
     ELSE \E r \in RowsAbout : Finds("nearest_neighbor", r)

-----------------------------------------------------------------------------
(* Where the answer comes from *)

Stated(k) == IF known[k] # Nobody THEN known[k] ELSE keyVintage[k]

(* withCitySource, resolveNarVersion: a query that fails is taken for a city *)
(* that was not refreshed, and remembered as one.                           *)
StatesSource ==
  /\ ask # Nobody /\ ask.at = "source"
  /\ LET k == IF ask.row = Nobody THEN Head(sought.keys) ELSE ask.row.key
     IN \E v \in {Stated(k)} \cup (IF known[k] = Nobody THEN {0} ELSE {}) :
          /\ known' = [known EXCEPT ![k] = v]
          /\ Tells(Answer(ask.method, ask.row, v))
  /\ UNCHANGED <<vars, asks>>

ForgetsVintage(k) ==
  /\ known[k] # Nobody
  /\ known' = [known EXCEPT ![k] = Nobody]
  /\ UNCHANGED <<vars, ask, told, asks>>

Tier == /\ ask # Nobody
        /\ \/ Exact \/ OnStreet \/ NearestCivic \/ StreetRange \/ PostalStreet
           \/ PostalCentroid \/ PostalPrefix \/ CityCentroid \/ Neighbour
        /\ UNCHANGED <<vars, asks, known>>

MatchInit ==
  /\ ask = Nobody /\ told = Nobody /\ asks = 0
  /\ known = [k \in Keys |-> Nobody]

(* The refresh goes on meanwhile, and what it removes was not there all along.*)
Meanwhile ==
  /\ Next
  /\ ask' = IF ask = Nobody THEN Nobody
            ELSE [ask EXCEPT !.there = @ \cap {r.addr : r \in {s \in rows' :
                                 ask.query.keys # <<>> /\ s.key = Head(ask.query.keys)}}]
  /\ UNCHANGED <<told, asks, known>>

MatchNext ==
  \/ \E query \in Queries : Asks(query)
  \/ Tier
  \/ StatesSource
  \/ \E k \in Keys : ForgetsVintage(k)
  \/ Meanwhile

MatchSpec == Init /\ MatchInit /\ [][MatchNext]_matchVars

-----------------------------------------------------------------------------
(* Properties *)

(* "an address that genuinely exists in the named municipality must never be*)
(* resolved to a same-named street in a neighbouring one"                   *)
(* (oda-city-aliases.ts:84): when such an address was there throughout the  *)
(* lookup, such a one is answered - whatever else goes by its name, and     *)
(* whatever is refreshed meanwhile.  Excepted are lookups that more rows    *)
(* match than are fetched.                                                  *)
NamedCityAnswers ==
  told # Nobody /\ told.there # {} /\ ~told.crowded =>
    /\ told.method = "exact"
    /\ told.row.key = Head(told.query.keys)
    /\ CivicNo[told.row.addr] = told.query.civic
    /\ told.query.unit # 0 => UnitNo[told.row.addr] = told.query.unit

(* "the response never overstates how current its data is" (oda-source.ts): *)
(* no row is stamped with a later vintage than its own, while its city is   *)
(* refreshed, partly or wholly, and whatever the isolate remembers; unless  *)
(* the row itself was replaced between its tier and the stamp.              *)
NeverOverstated ==
  told # Nobody /\ told.row # Nobody /\ told.row \in rows => told.vintage <= told.row.vintage

(* An answer is the right row, said to be no younger than it is. *)
ToldTruly == NamedCityAnswers /\ NeverOverstated
=============================================================================
