--------------------------- MODULE AddressSuggest ---------------------------
(* A search of the autocomplete (src/oda-suggest.ts, with the queries of    *)
(* src/address-store.ts and the cache of /api/search): the streets that     *)
(* match the text are read from the index, ranked and cut; where a civic    *)
(* was typed, the first of them are looked into, a query or two each, while *)
(* NarImport changes the table below.  What comes of a street is the street *)
(* to search in, the address, the building to search in, or the civic as a  *)
(* point somewhere on the street.                                           *)
(*                                                                          *)
(* Streets have one name, so that a street is a city_key.  Ranks, the       *)
(* order of what is found, and the civics an index row says its street has  *)
(* (it is of an earlier build) are any.  Pages inside a street or building  *)
(* are AddressPaging's.                                                     *)
EXTENDS NarImport

CONSTANTS
  Typings,        \* [keys, civic, unit]: the streets a text matches, 0 for what it lacks
  CivicOf, UnitOf, \* of each address; the unit is 0 without one
  SuggestLimit,    \* ODA_SUGGEST_LIMIT
  LeafLookups,     \* MAX_LEAF_LOOKUPS
  MaxSearches,     \* bound: searches that read the tables
  Missing

ASSUME SuggestConstants ==
  /\ Typings \subseteq [keys : SUBSET Keys, civic : Nat, unit : Nat]
  /\ \A q \in Typings : IsFiniteSet(q.keys)
  /\ SuggestLimit > 0

VARIABLES
  search,    \* the search under way, or Missing; with it (auxiliary) the rows that were there
             \* all the time it took, and those that ever were
  offered,   \* the answer to the last one, or Missing
  cached,    \* the answers of LOOKUP_CACHE by their search, or Missing
  searches

suggesting == <<search, offered, cached, searches>>
suggestVars == <<vars, suggesting>>

asked == search.query

(* What is offered of a street, with the row it was made from. *)
Street(k) == [kind |-> "street", key |-> k, row |-> Missing, looked |-> FALSE]
Leaf(k, r) == [kind |-> "leaf", key |-> k, row |-> r, looked |-> TRUE]
Building(k, r) == [kind |-> "building", key |-> k, row |-> r, looked |-> TRUE]
Ranged(k) == [kind |-> "ranged", key |-> k, row |-> Missing, looked |-> TRUE]

-----------------------------------------------------------------------------
(* The handler and its cache: an entry is kept an hour, where it is kept.   *)

Begins(q) ==
  /\ search = Missing
  /\ \/ /\ cached[q] # Missing
        /\ offered' = cached[q]
        /\ UNCHANGED <<search, searches>>
     \/ /\ cached[q] = Missing
        /\ searches < MaxSearches /\ searches' = searches + 1
        /\ search' = [query |-> q, at |-> "index", rest |-> <<>>, lookups |-> 0, out |-> <<>>,
                      base |-> Missing, units |-> 0, always |-> rows, ever |-> rows]
        /\ UNCHANGED offered
  /\ UNCHANGED <<vars, cached>>

Offers(list) ==
  LET answer == [query |-> asked, list |-> list, always |-> search.always, ever |-> search.ever]
  IN /\ offered' = answer
     /\ search' = Missing
     /\ cached' \in {cached, [cached EXCEPT ![asked] = answer]}

Expires(q) ==
  /\ cached[q] # Missing
  /\ cached' = [cached EXCEPT ![q] = Missing]
  /\ UNCHANGED <<vars, search, offered, searches>>

-----------------------------------------------------------------------------
(* searchSuggestions *)

(* searchStreetSuggest, scoreRows: which of them are left, and their order. *)
Top(found) ==
  LET n == Lesser(SuggestLimit, Cardinality(found))
  IN UNION {SetToSeqs(S) : S \in {T \in SUBSET found : Cardinality(T) = n}}

QueryContainers ==
  /\ search # Missing /\ search.at = "index"
  /\ \E top \in Top({k \in asked.keys : suggest[k] > 0}) :
       IF top = <<>> \/ asked.civic = 0
       THEN Offers([i \in DOMAIN top |-> Street(top[i])])
       ELSE /\ search' = [search EXCEPT !.at = "street", !.rest = top]
            /\ UNCHANGED <<offered, cached>>
  /\ UNCHANGED <<vars, searches>>

(* The street comes to its suggestion, and the next one follows. *)
Puts(suggestion, lookups) ==
  IF Tail(search.rest) = <<>>
  THEN Offers(Append(search.out, suggestion))
  ELSE /\ search' = [search EXCEPT !.at = "street", !.rest = Tail(@), !.lookups = lookups,
                                   !.out = Append(@, suggestion), !.base = Missing]
       /\ UNCHANGED <<offered, cached>>

(* A civic outside the street, or one lookup too many. *)
TakesStreet ==
  /\ search # Missing /\ search.at = "street"
  /\ Puts(Street(Head(search.rest)), search.lookups)
  /\ UNCHANGED <<vars, searches>>

AtCivicOf(k) == {r \in rows : r.key = k /\ CivicOf[r.addr] = asked.civic}

(* MUTANT of UnitTotal: COUNT of the rows. *)
RowTotal(S) == Cardinality(S)

UnitTotal(S) == Cardinality({UnitOf[r.addr] : r \in S} \ {0})

(* findAddressAtCivic: a row without a unit first, then by unit. *)
FirstOf(S) == {r \in S : \A s \in S : UnitOf[r.addr] <= UnitOf[s.addr]}

LooksAtCivic ==
  /\ search # Missing /\ search.at = "street"
  /\ search.lookups < LeafLookups
  /\ LET k == Head(search.rest)
         there == AtCivicOf(k)
     IN IF there = {} THEN Puts(Ranged(k), search.lookups + 1)
        ELSE \E r \in FirstOf(there) :
               IF asked.unit # 0
               THEN /\ search' = [search EXCEPT !.at = "unit", !.lookups = @ + 1, !.base = r,
                                                !.units = UnitTotal(there)]
                    /\ UNCHANGED <<offered, cached>>
               ELSE Puts(IF UnitTotal(there) > 1 THEN Building(k, r) ELSE Leaf(k, r),
                         search.lookups + 1)
  /\ UNCHANGED <<vars, searches>>

(* The unit that was typed; or the building, to find the right one in; or   *)
(* the one row there is.                                                    *)
LooksForUnit ==
  /\ search # Missing /\ search.at = "unit"
  /\ LET k == Head(search.rest)
         exact == {r \in AtCivicOf(k) : UnitOf[r.addr] = asked.unit}
     IN IF exact # {}
        THEN \E r \in exact : Puts(Leaf(k, r), search.lookups)
        ELSE Puts(IF search.units > 1 THEN Building(k, search.base) ELSE Leaf(k, search.base),
                  search.lookups)
  /\ UNCHANGED <<vars, searches>>

(* A query fails, as all do before the index is built: no answer. *)
SearchBreaks ==
  /\ search # Missing
  /\ search' = Missing /\ offered' = Missing
  /\ UNCHANGED <<vars, cached, searches>>

(* The refresh goes on meanwhile. *)
RefreshGoesOn ==
  /\ Next
  /\ search' = IF search = Missing THEN Missing
               ELSE [search EXCEPT !.always = @ \cap rows', !.ever = @ \cup rows']
  /\ UNCHANGED <<offered, cached, searches>>

SuggestInit ==
  /\ search = Missing /\ offered = Missing /\ searches = 0
  /\ cached = [q \in Typings |-> Missing]

SuggestNext ==
  \/ \E q \in Typings : Begins(q) \/ Expires(q)
  \/ QueryContainers \/ TakesStreet \/ LooksAtCivic \/ LooksForUnit \/ SearchBreaks
  \/ RefreshGoesOn

SuggestSpec == Init /\ SuggestInit /\ [][SuggestNext]_suggestVars

-----------------------------------------------------------------------------
(* Properties *)

(* "returning the bare civic here would drop the unit they just typed", and *)
(* "we never invent one" (oda-suggest.ts): of a street that is looked into, *)
(* the address typed is offered whenever it was there all along, with its   *)
(* unit; a building for a civic of several units, never one of them; no     *)
(* building where there never were two; and a point for a civic only where  *)
(* it had no row.  This holds through refreshes between the queries, and of *)
(* cached answers as of the time they were made.  A unit that is not there  *)
(* is given up, for the one there is, only where there is one at most.      *)
OfferedAsTyped ==
  offered # Missing =>
    \A i \in DOMAIN offered.list :
      LET s == offered.list[i]  q == offered.query
          at(S) == {r \in S : r.key = s.key /\ CivicOf[r.addr] = q.civic}
          typed(S) == {r \in at(S) : UnitOf[r.addr] = q.unit}
          unitsIn(S) == {UnitOf[r.addr] : r \in at(S)} \ {0}
      IN /\ \A j \in DOMAIN offered.list : offered.list[j].key = s.key => j = i
         /\ s.looked =>
              /\ q.unit # 0 /\ typed(offered.always) # {} => s.kind = "leaf" /\ s.row \in typed(offered.ever)
              /\ s.kind = "leaf" => s.row \in at(offered.ever)
              /\ Cardinality(unitsIn(offered.always)) > 1 /\ s.kind = "leaf" =>
                   q.unit # 0 /\ UnitOf[s.row.addr] = q.unit
              /\ Cardinality(unitsIn(offered.ever)) <= 1 => s.kind # "building"
              /\ at(offered.always) # {} => s.kind # "ranged"
=============================================================================
