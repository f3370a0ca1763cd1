---------------------------- MODULE MCGeocode ----------------------------
(* An instance of Geocode for TLC. *)
EXTENDS Geocode, TLC

CONSTANTS r1, r2

(* Two callers who share what is cached though they spell it differently,   *)
(* two who share only the circuits, and, without the local database, two    *)
(* who want the address of one point.                                       *)
Same(q) == [r \in {r1, r2} |-> q]
With(p, q) == (r1 :> p) @@ (r2 :> q)
Pairs ==
  [usesOda : {TRUE}, asks : {With("street in a city", "STREET in a city"), With("centroid", "street")}]
  \cup {[usesOda |-> FALSE, asks |-> Same("point")]}

LowerCase == [q \in Queries |-> IF q = "STREET in a city" THEN "street in a city" ELSE q]

GoogleThenNominatim == <<"google", "nominatim">>
=============================================================================
