--------------------------- MODULE MCAddressTable ---------------------------
(* The address tables of two cities, one of them filed under two spellings, *)
(* in the scenes the modules describe: the refresh of the cities, with      *)
(* faults; the import of the province between refreshes, with faults; and   *)
(* each kind of reader, during a refresh in which nothing fails; and apart  *)
(* from these the change of a province's partitions.                        *)
EXTENDS OdaImport, AddressPaging, AddressMatch, AddressSuggest, NarDelta, TLC

CONSTANTS c1, c2, k1, k1b, k2, a1, a2, a3, a4, a5, p1, p2, r1, r2, r3, r4, fsa1, fsa2

MCQueue == <<c1, c2>>
MCScope == [c \in {c1, c2} |-> IF c = c1 THEN {k1, k1b} ELSE {k2}]

At(a, k, p, l) == [addr |-> a, key |-> k, postal |-> p, located |-> l]

MCCsv == <<At(a1, k1b, p1, TRUE), At(a2, k1, p2, TRUE), At(a5, k2, p1, TRUE),
           At(a3, k1, p2, TRUE)>>
MCOda == {[id |-> i, addr |-> MCCsv[i].addr, key |-> MCCsv[i].key, postal |-> MCCsv[i].postal,
           vintage |-> 0] : i \in DOMAIN MCCsv}

(* The first release moves a1 to the city's own spelling, drops a2 and adds *)
(* an address; the second has one without a code, and one nobody located.   *)
MCRelease ==
  [v \in 1 .. LastVintage |-> [c \in {c1, c2} |->
     IF c = c2 THEN <<At(a5, k2, p1, TRUE)>>
     ELSE IF v = 1 THEN <<At(a3, k1, p2, TRUE), At(a1, k1, p1, TRUE), At(a4, k1, p2, TRUE)>>
     ELSE <<At(a1, k1, NoPostal, TRUE), At(a3, k1b, p2, FALSE), At(a4, k1, p1, TRUE)>>]]

(* Civics 2, 10, 10A and 12; units 2, 10 and 11 with their ranks as text. *)
MCCivic == (a1 :> <<10, 2>>) @@ (a2 :> <<10, 3>>) @@ (a3 :> <<2, 1>>) @@ (a4 :> <<12, 4>>)
MCUnit == (a1 :> <<2, 3>>) @@ (a2 :> <<10, 1>>) @@ (a3 :> <<11, 2>>)

(* To a lookup, a1, a2 and a4 are at civic 10, a2 in a unit; a5 is there as *)
(* well, in the other city.                                                 *)
MCCivicNo == (a1 :> 10) @@ (a2 :> 10) @@ (a3 :> 2) @@ (a4 :> 10) @@ (a5 :> 10)
MCUnitNo == (a1 :> 0) @@ (a2 :> 3) @@ (a3 :> 0) @@ (a4 :> 4) @@ (a5 :> 0)

Asked(kind, keys, civic, unit, postal, hint) ==
  [kind |-> kind, keys |-> keys, civic |-> civic, unit |-> unit, postal |-> postal, hint |-> hint]
MCQueries ==
  {Asked("forward", <<k1, k1b, k2>>, 10, 0, NoPostal, "none"),
   Asked("forward", <<k2, k1>>, 10, 4, p2, "near"),
   Asked("forward", <<k1b>>, 2, 0, p1, "far"),
   Asked("forward", <<>>, 10, 0, p2, "none"),
   Asked("postal", <<>>, 0, 0, p2, "none"),
   Asked("reverse", <<>>, 0, 0, NoPostal, "near")}

(* In the autocomplete a1 and a2 are one civic, and of units 0 and 3; so    *)
(* that the city has a civic of one unit, and of two, and one of none.      *)
MCTypings == {[keys |-> {k1, k2}, civic |-> 10, unit |-> 0],
               [keys |-> {k1, k1b}, civic |-> 10, unit |-> 4],
               [keys |-> {k1}, civic |-> 2, unit |-> 5]}
MCSiblings == (p1 :> {p2}) @@ (p2 :> {p1})

(* Rows in two partitions of two cities, the second of them complete: in    *)
(* the releases one leaves its partition, some are gone or new, and one is  *)
(* in the other city.                                                       *)
MCPartOf == (r1 :> fsa1) @@ (r2 :> fsa1) @@ (r3 :> fsa2) @@ (r4 :> fsa2)
MCGroupsOf == (r1 :> {k1, p1}) @@ (r2 :> {k1, p2}) @@ (r3 :> {k1}) @@ (r4 :> {k2})
InRows(first, second, third) == (a1 :> first) @@ (a2 :> second) @@ (a3 :> third)
MCBaseline == InRows(r1, r2, Gone)
MCReleases == {InRows(r1, r2, r3), InRows(r3, r2, Gone), InRows(Gone, r1, r3),
               InRows(r3, Gone, r1), InRows(r1, r2, r4)}

-----------------------------------------------------------------------------

Readers == {"area", "civics", "units"}

tableVars == <<odaVars, mode, pageState, matching, suggesting, deltaVars>>

MCInit == OdaInit /\ PagingInit /\ MatchInit /\ SuggestInit /\ DeltaInit

OneRelease == manual' = 0 /\ release' = 1
Undisturbed == OneRelease /\ failures' = 0

others == <<loading, mode, pageState, matching, suggesting, deltaVars>>

MCNext ==
  \/ mode = "import" /\ Next /\ UNCHANGED others
  \/ mode = "province" /\ OdaNext /\ OneRelease /\ UNCHANGED <<mode, pageState, matching, suggesting, deltaVars>>
  \/ mode \in Readers /\ PagingNext /\ Undisturbed /\ UNCHANGED <<loading, matching, suggesting, deltaVars>>
  \/ mode = "lookup" /\ MatchNext /\ Undisturbed /\ UNCHANGED <<loading, mode, pageState, suggesting, deltaVars>>
  \/ mode = "suggest" /\ SuggestNext /\ Undisturbed /\ UNCHANGED <<loading, mode, pageState, matching, deltaVars>>
  \/ mode = "delta" /\ DeltaNext /\ UNCHANGED <<odaVars, mode, pageState, matching, suggesting>>

Alone(step) == mode = "import" /\ step /\ UNCHANGED others

MCSpec == /\ MCInit /\ [][MCNext]_tableVars
          /\ WF_tableVars(Alone(DailyRun)) /\ WF_tableVars(Alone(Work))

-----------------------------------------------------------------------------
(* NarImport's progress in these scenes. *)

(* RotationCompletes where nothing but failures gets in its way. *)
RotationGetsRound ==
  \A v \in Vintages : (mode = "import" /\ release = v) ~>
                      (release # v \/ \A c \in Cities : v \in ledger[c])
=============================================================================
