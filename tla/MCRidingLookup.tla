-------------------------- MODULE MCRidingLookup --------------------------
(* An instance of RidingLookup for TLC: two federal ridings in one province,*)
(* and two points, p2 and p3, that round to one.                            *)
EXTENDS RidingLookup, TLC

MCFile ==
  [fed |-> << <<"f1", "f2">>, <<"f3">> >>, on |-> << <<"o1">>, <<"o1", "o2">> >>]

(* The second federal version gives all points to one riding; the province  *)
(* has no riding at p2 before its second, whose riding there is stored with *)
(* a polygon that takes in p3, of the riding next to it.                    *)
MCLand ==
  [f1 |-> {"p1", "p3"}, f2 |-> {"p2"}, f3 |-> {"p1", "p2", "p3"},
   o1 |-> {"p1", "p3"}, o2 |-> {"p2"}, simple |-> {"p2", "p3"}]
MCBox == MCLand
MCStored == [f1 |-> "f1", f2 |-> "f2", f3 |-> "f3", o1 |-> "o1", o2 |-> "simple"]
MCRounded == [p1 |-> "c1", p2 |-> "c2", p3 |-> "c2"]
MCBrief == [k0k |-> "k0k", a1 |-> "a1", a2 |-> "a2"]
MCProvinceOf == [f1 |-> "on", f2 |-> "on", f3 |-> "on"]

Ask(path, at, postal, address, province) ==
  [path |-> path, at |-> at, postal |-> postal, address |-> address, province |-> province]

(* An address with its province, and the riding of a point of that province.*)
MCQuery == [l1 |-> Ask("fed", None, None, "a1", TRUE), l2 |-> Ask("on", "p3", None, None, FALSE)]

(* Two addresses of one postal code.                                        *)
SamePostal ==
  [l1 |-> Ask("fed", None, "k0k", "a1", FALSE), l2 |-> Ask("fed", None, "k0k", "a2", FALSE)]

MCBatches == << {<<"coordinate", "p2">>}, {<<"postal", "k0k">>} >>
MCTargets == <<"on">>

MCLocated == (<<"k0k", None>> :> "p1") @@ (<<None, "a1">> :> "p2") @@ (<<"k0k", "a1">> :> "p1") @@ (<<"k0k", "a2">> :> "p2")
=============================================================================
