--------------------------- MODULE AddressPaging ---------------------------
(* Readers that go through the address table page by page while NarImport   *)
(* changes it: the records of an accepted area offer (area-query.ts,        *)
(* offers.ts), and the civics of a street or the units of a building in the *)
(* autocomplete (oda-suggest.ts).  Nothing is kept on the server between    *)
(* pages.  Where a reader stands, and for an offer what is left of its      *)
(* allowance, travels in a cursor the reader may present at any time and    *)
(* more than once, until the offer expires.                                 *)
(*                                                                          *)
(* Positions are numbers.  A civic or a unit is its value as an integer and *)
(* its rank as text.  Not here: the shape of the boundary, which is the set *)
(* of addresses inside it, prefixes typed inside a container, and signatures*)
(* (a cursor that was not minted is not presented).                         *)
EXTENDS NarImport

CONSTANTS
  Modes,           \* what is listed: "area", "civics" or "units"
  InBox, Inside,   \* the addresses in the bounding box and inside the boundary
  Allowances,      \* maximumResults of the offers quoted
  PageMax,         \* AREA_PAGE_MAX
  ScanBudget,      \* AREA_SCAN_BUDGET
  Container,       \* the city_key of the street and of the building
  Civic, Unit,     \* of the addresses on the street and in the building: <<number, rank>>
  ListLimit,       \* the page size of the autocomplete
  None             \* no page or no chain

ASSUME PagingConstants ==
  /\ Inside \subseteq InBox /\ InBox \subseteq Addresses
  /\ PageMax \in Nat \ {0} /\ ScanBudget \in Nat \ {0} /\ ListLimit \in Nat \ {0}
  /\ Allowances \subseteq Nat \ {0}

(* Ranks count from 1, so that nothing is at or before <<0, 0>>.            *)
ASSUME CivicsAreRanked == \A a \in DOMAIN Civic : Civic[a] \in Nat \X (Nat \ {0})

VARIABLES
  mode,
  cursors,   \* the cursors minted, each with its chain: see Chain
  page,      \* the page being read, or None
  ended      \* the chain that ended last, or None

pageState == <<cursors, page, ended>>
pagingVars == <<vars, mode, pageState>>

Before(p, q) == p[1] < q[1] \/ (p[1] = q[1] /\ p[2] < q[2])

(* Where in the list an item is: what a cursor names, and what tells one    *)
(* item from another.                                                       *)
Position(r) == IF mode = "civics" THEN Civic[r.addr] ELSE r.id
Precedes(x, y) == IF mode = "area" THEN x < y ELSE Before(x, y)

(* ORDER BY: the positions of S, each after those that precede it.          *)
InOrder(S) ==
  [i \in 1 .. Cardinality(S) |->
     CHOOSE x \in S : Cardinality({y \in S : Precedes(y, x)}) = i - 1]

Candidates ==
  CASE mode = "area" -> {r \in rows : r.addr \in InBox}
    [] mode = "civics" -> {r \in rows : r.key = Container /\ r.addr \in DOMAIN Civic}
    [] mode = "units" -> {r \in rows : r.key = Container /\ r.addr \in DOMAIN Unit}

Listable(r) == mode = "area" => r.addr \in Inside
Present == {Position(r) : r \in {q \in Candidates : Listable(q)}}

(* A cursor and the history of the pages up to it: what was delivered, and  *)
(* (auxiliary) what has been there ever since the first of them and the     *)
(* allowance paid for.                                                      *)
Chain(after, remaining, got, stable, paid) ==
  [after |-> after, remaining |-> remaining, got |-> got, stable |-> stable, paid |-> paid]

(* The end of a chain: its last page names no next one.                     *)
Ends(chain, got, truncated) ==
  /\ ended' = [got |-> got, stable |-> chain.stable, paid |-> chain.paid, truncated |-> truncated]
  /\ UNCHANGED cursors

Mints(chain) == cursors' = cursors \cup {chain} /\ UNCHANGED ended

-----------------------------------------------------------------------------
(* Area pages: readAreaPage *)

PageSize(remaining) == Lesser(PageMax, remaining)

OpensPage(chain) ==
  /\ page = None
  /\ page' = [chain |-> chain, size |-> PageSize(chain.remaining), records |-> <<>>,
              scanned |-> 0, last |-> chain.after]
  /\ UNCHANGED <<vars, mode, cursors, ended>>

(* deliverAreaOffer: the first page, once the offer is paid for. *)
FirstPage ==
  /\ mode = "area" /\ cursors = {} /\ ended = None
  /\ \E allowance \in Allowances : OpensPage(Chain(0, allowance, <<>>, Present, allowance))

(* handleAreaRequest: any cursor minted, as often as it is presented. *)
LaterPage == mode = "area" /\ \E chain \in cursors : OpensPage(chain)

(* listAddressesInRiding: one row more than asked for, by id. *)
Batch(after, want) ==
  LET ahead == InOrder({r.id : r \in {q \in Candidates : q.id > after}})
  IN SubSeq(ahead, 1, Lesser(want + 1, Len(ahead)))

(* Of the first n rows of a batch, those inside the boundary. *)
InsideOf(batch, n) == InOrder({batch[i] : i \in 1 .. n} \cap Present)

(* MUTANT of Exhausted: a batch that is wholly consumed is the last. *)
WholeBatch(batch, want, whole) == batch = <<>> \/ whole

Exhausted(batch, want, whole) == batch = <<>> \/ (whole /\ Len(batch) < want + 1)

(* The batch is consumed up to the scan budget or to a full page; the page  *)
(* ends with either, or with the last row of the box.  What is left of the  *)
(* allowance is less by the records returned, not by the page's size.       *)
FetchBatch ==
  /\ page # None
  /\ LET want == page.size - Len(page.records)
         batch == Batch(page.last, want)
         fills == {n \in DOMAIN batch : Len(InsideOf(batch, n)) >= want}
         stops == {Len(batch), ScanBudget - page.scanned} \cup fills
         n == CHOOSE m \in stops : \A k \in stops : m <= k
         records == page.records \o InsideOf(batch, n)
         scanned == page.scanned + n
         last == IF n = 0 THEN page.last ELSE batch[n]
         exhausted == Exhausted(batch, want, n = Len(batch) /\ n \notin fills)
         left == page.chain.remaining - Len(records)
         got == page.chain.got \o records
     IN IF Len(records) < page.size /\ scanned < ScanBudget /\ ~exhausted
        THEN /\ page' = [page EXCEPT !.records = records, !.scanned = scanned, !.last = last]
             /\ UNCHANGED <<cursors, ended>>
        ELSE /\ page' = None
             /\ IF ~exhausted /\ left > 0
                THEN Mints(Chain(last, left, got, page.chain.stable, page.chain.paid))
                ELSE Ends(page.chain, got, ~exhausted)
  /\ UNCHANGED <<vars, mode>>

(* verifyAreaPageCursor: the cursors expire with their offer. *)
OfferExpires ==
  /\ mode = "area" /\ cursors # {}
  /\ cursors' = {}
  /\ UNCHANGED <<vars, mode, page, ended>>

-----------------------------------------------------------------------------
(* Pages of the autocomplete: one query each *)

(* listCivicsInStreet: grouped by civic, in the order the cursor compares by.*)
CivicPage(after) == InOrder({c \in Present : Before(after, c)})

(* listUnitsInBuilding: ordered by number, but resumed after the unit as    *)
(* text.  Rows of the same unit are in no particular order.                 *)
UnitPage(after) ==
  LET new == {r \in Candidates : after[2] < Unit[r.addr][2]}
  IN SetToSortSeq(new, LAMBDA r, s : \/ Before(Unit[r.addr], Unit[s.addr])
                                     \/ Unit[r.addr] = Unit[s.addr] /\ r.id < s.id)

ReadsList(chain) ==
  LET all == IF mode = "civics" THEN CivicPage(chain.after) ELSE UnitPage(chain.after)
      n == Lesser(ListLimit, Len(all))
      got == chain.got \o [i \in 1 .. n |-> IF mode = "civics" THEN all[i] ELSE all[i].id]
  IN /\ IF Len(all) > ListLimit
        THEN Mints(Chain(IF mode = "civics" THEN all[n] ELSE Unit[all[n].addr],
                         0, got, chain.stable, 0))
        ELSE Ends(chain, got, FALSE)
     /\ UNCHANGED <<vars, mode, page>>

FirstList ==
  /\ mode \in {"civics", "units"} /\ cursors = {} /\ ended = None
  /\ ReadsList(Chain(<<0, 0>>, 0, <<>>, Present, 0))

NextList == mode \in {"civics", "units"} /\ \E chain \in cursors : ReadsList(chain)

-----------------------------------------------------------------------------

(* The import goes on meanwhile, and what it removes was not there all along.*)
Imports ==
  LET now(chain) == [chain EXCEPT !.stable = @ \cap Present']
  IN /\ Next /\ UNCHANGED <<mode, ended>>
     /\ cursors' = {now(chain) : chain \in cursors}
     /\ page' = IF page = None THEN None ELSE [page EXCEPT !.chain = now(@)]

PagingInit ==
  /\ Init
  /\ mode \in Modes
  /\ cursors = {} /\ page = None /\ ended = None

PagingNext ==
  \/ FirstPage \/ LaterPage \/ FetchBatch \/ OfferExpires
  \/ FirstList \/ NextList
  \/ Imports

PagingSpec == PagingInit /\ [][PagingNext]_pagingVars

-----------------------------------------------------------------------------
(* Properties *)

Chains == cursors \cup (IF page = None THEN {} ELSE {page.chain})
                  \cup (IF ended = None THEN {} ELSE {ended})

(* "Never over-deliver past the paid ceiling" (area-query-contract.md:129): *)
(* along any chain of pages, short ones and repeated ones included, what is *)
(* delivered is within the allowance paid for, a cursor holds exactly what  *)
(* is left of it, and no page reads past its budget.                        *)
WithinAllowance ==
  mode = "area" =>
    /\ \A chain \in cursors :
         /\ Len(chain.got) + chain.remaining = chain.paid
         /\ chain.remaining > 0
    /\ page # None => /\ Len(page.chain.got) + Len(page.records) <= page.chain.paid
                      /\ page.scanned < ScanBudget
    /\ ended # None => Len(ended.got) <= ended.paid

TimesGot(chain, place) == Cardinality({i \in DOMAIN chain.got : chain.got[i] = place})

(* "rows cannot be skipped or repeated if the table shifts between pages"   *)
(* (oda-suggest.ts:131), for area pages and civics - units are sorted as    *)
(* numbers and resumed as text, and are skipped: a chain never delivers     *)
(* a row or a civic twice, and one that ends short of its allowance has     *)
(* delivered all that was there from its first page to its last.            *)
StableListedOnce ==
  mode \in {"area", "civics"} =>
    /\ \A chain \in Chains : \A i \in DOMAIN chain.got :
         TimesGot(chain, chain.got[i]) = 1
    /\ ended # None /\ ~ended.truncated =>
         \A place \in ended.stable : TimesGot(ended, place) = 1

(* What a chain of pages delivers is what was paid for, and all of it once. *)
PagesAddUp == WithinAllowance /\ StableListedOnce
=============================================================================
