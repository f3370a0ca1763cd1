------------------------------- MODULE Quotes -------------------------------
(* Offers of a lookup or an area: what is quoted, asked for, paid and       *)
(* delivered (offers.ts, x402.ts, area-request.ts, area-geometry.ts,        *)
(* datasets.ts).  Nothing is stored: an offer and a page cursor are signed  *)
(* tokens their holder presents at any time, as often as it likes, while    *)
(* the boundary files, the provinces with addresses, the datasets of the    *)
(* build and the time change between quote, payment and delivery.           *)
(*                                                                          *)
(* A payment is made for what the 402 asked, and settles; how settling      *)
(* fails is X402Accept's, and how a page is cut is AddressPaging's: here a  *)
(* page has the rows that are left, as far as it reaches.  Records are      *)
(* counted in halves of what maximum_results may be asked as.  Not here:    *)
(* the answer of a lookup, which is RidingLookup's, names, signatures and   *)
(* the checks of a shape that is no boundary.                               *)
EXTENDS Integers, Sequences, FiniteSets

CONSTANTS
  Ridings,
  Shapes,          \* boundaries, of ridings and of callers
  Provinces,
  FileOf,          \* what a riding's file may say: a shape and a province
  Rows,            \* how many addresses a shape has in a province
  AskedHalves,     \* maximum_results in halves; 0 stands for none or nonsense
  Datasets,        \* what a quote may name; each is a path, /api/<dataset>
  Federal,         \* one of them, with a file of its own
  FederalFile, FirstRegistry, NextFiles,
  PointPrice,      \* UPLOAD_ROW_PRICE_USD
  Unit, UnitPrice, \* AREA_UNIT_RECORDS, AREA_UNIT_PRICE_USD
  MaxResults,      \* AREA_MAX_RESULTS
  ReadMax,         \* AREA_PAGE_MAX
  OfferTTL,        \* OFFER_TTL_MS, in ticks
  MaxTicks, MaxQuotes, MaxPaid, MaxChanges,
  Absent           \* no riding of that name, no riding

ASSUME QuoteConstants ==
  /\ Rows \in [Shapes \X Provinces -> Nat]
  /\ AskedHalves \subseteq Nat
  /\ Unit \in Nat \ {0} /\ UnitPrice \in Nat \ {0} /\ ReadMax \in Nat \ {0}
  /\ PointPrice \in Nat /\ MaxResults \in Nat /\ MaxResults >= Unit /\ OfferTTL \in Nat \ {0}
  /\ FileOf \subseteq [shape : Shapes, province : Provinces] \cup {Absent}
  /\ Federal \in Datasets /\ DOMAIN FirstRegistry \subseteq Datasets \ {Federal}
  /\ FederalFile \notin NextFiles
  /\ Absent \notin Ridings /\ Absent # FederalFile /\ Absent \notin NextFiles
  /\ FirstRegistry = [d \in DOMAIN FirstRegistry |-> FirstRegistry[d]]
  /\ \A d \in DOMAIN FirstRegistry : FirstRegistry[d] # Absent

VARIABLES
  file,      \* what the riding's file says: [shape, province], or Absent
  covered,   \* the provinces with addresses
  registry,  \* PROVINCIAL_DATASETS of the build: the file of each dataset
  clock,
  offers,    \* the offers quoted, each with its number
  accepting, \* the accepts between settlement and delivery: [offer, boundary]
  cursors,   \* the cursors minted
  pages,     \* auxiliary: what was delivered
  paid,      \* auxiliary: the payments settled, in order
  owed,      \* auxiliary: the offers charged and not delivered, and why
  changed,   \* auxiliary: the offers since whose quote file or coverage changed
  changes

quoteVars ==
  <<file, covered, registry, clock, offers, accepting, cursors, pages, paid, owed,
    changed, changes>>
world == <<file, covered, registry, clock, changed, changes>>

Least(m, n) == IF m < n THEN m ELSE n
Greatest(m, n) == IF m > n THEN m ELSE n

-----------------------------------------------------------------------------
(* Quoting *)

(* Math.trunc of a positive number, or one unit. *)
Maximum(halves) == IF halves = 0 THEN Unit ELSE halves \div 2

(* areaPriceUsd: whole units, rounded up. *)
Price(maximum) == ((maximum + Unit - 1) \div Unit) * UnitPrice

(* datasetMetaForPath, and back, getRouteForR2Key: combined is federal, and *)
(* so is a file that is not registered.                                     *)
FileOfDataset(d) == IF d \in DOMAIN registry THEN registry[d] ELSE FederalFile

RouteOf(f) ==
  IF \E d \in DOMAIN registry : registry[d] = f
  THEN CHOOSE d \in DOMAIN registry : registry[d] = f ELSE Federal

(* An offer is what it says, signed; so is the cursor of an accepted one,   *)
(* with what may still be delivered under it.                               *)
SignedOffer(scope, maximum, price) ==
  [id |-> Cardinality(offers) + 1, scope |-> scope, maximum |-> maximum, price |-> price,
   expires |-> clock + OfferTTL]
SignedCursor(offer, scope, after, remaining) ==
  [offer |-> offer, scope |-> scope, after |-> after, remaining |-> remaining,
   expires |-> offer.expires]

(* createOffer, createAreaOffer, createPolygonAreaOffer *)
Issues(scope, maximum, price) ==
  /\ Cardinality(offers) < MaxQuotes
  /\ offers' = offers \cup {SignedOffer(scope, maximum, price)}
  /\ UNCHANGED <<world, accepting, cursors, pages, paid, owed>>

IssuesArea(scope, halves) ==
  Maximum(halves) <= MaxResults /\ Issues(scope, Maximum(halves), Price(Maximum(halves)))

OfPoint(f) == [riding |-> Absent, shape |-> Absent, province |-> Absent, dataset |-> f]
OfRiding(r) ==
  [riding |-> r, shape |-> Absent, province |-> Absent, dataset |-> FederalFile]
OfShape(s, p) == [riding |-> Absent, shape |-> s, province |-> p, dataset |-> Absent]
IsPoint(scope) == scope.riding = Absent /\ scope.dataset # Absent
Named(scope) == scope.riding # Absent

(* handleQuoteRequest *)
QuotesPoint(d) == Issues(OfPoint(FileOfDataset(d)), 1, PointPrice)

(* resolveRiding, and whether addresses were imported where it is. *)
Resolves(r) == file[r] # Absent /\ file[r].province \in covered

(* handleAreaQuote *)
QuotesRiding(r) ==
  Resolves(r) /\ \E halves \in AskedHalves : IssuesArea(OfRiding(r), halves)

(* handlePolygonAreaQuote *)
QuotesShape(s, p) ==
  p \in covered /\ \E halves \in AskedHalves : IssuesArea(OfShape(s, p), halves)

-----------------------------------------------------------------------------
(* Accepting *)

Valid(token) == clock < token.expires

(* A shape is sent again and must hash to what was quoted; with a riding or *)
(* a point nothing is sent.                                                 *)
SameBoundary(scope, boundary) == boundary = scope.shape

(* MUTANT of Payable: the boundary is checked when the offer is delivered.  *)
PayableUnchecked(offer, boundary) == Valid(offer)

(* handleAcceptRequest, what it checks before it asks for a payment. *)
Payable(offer, boundary) == Valid(offer) /\ SameBoundary(offer.scope, boundary)

(* buildPaymentRequired asks for the price that was quoted, and a payment   *)
(* for it settles.                                                          *)
Pays(offer, boundary) ==
  /\ Payable(offer, boundary)
  /\ Len(paid) < MaxPaid
  /\ paid' = Append(paid, [offer |-> offer, amount |-> offer.price])
  /\ accepting' = accepting \cup {[offer |-> offer, boundary |-> boundary]}
  /\ UNCHANGED <<world, offers, cursors, pages, owed>>

(* The place a scope names when it is delivered: of a point, the file its   *)
(* route reads.                                                             *)
PlaceOf(scope, boundary) ==
  IF Named(scope) THEN file[scope.riding]
  ELSE IF IsPoint(scope)
  THEN [shape |-> FileOfDataset(RouteOf(scope.dataset)), province |-> Absent]
  ELSE [shape |-> boundary, province |-> scope.province]

Deliverable(scope, boundary) ==
  /\ SameBoundary(scope, boundary)
  /\ IF Named(scope) THEN Resolves(scope.riding) ELSE scope.province \in covered

(* clampPageSize *)
Size(allowance) == Least(Greatest(Least(ReadMax, allowance), 1), ReadMax)

(* A page after a row, under an allowance: its records, and the cursor for  *)
(* the next one unless the rows or the allowance are at their end.          *)
Delivers(offer, scope, boundary, after, allowance) ==
  LET place == PlaceOf(scope, boundary)
      rows == Rows[<<place.shape, place.province>>]
      count == Least(Size(allowance), Greatest(rows - after, 0))
      remaining == Greatest(allowance - count, 0)
  IN /\ pages' = pages \cup
          {[offer |-> offer, place |-> place, after |-> after, count |-> count, at |-> clock]}
     /\ cursors' = cursors \cup
          (IF rows > after + count /\ remaining > 0
           THEN {SignedCursor(offer, scope, after + count, remaining)} ELSE {})

(* deliverOffer: the answer of a lookup is one record. *)
DeliversPoint(offer) ==
  /\ pages' = pages \cup
       {[offer |-> offer, place |-> PlaceOf(offer.scope, Absent), after |-> 0, count |-> 1,
         at |-> clock]}
  /\ UNCHANGED cursors

(* SETTLEMENT_DELIVERY_FAILED: nothing is delivered, although it is paid,   *)
(* because a check refuses or the delivery breaks down.                     *)
Undelivered(offer, why) ==
  owed' = owed \cup {[offer |-> offer, why |-> why]} /\ UNCHANGED <<pages, cursors>>

(* deliverOffer, deliverAreaOffer: an area is refused where the boundary is *)
(* another, the riding is not found any more, or its province has no        *)
(* addresses.  Any delivery may break down: a lookup that is not answered   *)
(* or runs out of time, a file or the register that cannot be read, a       *)
(* register that is not there.                                              *)
DeliversFirst(accept) ==
  LET offer == accept.offer
  IN /\ accept \in accepting
     /\ accepting' = accepting \ {accept}
     /\ \/ /\ IsPoint(offer.scope) /\ DeliversPoint(offer) /\ UNCHANGED owed
        \/ /\ ~IsPoint(offer.scope) /\ Deliverable(offer.scope, accept.boundary)
           /\ Delivers(offer, offer.scope, accept.boundary, 0, offer.maximum)
           /\ UNCHANGED owed
        \/ /\ ~IsPoint(offer.scope) /\ ~Deliverable(offer.scope, accept.boundary)
           /\ Undelivered(offer, "refused")
        \/ Undelivered(offer, "failed")
     /\ UNCHANGED <<world, offers, paid>>

(* handleAreaRequest: any cursor, until the offer it belongs to expires.    *)
DeliversNext(cursor, boundary) ==
  /\ Valid(cursor) /\ Deliverable(cursor.scope, boundary)
  /\ Delivers(cursor.offer, cursor.scope, boundary, cursor.after, cursor.remaining)
  /\ UNCHANGED <<world, offers, accepting, paid, owed>>

-----------------------------------------------------------------------------
(* The world *)

Changes ==
  /\ changes < MaxChanges /\ changes' = changes + 1
  /\ changed' = offers
  /\ UNCHANGED <<clock, offers, accepting, cursors, pages, paid, owed>>

(* A boundary file is published again under its year. *)
Republishes(r) ==
  /\ file' \in {[file EXCEPT ![r] = f] : f \in FileOf \ {file[r]}}
  /\ UNCHANGED <<covered, registry>> /\ Changes

(* ODA_PROVINCES is deployed with or without a province. *)
Deploys(p) ==
  covered' = (IF p \in covered THEN covered \ {p} ELSE covered \cup {p}) /\ UNCHANGED <<file, registry>> /\ Changes

(* A build registers another file for a dataset. *)
Registers(d) ==
  /\ registry' \in {[registry EXCEPT ![d] = f] : f \in NextFiles}
  /\ UNCHANGED <<file, covered>> /\ Changes

TimePasses ==
  /\ clock < MaxTicks /\ clock' = clock + 1
  /\ UNCHANGED <<file, covered, registry, offers, accepting, cursors, pages, paid, owed,
                 changed, changes>>

QuotesInit ==
  /\ file \in [Ridings -> FileOf \ {Absent}] /\ covered = Provinces
  /\ registry = FirstRegistry
  /\ clock = 0 /\ offers = {} /\ accepting = {} /\ cursors = {} /\ pages = {}
  /\ paid = <<>> /\ owed = {} /\ changed = {} /\ changes = 0

QuotesNext ==
  \/ \E r \in Ridings : QuotesRiding(r) \/ Republishes(r)
  \/ \E s \in Shapes, p \in Provinces : QuotesShape(s, p)
  \/ \E offer \in offers, boundary \in Shapes \cup {Absent} : Pays(offer, boundary)
  \/ \E accept \in accepting : DeliversFirst(accept)
  \/ \E cursor \in cursors, boundary \in Shapes \cup {Absent} : DeliversNext(cursor, boundary)
  \/ \E d \in Datasets : QuotesPoint(d)
  \/ \E d \in DOMAIN registry : Registers(d)
  \/ \E p \in Provinces : Deploys(p)
  \/ TimePasses

-----------------------------------------------------------------------------
(* Properties *)

(* "the price, vintage and inputs immutable between quote and acceptance",  *)
(* and the paid ceiling "holds across pages" (offers.ts): what is delivered *)
(* was paid for, at the published price of what was quoted; it is of the    *)
(* place that was quoted, or read from the file that was, unless that file  *)
(* has changed since; pages after the first are read before the offer       *)
(* expires, and whatever is presented again, none goes beyond the maximum.  *)
(* Excepted is the one record of an offer of none.                          *)
DeliveredAsQuoted ==
  \A page \in pages :
    LET offer == page.offer
        price == IF IsPoint(offer.scope) THEN PointPrice ELSE Price(offer.maximum)
    IN /\ \E n \in DOMAIN paid : paid[n].offer = offer /\ paid[n].amount = price
       /\ IF Named(offer.scope) THEN offer \in changed \/ page.place = file[offer.scope.riding]
          ELSE IF IsPoint(offer.scope)
          THEN offer \in changed \/ page.place.shape = offer.scope.dataset
          ELSE page.place = [shape |-> offer.scope.shape, province |-> offer.scope.province]
       /\ page.after > 0 => page.at < offer.expires
       /\ page.after + page.count <= Greatest(offer.maximum, 1)

(* "Checking it after settlement would mean charging for a request we then  *)
(* refuse": whom the checks of the delivery refuse after the charge, they   *)
(* refuse for a file, a coverage or a registry that changed since the quote;*)
(* never for the boundary that was sent again, nor for what stood already.  *)
(* Excepted is a delivery that breaks down: a quote does not try it.        *)
RefusedIfChanged == \A due \in owed : due.why = "refused" => due.offer \in changed

(* What is delivered is what was quoted and paid for, and the checks refuse *)
(* nobody who paid but for a change.                                        *)
PaidAsQuoted == DeliveredAsQuoted /\ RefusedIfChanged
=============================================================================
