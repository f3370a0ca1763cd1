---------------------------- MODULE BatchLookup ----------------------------
(* POST /batch (src/batch.ts, with the batch geocoding of src/geocoding.ts  *)
(* and src/oda-geocoding.ts): items that bring coordinates are looked up    *)
(* first, in order; the others are geocoded, all of them, and then looked   *)
(* up; what has no error is billed, and from the first refusal on redacted. *)
(*                                                                          *)
(* An item is the query it makes, and what it asks for is any of its        *)
(* outcomes: whether a geocoder knows it is fixed, whether one answers, and *)
(* whether a riding is found, is not.  Here the local database is enabled.  *)
(* The ledger and its limit are Metering's, and any of its answers may come.*)
EXTENDS Naturals, Sequences

CONSTANTS
  WithPoint,      \* the queries with coordinates
  PostalAlone,    \* those with a postal code alone, or asking for its centroid
  WithAddress,    \* those with an address
  KnownHere,      \* the queries the local database finds
  KnownOutside,   \* the queries an external geocoder finds
  MaxBatchSize,   \* BATCH_CONFIG.MAX_BATCH_SIZE
  NoBatch

Asked == WithPoint \cup PostalAlone \cup WithAddress

ASSUME BatchConstants ==
  /\ MaxBatchSize \in Nat \ {0} /\ NoBatch \notin Asked
  /\ KnownHere \cup KnownOutside \subseteq PostalAlone \cup WithAddress

VARIABLES
  batch,      \* the batch being worked on, or NoBatch
  reply,      \* the items and results of the one just answered, or NoBatch
  billed      \* auxiliary: the items of it that the ledger counted

batchVars == <<batch, reply, billed>>

Unanswered == [of |-> NoBatch, error |-> TRUE, riding |-> FALSE, found |-> FALSE]
Answered(q) == [of |-> q, error |-> FALSE, riding |-> TRUE, found |-> TRUE]
InError(q) == [of |-> q, error |-> TRUE, riding |-> FALSE, found |-> FALSE]

(* handleBatchRoute: a body of 1 to MAX_BATCH_SIZE valid items. *)
AcceptsBatch(items, customer) ==
  /\ batch = NoBatch
  /\ batch' = [items |-> items, customer |-> customer, step |-> "partition",
               provided |-> <<>>, needed |-> <<>>, geocoded |-> <<>>, at |-> 1, results |-> [i \in DOMAIN items |-> Unanswered], denied |-> FALSE]
  /\ reply' = NoBatch /\ billed' = {}

AtStep(step) == batch # NoBatch /\ batch.step = step

Puts(i, result) ==
  batch' = [batch EXCEPT !.results[i] = result, !.at = @ + 1]

GoesTo(step) == batch' = [batch EXCEPT !.step = step, !.at = 1]

(* The items that bring coordinates, and those to be geocoded, by index.    *)
Partitions ==
  /\ AtStep("partition")
  /\ IF batch.at > Len(batch.items) THEN GoesTo("coordinates")
     ELSE IF batch.items[batch.at] \in WithPoint
     THEN batch' = [batch EXCEPT !.provided = Append(@, batch.at), !.at = @ + 1]
     ELSE batch' = [batch EXCEPT !.needed = Append(@, batch.at), !.at = @ + 1]
  /\ UNCHANGED <<reply, billed>>

(* runExpandedLookup: an answer, or an error of this item alone.            *)
LooksUpCoordinates ==
  /\ AtStep("coordinates")
  /\ IF batch.at > Len(batch.provided) THEN GoesTo("geocode")
     ELSE LET i == batch.provided[batch.at]  q == batch.items[i]
          IN Puts(i, Answered(q)) \/ Puts(i, InError(q))
  /\ UNCHANGED <<reply, billed>>

(* geocodeBatch: postal codes alone are for the local database, without the *)
(* circuit and without what comes after it; with an address among them each *)
(* goes the way of a single lookup (Geocode).  One after another, a failure *)
(* of one being its result.                                                 *)
DatabaseOnly(items) == \A i \in DOMAIN items : items[i] \in WithPoint \cup PostalAlone

Known(items) == IF DatabaseOnly(items) THEN KnownHere ELSE KnownHere \cup KnownOutside

GeocodesNext ==
  /\ AtStep("geocode")
  /\ IF batch.at > Len(batch.needed) THEN GoesTo("lookup")
     ELSE LET q == batch.items[batch.needed[batch.at]]
          IN \E ok \in BOOLEAN :
               /\ ok => q \in Known(batch.items)
               /\ batch' = [batch EXCEPT !.geocoded = Append(@, [of |-> q, ok |-> ok]), !.at = @ + 1]
  /\ UNCHANGED <<reply, billed>>

(* MUTANT of PlaceOf: the place among those geocoded. *)
PlaceAmongGeocoded(n) == n

(* The place of the nth geocoded item in the batch. *)
PlaceOf(n) == batch.needed[n]

LooksUpGeocoded ==
  /\ AtStep("lookup")
  /\ IF batch.at > Len(batch.geocoded) THEN GoesTo("bill")
     ELSE LET result == batch.geocoded[batch.at]
          IN \/ result.ok /\ Puts(PlaceOf(batch.at), Answered(result.of))
             \/ Puts(PlaceOf(batch.at), InError(result.of))
  /\ UNCHANGED <<reply, billed>>

(* redactFuseDeniedResult: where the item is, and its normalized address,   *)
(* stay.                                                                    *)
Redacted(result) == [result EXCEPT !.riding = FALSE, !.error = TRUE]

BillsNext ==
  /\ AtStep("bill") /\ batch.at <= Len(batch.items)
  /\ LET r == batch.results[batch.at]
     IN \/ /\ r.error \/ ~batch.customer
           /\ batch' = [batch EXCEPT !.at = @ + 1]
           /\ UNCHANGED billed
        \/ /\ ~r.error /\ batch.customer /\ ~batch.denied
           /\ batch' = [batch EXCEPT !.at = @ + 1]
           /\ billed' = billed \cup {batch.at}
        \/ /\ ~r.error /\ batch.customer
           /\ batch' = [batch EXCEPT !.results[batch.at] = Redacted(@), !.denied = TRUE, !.at = @ + 1]
           /\ UNCHANGED billed
  /\ UNCHANGED reply

Responds ==
  /\ AtStep("bill") /\ batch.at > Len(batch.items)
  /\ reply' = [items |-> batch.items, results |-> batch.results, customer |-> batch.customer]
  /\ batch' = NoBatch
  /\ UNCHANGED billed

BatchInit == batch = NoBatch /\ reply = NoBatch /\ billed = {}

BatchWorks == Partitions \/ LooksUpCoordinates \/ GeocodesNext \/ LooksUpGeocoded \/ BillsNext \/ Responds

BatchNext ==
  \/ \E n \in 1 .. MaxBatchSize : \E items \in [1 .. n -> Asked], customer \in BOOLEAN :
       AcceptsBatch(items, customer)
  \/ BatchWorks

BatchSpec == BatchInit /\ [][BatchNext]_batchVars

-----------------------------------------------------------------------------
(* Properties *)

(* Every item is answered in its own place, from its own query, whichever   *)
(* items are geocoded and whichever fail; and where the work is billed a    *)
(* riding is given out for exactly what was counted, which is a beginning   *)
(* of what was found ("redacting the item that was refused and every item   *)
(* after it", batch.ts:271).                                                *)
AnsweredInPlace ==
  reply # NoBatch =>
    LET r == reply.results
    IN /\ DOMAIN r = DOMAIN reply.items
       /\ \A i \in DOMAIN r : r[i].of = reply.items[i]
       /\ reply.customer =>
            /\ billed = {i \in DOMAIN r : r[i].riding}
            /\ \A i, j \in DOMAIN r : i < j /\ r[j].riding /\ r[i].found => r[i].riding
=============================================================================
