----------------------------- MODULE Projection -----------------------------
(* A Customer's billing row in the portal's database, the record of it that *)
(* the portal projects into KV for the API, and the copies of that record   *)
(* which the isolates cache (billing-mutations.server.ts,                   *)
(* projection-handlers.ts, customer.ts).  The portal and the API run in the *)
(* same Worker, so a mutation runs on one of the isolates.                  *)
(*                                                                          *)
(* Not here: the label, which only the first projection carries, the        *)
(* records an operator's tool writes, and activateMeteredPlan, which nothing*)
(* calls.                                                                   *)
EXTENDS Integers, FiniteSets

CONSTANTS
  Isolates,
  Fuses,         \* fuse limits the settings page is given; 0 is none
  FreeAllowance, \* DEFAULT_FREE_MONTHLY_ALLOWANCE
  Efforts,       \* so many mutations after the signup and so many requests
  MaxFaults,     \* calls that fail or whose answer is lost
  None           \* no row, no record, nothing cached, no mutation

CustomerRecords ==
  [plan : {"free", "enterprise"}, fuse : Fuses \cup {FreeAllowance},
   soft : BOOLEAN, batch : BOOLEAN, stripe : BOOLEAN]

ASSUME ProjectionConstants ==
  /\ Fuses \subseteq Nat /\ FreeAllowance \in Nat \ {0}
  /\ Efforts \subseteq [mutations : Nat, requests : Nat]
  /\ None \notin CustomerRecords

VARIABLES
  row,       \* customer_billing in D1, or None
  kv,        \* customer:<id> in API_KEYS, or None
  cache,     \* customerCache of each isolate: None, or what was read
  mutation,  \* the mutation each isolate is in, or None
  left,      \* the mutations and the requests still to come
  faults,
  inStep     \* auxiliary: the last mutation ran alone and was projected

projectionVars == <<row, kv, cache, mutation, left, faults, inStep>>

With(record, own) ==
  [f \in DOMAIN record |-> IF f \in DOMAIN own THEN own[f] ELSE record[f]]

Spends(kind) == left[kind] > 0 /\ left' = [left EXCEPT ![kind] = @ - 1]
Fault == faults < MaxFaults /\ faults' = faults + 1

(* What a mutation, given the row it has read, sets: setFuse,               *)
(* setBatchEnabled, linkStripeCustomer.                                     *)
Settings(read) ==
  [fuse : Fuses, soft : BOOLEAN]
    \cup {[batch |-> TRUE, plan |-> "enterprise"], [batch |-> FALSE, plan |-> read.plan]}
    \cup (IF read.stripe THEN {} ELSE {[stripe |-> TRUE]})

InProgress == {i \in Isolates : mutation[i] # None}

(* provisionCustomer, at signup *)
Provisions(i) ==
  /\ row = None /\ mutation[i] = None
  /\ row' = [plan |-> "free", fuse |-> FreeAllowance,
             soft |-> FALSE, batch |-> FALSE, stripe |-> FALSE]
  /\ mutation' = [mutation EXCEPT ![i] =
       [read |-> row', own |-> <<>>, step |-> "project", alone |-> TRUE]]
  /\ UNCHANGED <<kv, cache, left, faults, inStep>>

(* getBillingForWorkspace, getBillingForCustomer *)
ReadsRow(i) ==
  /\ row # None /\ mutation[i] = None /\ Spends("mutations")
  /\ \E own \in Settings(row) :
       mutation' = [j \in Isolates |->
         IF j = i THEN [read |-> row, own |-> own, step |-> "write", alone |-> InProgress = {}]
         ELSE IF mutation[j] = None THEN None
         ELSE [mutation[j] EXCEPT !.alone = FALSE]]
  /\ UNCHANGED <<row, kv, cache, faults, inStep>>

WritesRow(i) ==
  /\ mutation[i] # None /\ mutation[i].step = "write"
  /\ row' = With(row, mutation[i].own)
  /\ mutation' = [mutation EXCEPT ![i].step = "project"]
  /\ inStep' = FALSE
  /\ UNCHANGED <<kv, cache, left, faults>>

(* MUTANT of Projected: the plan the row had. *)
ProjectedOldPlan(m) ==
  With(m.read, [f \in DOMAIN m.own \ {"plan"} |-> m.own[f]])

(* projectRow: the row that was read, with what the mutation set. *)
Projected(m) == With(m.read, m.own)

(* putCustomer: the isolate caches the record also when the put fails, which*)
(* nobody is told.                                                          *)
ProjectsRow(i) ==
  /\ mutation[i] # None /\ mutation[i].step = "project"
  /\ LET record == Projected(mutation[i])
     IN /\ \/ kv' = record /\ UNCHANGED faults /\ inStep' = mutation[i].alone
           \/ UNCHANGED kv /\ Fault /\ inStep' = FALSE
        /\ cache' = [cache EXCEPT ![i] = [record |-> record]]
  /\ mutation' = [mutation EXCEPT ![i] = None]
  /\ UNCHANGED <<row, left>>

(* The database refuses, or the isolate is gone and its cache with it. *)
MutationDies(i) ==
  /\ mutation[i] # None /\ Fault
  /\ mutation' = [mutation EXCEPT ![i] = None]
  /\ cache' \in {cache, [cache EXCEPT ![i] = None]}
  /\ UNCHANGED <<row, kv, left, inStep>>

(* loadCustomer: a failed read is cached as no Customer. *)
Loads(i, record) ==
  IF cache[i] # None THEN record = cache[i].record /\ UNCHANGED <<cache, faults>>
  ELSE /\ \/ record = kv /\ UNCHANGED faults
          \/ record = None /\ Fault
       /\ cache' = [cache EXCEPT ![i] = [record |-> record]]

(* CUSTOMER_CACHE_TTL_MS is over. *)
CacheExpires(i) ==
  /\ cache[i] # None
  /\ cache' = [cache EXCEPT ![i] = None]
  /\ UNCHANGED <<row, kv, mutation, left, faults, inStep>>

ProjectionInit ==
  /\ row = None /\ kv = None
  /\ cache = [i \in Isolates |-> None] /\ mutation = [i \in Isolates |-> None]
  /\ left \in Efforts /\ faults = 0 /\ inStep = FALSE

ProjectionNext ==
  \E i \in Isolates :
    \/ Provisions(i) \/ ReadsRow(i) \/ WritesRow(i) \/ ProjectsRow(i) \/ MutationDies(i)
    \/ CacheExpires(i)

-----------------------------------------------------------------------------
(* Properties *)

(* "D1 is canonical and the KV projection is derived"                       *)
(* (billing-mutations.server.ts:19): after a mutation that overlapped no    *)
(* other and whose put worked, KV holds what the row does in every field,   *)
(* also those it did not set and whatever went wrong before it ("Fuse/      *)
(* settings saves re-run the upsert", :77).                                 *)
ProjectionInStep == inStep => kv = row
=============================================================================
