---------------------------- MODULE PaidRequest ----------------------------
(***************************************************************************)
(* What the account-free rail promises its payers.  A request that carries *)
(* a signed payment is open until it is refused, left in doubt, or owed    *)
(* its result; an owed one may be served.  A payment is taken at most      *)
(* once, in the day bucket of the request that takes it, never beyond what *)
(* its payer may spend in that bucket; a refused request has not taken it, *)
(* and only a taken payment makes a request owed.                          *)
(***************************************************************************)
EXTENDS Totals

CONSTANTS
  Calls,      \* the requests
  Payloads,   \* the signed payments
  Payers,     \* the wallets a cap applies to
  PayerOf,    \* who signed a payment
  Amount,     \* what it is for
  Cap,        \* what a payer may spend in one day
  Days,       \* the days of a run
  NoCall

VARIABLES
  payload,    \* the payment a request carries
  outcome,    \* what has become of a request
  bucket,     \* the day a request is charged to
  takenBy     \* the request that took a payment, or NoCall

vars == <<payload, outcome, bucket, takenBy>>

Outcome == {"open", "refused", "doubtful", "owed", "served"}

(* The payments of a payer taken in a day's bucket, and their sum. *)
TakenIn(who, d) ==
  {p \in Payloads : PayerOf[p] = who /\ takenBy[p] # NoCall /\ bucket[takenBy[p]] = d}
Spent(who, d) == Total(Amount, TakenIn(who, d))

Init ==
  /\ payload \in [Calls -> Payloads]
  /\ outcome = [c \in Calls |-> "open"]
  /\ bucket \in [Calls -> Days]
  /\ takenBy = [p \in Payloads |-> NoCall]

Becomes(c, o) == outcome' = [outcome EXCEPT ![c] = o]

(* The day is settled before anything is taken. *)
Assign(c, d) ==
  /\ outcome[c] = "open"
  /\ \A p \in Payloads : takenBy[p] # c
  /\ bucket' = [bucket EXCEPT ![c] = d]
  /\ UNCHANGED <<payload, outcome, takenBy>>

(* The money moves; the request may learn of it, or be left in doubt. *)
Take(c) ==
  LET p == payload[c]
  IN /\ outcome[c] = "open"
     /\ takenBy[p] = NoCall
     /\ Spent(PayerOf[p], bucket[c]) + Amount[p] <= Cap
     /\ takenBy' = [takenBy EXCEPT ![p] = c]
     /\ \E o \in {"open", "doubtful", "owed"} : Becomes(c, o)
     /\ UNCHANGED <<payload, bucket>>

Refuse(c) ==
  /\ outcome[c] = "open"
  /\ takenBy[payload[c]] # c
  /\ Becomes(c, "refused")
  /\ UNCHANGED <<payload, bucket, takenBy>>

Doubt(c) ==
  /\ outcome[c] = "open"
  /\ Becomes(c, "doubtful")
  /\ UNCHANGED <<payload, bucket, takenBy>>

Owe(c) ==
  /\ outcome[c] = "open"
  /\ takenBy[payload[c]] # NoCall
  /\ Becomes(c, "owed")
  /\ UNCHANGED <<payload, bucket, takenBy>>

Serve(c) ==
  /\ outcome[c] = "owed"
  /\ Becomes(c, "served")
  /\ UNCHANGED <<payload, bucket, takenBy>>

(* The transfer is dropped or reverted: the payer has the money back. *)
Return(p) ==
  /\ takenBy[p] # NoCall
  /\ takenBy' = [takenBy EXCEPT ![p] = NoCall]
  /\ UNCHANGED <<payload, outcome, bucket>>

Next ==
  \/ \E c \in Calls :
       \/ \E d \in Days : Assign(c, d)
       \/ Take(c) \/ Refuse(c) \/ Doubt(c) \/ Owe(c) \/ Serve(c)
  \/ \E p \in Payloads : Return(p)

Spec == Init /\ [][Next]_vars
=============================================================================
