---------------------------- MODULE X402Accept ----------------------------
(***************************************************************************)
(* The account-free payment rail: `POST /api/quote/accept` of offers.ts    *)
(* with the spend cap (x402-spend.ts and the /spend routes of the usage    *)
(* object), the receipt store (x402-receipts.ts) and its reconciliation    *)
(* (x402-reconcile.ts).                                                    *)
(*                                                                         *)
(* A call runs from await to await: verify, reserve, settle (once more if  *)
(* pending), record, deliver, correct, answer.  Calls interleave freely,   *)
(* in one isolate or several, and an invocation may end at any await.      *)
(* The facilitator and the chain are external: what a payment's transfer   *)
(* has come to is in `chain`, and the call that got it under way, which    *)
(* the program never stores, in `takenBy`.                                 *)
(***************************************************************************)
EXTENDS Naturals, SequencesExt, Totals

CONSTANTS
  Calls,             \* accept requests that passed the checks made before payment
  Payloads,          \* signed payments
  Payers,            \* wallets
  PayerOf,           \* who a payload names: a wallet, or NoPayer
  Amount,            \* what a payload pays, the price of the offer it is sent for
  Cap,               \* payerDailyCapUsd, enabled
  NoPayer, NoCall, NoReceipt,
  LastDay,           \* bound: the days of a run are 1..LastDay
  MaxLostReplies,    \* bound: calls to the spend counter whose reply is lost
  MaxLostWrites,     \* bound: receipt writes that throw
  MaxReconciles,     \* bound: reconciliations
  ListLimit,         \* the limit a listing of receipts is asked for
  SameMillisecond    \* whether two calls of one offer may record in one millisecond

(* X402Receipt, as far as it matters: whose, delivered or not, on the chain. *)
Receipts ==
  [writer : Calls, delivered : BOOLEAN,
   confirmation : {"none", "unknown", "confirmed", "failed"}]

ASSUME X402Constants ==
  /\ PayerOf \in [Payloads -> Payers \cup {NoPayer}] /\ NoPayer \notin Payers
  /\ Amount \in [Payloads -> Nat \ {0}] /\ Cap \in Nat \ {0}
  /\ IsFiniteSet(Calls) /\ IsFiniteSet(Payloads) /\ NoCall \notin Calls
  /\ NoReceipt \notin Receipts
  /\ LastDay \in Nat \ {0}
  /\ MaxLostReplies \in Nat /\ MaxLostWrites \in Nat /\ MaxReconciles \in Nat
  /\ ListLimit \in Nat \ {0} /\ SameMillisecond \in BOOLEAN

VARIABLES
  day,          \* the UTC day
  payload,      \* the payload in a call's header
  stage,        \* the last await a call has come back from
  answer,       \* how it ended, or "none"
  reservedOn,   \* the day of its reservation's handle
  at,           \* the receipt key of a call: the call whose millisecond it names
  persisted,    \* the local `persisted`
  spend,        \* `spend:<day>` of each payer's usage object
  receipts,     \* X402_RECEIPTS
  filed,        \* the keys receipts were written under, in the order of their names
  logged,       \* calls whose whole receipt went to the log
  unread,       \* the reconciliation under way: keys listed and not read yet
  read,         \* receipts it has read and not checked yet
  chain, takenBy,
  lostReplies, lostWrites, reconciles

request == <<payload, stage, answer, reservedOn, at, persisted>>
store == <<receipts, filed, logged, lostWrites>>
reconciliation == <<unread, read, reconciles>>
counter == <<spend, lostReplies>>
transfers == <<chain, takenBy>>
vars == <<day, request, counter, store, reconciliation, transfers>>

Days == 1 .. LastDay

Init ==
  /\ day = 1
  /\ payload \in [Calls -> Payloads]
  /\ stage = [c \in Calls |-> "idle"]
  /\ answer = [c \in Calls |-> "none"]
  /\ reservedOn = [c \in Calls |-> 1]
  /\ at = [c \in Calls |-> NoCall]
  /\ persisted = [c \in Calls |-> FALSE]
  /\ spend = [b \in Payers \X Days |-> 0]
  /\ receipts = [k \in Calls |-> NoReceipt]
  /\ filed = <<>> /\ logged = {} /\ unread = {}
  /\ read = [k \in Calls |-> NoReceipt]
  /\ chain = [p \in Payloads |-> "unused"]
  /\ takenBy = [p \in Payloads |-> NoCall]
  /\ lostReplies = 0 /\ lostWrites = 0 /\ reconciles = 0

-----------------------------------------------------------------------------
(* A call's progress. *)

Awaits(c, s) == stage[c] = s /\ answer[c] = "none"
Reaches(c, s) == stage' = [stage EXCEPT ![c] = s] /\ UNCHANGED answer
Ends(c, a) == answer' = [answer EXCEPT ![c] = a] /\ UNCHANGED stage
Bucket(c) == <<PayerOf[payload[c]], reservedOn[c]>>

(* HttpFacilitator: an answer with an error status is no answer, nor is one  *)
(* that is not JSON.  What does not say yes says no; a settlement may also   *)
(* be under way.                                                             *)
Verdicts == {"valid", "invalid", "thrown"}
Replies == {"success", "pending", "failure", "thrown"}

(* The facilitator's /verify accepts the payload, says it is not valid, or   *)
(* cannot be reached.  It may accept one that has been settled before.       *)
Verify(c) ==
  /\ Awaits(c, "idle")
  /\ \E verdict \in Verdicts :
       \/ verdict = "valid" /\ Reaches(c, "verified")
       \/ verdict = "invalid" /\ Ends(c, "refused")
       \/ verdict = "thrown" /\ Ends(c, "unavailable")
  /\ UNCHANGED <<payload, reservedOn, at, persisted, day, counter, store,
                 reconciliation, transfers>>

-----------------------------------------------------------------------------
(* The spend cap. *)

Admits(b, n) == spend[b] + n <= Cap

(* MUTANT of ReleaseBucket: today's bucket (#157). *)
TodaysBucket(c) == <<PayerOf[payload[c]], day>>

ReleaseBucket(c) == Bucket(c)

Charge(b, n) ==
  spend' = IF Admits(b, n) THEN [spend EXCEPT ![b] = @ + n] ELSE spend

Lost == lostReplies < MaxLostReplies /\ lostReplies' = lostReplies + 1

(* reservePayerSpend: a transaction of the payer's usage object.  When the   *)
(* call to it fails, the call is refused, counted or not.                    *)
Reserve(c) ==
  LET who == PayerOf[payload[c]]
      b == <<who, day>>
      n == Amount[payload[c]]
  IN /\ Awaits(c, "verified")
     /\ \/ /\ who = NoPayer
           /\ Ends(c, "refused")
           /\ UNCHANGED <<counter, reservedOn>>
        \/ /\ who # NoPayer
           /\ Charge(b, n)
           /\ \/ /\ Admits(b, n)
                 /\ Reaches(c, "reserved")
                 /\ reservedOn' = [reservedOn EXCEPT ![c] = day]
              \/ /\ ~Admits(b, n)
                 /\ Ends(c, "refused")
                 /\ UNCHANGED reservedOn
           /\ UNCHANGED lostReplies
        \/ /\ who # NoPayer
           /\ Lost
           /\ Charge(b, n) \/ UNCHANGED spend
           /\ Ends(c, "unavailable")
           /\ UNCHANGED reservedOn
     /\ UNCHANGED <<payload, at, persisted, day, store, reconciliation, transfers>>

(* /spend/release never takes the counter below zero. *)
Releases(b, n) == spend' = [spend EXCEPT ![b] = IF @ > n THEN @ - n ELSE 0]

(* releasePayerSpend, then the 402.  A failure is logged and swallowed. *)
Release(c) ==
  LET b == ReleaseBucket(c)
      n == Amount[payload[c]]
  IN /\ Awaits(c, "releasing")
     /\ \/ Releases(b, n) /\ UNCHANGED lostReplies
        \/ Lost /\ UNCHANGED spend
     /\ Ends(c, "refused")
     /\ UNCHANGED <<payload, reservedOn, at, persisted, day, store, reconciliation,
                    transfers>>

-----------------------------------------------------------------------------
(* Settlement. *)

(* What the facilitator may do with a call's payload before it gives an      *)
(* answer, or fails to give one.  It takes a payment once; a success is one  *)
(* that was sent, by this call or an earlier one; a failure says that this   *)
(* call's payment has not moved and will not.                                *)
Facilitates(c, reply) ==
  LET p == payload[c]
      Takes(s) == /\ chain[p] = "unused"
                  /\ chain' = [chain EXCEPT ![p] = s]
                  /\ takenBy' = [takenBy EXCEPT ![p] = c]
      Moves(s) == /\ chain[p] = "queued"
                  /\ chain' = [chain EXCEPT ![p] = s]
                  /\ UNCHANGED takenBy
  IN \/ /\ reply = "success"
        /\ \/ Takes("sent") \/ Moves("sent")
           \/ chain[p] \in {"sent", "confirmed"} /\ UNCHANGED transfers
     \/ /\ reply = "pending"
        /\ \/ Takes("queued") \/ Takes("sent")
           \/ chain[p] \in {"queued", "sent"} /\ UNCHANGED transfers
     \/ /\ reply = "failure"
        /\ \/ takenBy[p] # c /\ UNCHANGED transfers
           \/ takenBy[p] = c /\ Moves("failed")
           \/ chain[p] = "failed" /\ UNCHANGED transfers
     \/ /\ reply = "thrown"
        /\ Takes("queued") \/ Takes("sent") \/ Moves("sent") \/ UNCHANGED transfers

(* MUTANT of Settled: an error is taken for a failure (#156). *)
SettledThrown(c, reply) ==
  IF reply = "success" THEN Reaches(c, "settled")
  ELSE IF reply = "pending" THEN Ends(c, "pending") ELSE Reaches(c, "releasing")

(* How the handler reads the last reply of settleWithRetry. *)
Settled(c, reply) ==
  CASE reply = "success" -> Reaches(c, "settled")
    [] reply = "pending" -> Ends(c, "pending")
    [] reply = "failure" -> Reaches(c, "releasing")
    [] reply = "thrown" -> Ends(c, "unknown")

Settle(c) ==
  /\ \/ /\ Awaits(c, "reserved")
        /\ \/ \E reply \in Replies \ {"pending"} :
                Facilitates(c, reply) /\ Settled(c, reply)
           \/ Facilitates(c, "pending") /\ Reaches(c, "retrying")
     \/ /\ Awaits(c, "retrying")
        /\ \E reply \in Replies :
             Facilitates(c, reply) /\ Settled(c, reply)
  /\ UNCHANGED <<payload, reservedOn, at, persisted, day, counter, store, reconciliation>>

(* A queued transfer is sent or dropped, a sent one confirmed or reverted. *)
ChainMoves(p) ==
  /\ \/ chain[p] = "queued" /\ chain' \in {[chain EXCEPT ![p] = s] : s \in {"sent", "failed"}}
     \/ chain[p] = "sent" /\ chain' \in {[chain EXCEPT ![p] = s] : s \in {"confirmed", "failed"}}
  /\ UNCHANGED <<takenBy, day, request, counter, store, reconciliation>>

-----------------------------------------------------------------------------
(* Receipts and delivery. *)

(* recordReceipt of r under key k, ok being what it returns.  When both      *)
(* attempts throw, one of them may have been applied.                        *)
Writes(k, r, ok) ==
  /\ \/ ok /\ UNCHANGED lostWrites
     \/ ~ok /\ lostWrites < MaxLostWrites /\ lostWrites' = lostWrites + 1
  /\ \/ receipts' = [receipts EXCEPT ![k] = r]
     \/ ~ok /\ UNCHANGED receipts

(* The keys a call may record under: its own millisecond, or that of an      *)
(* earlier call of the same offer, so of the same price.                     *)
KeysOf(c) ==
  {c} \cup IF SameMillisecond
           THEN {d \in Calls : at[d] = d /\ Amount[payload[d]] = Amount[payload[c]]}
           ELSE {}

Recorded(ok) == ok

Obligation(c) == [writer |-> c, delivered |-> FALSE, confirmation |-> "none"]

(* The obligation is recorded before delivery. *)
Record(c) ==
  /\ Awaits(c, "settled")
  /\ \E k \in KeysOf(c), ok \in BOOLEAN :
       /\ Writes(k, Obligation(c), ok)
       /\ at' = [at EXCEPT ![c] = k]
       /\ filed' = IF k \in ToSet(filed) THEN filed ELSE Append(filed, k)
       /\ persisted' = [persisted EXCEPT ![c] = Recorded(ok)]
  /\ Reaches(c, "recorded")
  /\ UNCHANGED <<payload, reservedOn, logged, day, counter, reconciliation, transfers>>

(* Delivery throws or answers an error: the receipt stands as it is. *)
Deliver(c) ==
  /\ Awaits(c, "recorded")
  /\ Reaches(c, "delivered") \/ Ends(c, "failed")
  /\ UNCHANGED <<payload, reservedOn, at, persisted, day, counter, store, reconciliation,
                 transfers>>

ReportsLoss(kept) == ~kept

(* The correction, under the same key, and the answer. *)
Correct(c) ==
  /\ Awaits(c, "delivered")
  /\ \E ok \in BOOLEAN :
       LET kept == ok \/ persisted[c]
       IN /\ Writes(at[c], [Obligation(c) EXCEPT !.delivered = TRUE], ok)
          /\ persisted' = [persisted EXCEPT ![c] = kept]
          /\ logged' = IF ReportsLoss(kept) THEN logged \cup {c} ELSE logged
  /\ Ends(c, "served")
  /\ UNCHANGED <<payload, reservedOn, at, filed, day, counter, reconciliation, transfers>>

(* The invocation ends where it is: the caller hung up, the isolate died. *)
Abandon(c) ==
  /\ stage[c] # "idle" /\ answer[c] = "none"
  /\ Ends(c, "abandoned")
  /\ UNCHANGED <<payload, reservedOn, at, persisted, day, counter, store, reconciliation,
                 transfers>>

-----------------------------------------------------------------------------
(* Reconciliation: list the keys, read them one by one, then ask the chain   *)
(* about one receipt after the other and write it back as read.              *)

Idle == unread = {} /\ \A k \in Calls : read[k] = NoReceipt

(* A KV listing gives the first keys in name order: a receipt's name begins  *)
(* with recordedAt.                                                          *)
Listed ==
  LET stored == SelectSeq(filed, LAMBDA k : receipts[k] # NoReceipt)
  IN {stored[i] : i \in {n \in DOMAIN stored : n <= ListLimit}}

ReconcileLists ==
  /\ Idle /\ reconciles < MaxReconciles
  /\ unread' = Listed
  /\ unread' # {}
  /\ reconciles' = reconciles + 1
  /\ UNCHANGED <<read, day, request, counter, store, transfers>>

ReconcileReads(k) ==
  /\ k \in unread
  /\ unread' = unread \ {k}
  /\ read' = [read EXCEPT ![k] = receipts[k]]
  /\ UNCHANGED <<reconciles, day, request, counter, store, transfers>>

(* What eth_getTransactionReceipt may say; an error on the way is "unknown". *)
StatusOf(p) == {"unknown"} \cup ({chain[p]} \cap {"confirmed", "failed"})

Checked(r, s) == [r EXCEPT !.confirmation = s]

ReconcileChecks(k) ==
  LET r == read[k]
  IN /\ unread = {} /\ r # NoReceipt
     /\ \E s \in StatusOf(payload[r.writer]) :
          \/ s # r.confirmation /\ \E ok \in BOOLEAN : Writes(k, Checked(r, s), ok)
          \/ s = r.confirmation /\ UNCHANGED <<receipts, lostWrites>>
     /\ read' = [read EXCEPT ![k] = NoReceipt]
     /\ UNCHANGED <<unread, reconciles, filed, logged, day, request, counter, transfers>>

Midnight ==
  /\ day < LastDay
  /\ day' = day + 1
  /\ UNCHANGED <<request, counter, store, reconciliation, transfers>>

-----------------------------------------------------------------------------
Next ==
  \/ \E c \in Calls :
       \/ Verify(c) \/ Reserve(c) \/ Settle(c) \/ Release(c)
       \/ Record(c) \/ Deliver(c) \/ Correct(c) \/ Abandon(c)
  \/ \E p \in Payloads : ChainMoves(p)
  \/ ReconcileLists
  \/ \E k \in Calls : ReconcileReads(k) \/ ReconcileChecks(k)
  \/ Midnight

Spec == Init /\ [][Next]_vars

-----------------------------------------------------------------------------
(* Properties. *)

(* A reservation is held from the counter's yes to a release that was       *)
(* answered.                                                                *)
Held(c) == stage[c] \notin {"idle", "verified"} /\ answer[c] # "refused"
HeldIn(b) == {c \in Calls : Held(c) /\ Bucket(c) = b}
Reserved(b) == Total([c \in Calls |-> Amount[payload[c]]], HeldIn(b))

(* The counter of a payer's day covers every reservation held in it, of      *)
(* calls in flight and of calls long answered, whatever was lost and         *)
(* whatever midnight fell in between (x402-spend.ts:14-21).                  *)
SpendCoversReservations == \A b \in Payers \X Days : spend[b] >= Reserved(b)

(* Unless the counter failed to answer, the payer loses no allowance to      *)
(* refusals, failures or hung up calls: the counter is what is held.         *)
NoAllowanceLost ==
  lostReplies = 0 => \A b \in Payers \X Days : spend[b] = Reserved(b)

(* What moved, or is about to, in one payer's day is within the cap. *)
TakenIn(b) ==
  {p \in Payloads : /\ takenBy[p] # NoCall /\ chain[p] # "failed"
                    /\ <<PayerOf[p], reservedOn[takenBy[p]]>> = b}
DailyCapHolds == \A b \in Payers \X Days : Total(Amount, TakenIn(b)) <= Cap

(* The allowance of a payer's day is neither overrun nor eaten up: the      *)
(* counter covers what is held, no more than that, and what moves is within *)
(* the cap.                                                                 *)
AllowanceKept == SpendCoversReservations /\ NoAllowanceLost /\ DailyCapHolds

(* A receipt that says delivered is that of a call that has its result,      *)
(* however corrections and reconciliations overwrite one another.            *)
ReceiptIsTrue ==
  \A k \in Calls : receipts[k] # NoReceipt /\ receipts[k].delivered =>
    stage[receipts[k].writer] = "delivered"

OnFile(c) == at[c] # NoCall /\ receipts[at[c]] # NoReceipt /\ receipts[at[c]].writer = c

(* What a call was told is recorded stays on file, as its own receipt. *)
RecordStands == \A c \in Calls : persisted[c] => OnFile(c)

(* A payer that got a result is on file, or the whole receipt is in the log. *)
ServedIsAccountable ==
  \A c \in Calls : answer[c] = "served" => OnFile(c) \/ c \in logged

(* A verdict in a receipt is the chain's, never an error on the way to it. *)
ConfirmationIsEvidence ==
  \A k \in Calls :
    receipts[k] # NoReceipt /\ receipts[k].confirmation \in {"confirmed", "failed"} =>
      receipts[k].confirmation = chain[payload[receipts[k].writer]]

(* The books are true: what a receipt says is so, of the delivery and of    *)
(* the payment, and neither a write that was answered nor a payer that was  *)
(* served is lost.                                                          *)
ReceiptsAreTrue == ReceiptIsTrue /\ RecordStands /\ ServedIsAccountable /\ ConfirmationIsEvidence

(* Every payment is accounted for: against the payer's cap, and in the books. *)
PaymentsAccounted == AllowanceKept /\ ReceiptsAreTrue

(* The rail keeps what PaidRequest promises. *)
Outcome(c) ==
  IF answer[c] = "served" THEN "served"
  ELSE IF stage[c] \in {"settled", "recorded", "delivered"} THEN "owed"
  ELSE CASE answer[c] \in {"refused", "unavailable"} -> "refused"
         [] answer[c] \in {"unknown", "pending", "abandoned"} -> "doubtful"
         [] OTHER -> "open"
Promise == INSTANCE PaidRequest WITH
  outcome <- [c \in Calls |-> Outcome(c)],
  bucket <- reservedOn,
  takenBy <- [p \in Payloads |-> IF chain[p] = "failed" THEN NoCall ELSE takenBy[p]]
(* Every call is, for its payer, a paid request: it ends refused, in doubt, *)
(* or owed its result, a refused one has taken no payment, and a payment is *)
(* taken by one call, within the payer's cap of the day it is charged to    *)
(* (handleAcceptRequest, reservePayerSpend).                                *)
ImplementsPaidRequest == Promise!Spec
=============================================================================
